---------------------------- MODULE LaunchProofs ----------------------------
(***************************************************************************)
(* Theorems about what a turn hands to claude and where it runs: Launch    *)
(* (credentials, variables and the grants of the agent and of its roles),  *)
(* Spawns (the sandbox), Stream (reading its output) and SetUp (the pure   *)
(* parts), for any roles, connections, hubs, turns, workspaces, bounds,    *)
(* outputs and inputs.                                                     *)
(***************************************************************************)
EXTENDS Launch, Spawns, Stream, SetUp, FiniteSetTheorems, SequenceTheorems, TLAPS

-----------------------------------------------------------------------------
(* Launch: nothing but what was granted.                                    *)

LaunchStage == {"idle", "roles", "mint", "sources", "material", "running"}
Target == {c.target : c \in Conn}

Collection(s) == s = [slots |-> s.slots, remotes |-> s.remotes] /\ s.remotes \in Seq(Target)

StoresTyped(c, s) ==
  /\ c \in [Layer -> Values \cup {Unset}]
  /\ s \in [Layer -> [Var -> Values \cup {Unset}]]

TurnTyped(l) ==
  /\ l = [at |-> l.at, roles |-> l.roles, keys |-> l.keys, auth |-> l.auth, env |-> l.env, todo |-> l.todo,
          source |-> l.source, got |-> l.got]
  /\ l.at \in LaunchStage /\ l.roles \in Seq(Role) /\ l.keys \in Seq(STRING)
  /\ l.auth \in Values \cup {Unset} /\ l.env \in [Var -> Values \cup {Unset}]
  /\ l.todo \subseteq Conn
  /\ Collection(l.source) /\ Collection(l.got)
  /\ l.at = "idle" => l = Resting
  /\ l.at = "material" => l.keys # <<>>
  /\ l.at \in {"mint", "sources", "material"} => l.auth \in Values

SeenTyped(s) ==
  s = [live |-> s.live, steady |-> s.steady, wore |-> s.wore, worn |-> s.worn, missed |-> s.missed]

LaunchTypeOK ==
  /\ StoresTyped(creds, store) /\ TurnTyped(launch) /\ SeenTyped(seen)
  /\ launch.at # "running" => held = Unset

\* The keys that grants may come from, by what has been seen.
Grantee(k, s) == k = Own \/ \E r \in s.wore \cap Range(Roles) : k = rolePathKey[r]

Granted(slots, s) ==
  \A x \in DOMAIN slots :
    slots[x] \in s.live /\ x \in Slots(slots[x].key, slots[x].conn) /\ Grantee(slots[x].key, s)

\* What is live is seen, and what has been collected was granted.
GrantedInv ==
  /\ LaunchTypeOK
  /\ launch.at # "idle" => LiveTokens \subseteq seen.live /\ \A r \in Role : Wears(r) => r \in seen.wore
  /\ Range(launch.roles) \subseteq Range(Roles)
  /\ \A i \in DOMAIN launch.keys : Grantee(launch.keys[i], seen)
  /\ Granted(launch.source.slots, seen) /\ Granted(launch.got.slots, seen)
  /\ NothingUngranted

LEMMA GrantedGrows ==
  ASSUME NEW slots, NEW s, NEW u, Granted(slots, s), s.live \subseteq u.live, s.wore \subseteq u.wore
  PROVE  Granted(slots, u)
BY DEF Granted, Grantee

\* What induction over the natural numbers comes to for a set.
LEMMA AllNumbers ==
  ASSUME NEW S, 0 \in S, \A n \in Nat : n \in S => n + 1 \in S
  PROVE  Nat \subseteq S
<1> SUFFICES ASSUME NEW x \in Nat, x \notin S PROVE FALSE
  OBVIOUS
<1> DEFINE T == {y \in 0 .. x : y \notin S}
           U == T \ {x}
           f == [y \in T |-> y - 1]
<1>1. IsFiniteSet(T) /\ x \in T
  <2>1. IsFiniteSet(0 .. x)
    BY FS_Interval
  <2> QED  BY <2>1, FS_Subset
<1>2. IsFiniteSet(U) /\ Cardinality(U) = Cardinality(T) - 1 /\ Cardinality(T) \in Nat
  BY <1>1, FS_RemoveElement, FS_CardinalityType
<1>3. f \in [T -> U]
  <2> SUFFICES ASSUME NEW y \in T PROVE y - 1 \in U
    OBVIOUS
  <2>1. y \in 0 .. x /\ y \notin S /\ y # 0
    OBVIOUS
  <2>2. y - 1 \in Nat /\ y - 1 < x /\ (y - 1) + 1 = y
    BY <2>1
  <2>3. y - 1 \notin S
    BY <2>1, <2>2
  <2> QED  BY <2>2, <2>3
<1>4. PICK a \in T, b \in T : a # b /\ f[a] = f[b]
  <2>1. Cardinality(U) < Cardinality(T)
    BY <1>2
  <2> HIDE DEF T, U, f
  <2> QED  BY <1>1, <1>2, <1>3, <2>1, FS_PigeonHole
<1> QED  BY <1>4

\* The remotes of several sources are a list.
LEMMA MergedIsList ==
  ASSUME NEW s \in Seq(Target), NEW t \in Seq(Target)
  PROVE  MergedRemotes(s, t) \in Seq(Target)
<1> DEFINE Step(f, i) == IF i = 0 THEN s
                         ELSE IF t[i] \in Range(f[i - 1]) THEN f[i - 1] ELSE Append(f[i - 1], t[i])
           Fits(n, f) == f \in [0 .. n -> Seq(Target)] /\ \A i \in 0 .. n : f[i] = Step(f, i)
           Has(n) == \E f : Fits(n, f)
           S == {n \in Nat : n <= Len(t) => Has(n)}
<1>1. 0 \in S
  <2> DEFINE f == [i \in 0 .. 0 |-> s]
  <2>1. Fits(0, f)
    OBVIOUS
  <2>2. Has(0)
    BY <2>1
  <2> HIDE DEF Has
  <2> QED  BY <2>2
<1>2. ASSUME NEW n \in Nat, n \in S, n + 1 <= Len(t) PROVE Has(n + 1)
  <2>0. Has(n)
    <3> HIDE DEF Has
    <3> QED  BY <1>2
  <2>1. PICK f : Fits(n, f)
    BY <2>0
  <2> DEFINE g == [i \in 0 .. n + 1 |-> IF i <= n THEN f[i] ELSE Step(f, n + 1)]
  <2>2. Step(f, n + 1) \in Seq(Target)
    <3>1. f[n] \in Seq(Target) /\ t[n + 1] \in Target /\ n + 1 # 0 /\ (n + 1) - 1 = n
      BY <2>1, <1>2
    <3> QED  BY <3>1
  <2>3. g \in [0 .. n + 1 -> Seq(Target)]
    BY <2>1, <2>2
  <2>4. ASSUME NEW i \in 0 .. n + 1 PROVE g[i] = Step(g, i)
    <3>1. CASE i = n + 1
      BY <3>1
    <3>2. CASE i \in 0 .. n
      <4>1. f[i] = Step(f, i)
        BY <2>1, <3>2
      <4>2. i # 0 => g[i - 1] = f[i - 1]
        BY <3>2
      <4>3. g[i] = f[i]
        BY <3>2
      <4> QED  BY <4>1, <4>2, <4>3
    <3> QED  BY <3>1, <3>2
  <2> HIDE DEF g, Step
  <2> QED  BY <2>3, <2>4
<1>3. Has(Len(t))
  <2> HIDE DEF Has
  <2>1. \A n \in Nat : n \in S => n + 1 \in S
    BY <1>2
  <2>2. Len(t) \in S
    <3> HIDE DEF S
    <3> QED  BY <1>1, <2>1, AllNumbers
  <2> QED  BY <2>2
<1>4. PICK f : Fits(Len(t), f)
  BY <1>3
<1> DEFINE m == CHOOSE g : g = [i \in 0 .. Len(t) |-> Step(g, i)]
<1>5. m = [i \in 0 .. Len(t) |-> Step(m, i)]
  <2>1. f = [i \in 0 .. Len(t) |-> Step(f, i)]
    <3> HIDE DEF Step
    <3> QED  BY <1>4
  <2> HIDE DEF Step
  <2> QED  BY <2>1
<1> DEFINE L == {n \in Nat : n <= Len(t) => m[n] \in Seq(Target)}
<1> HIDE DEF m
<1>6. 0 \in L
  BY <1>5
<1>7. ASSUME NEW n \in Nat, n \in L PROVE n + 1 \in L
  <2> SUFFICES ASSUME n + 1 <= Len(t) PROVE m[n + 1] \in Seq(Target)
    OBVIOUS
  <2>1. m[n] \in Seq(Target) /\ t[n + 1] \in Target /\ m[n + 1] = Step(m, n + 1) /\ (n + 1) - 1 = n
    <3>1. n <= Len(t) /\ n + 1 \in 1 .. Len(t) /\ n + 1 \in 0 .. Len(t)
      OBVIOUS
    <3>2. m[n] \in Seq(Target)
      BY <1>7, <3>1
    <3>3. m[n + 1] = Step(m, n + 1)
      <4> HIDE DEF Step
      <4> QED  BY <1>5, <3>1
    <3> QED  BY <3>1, <3>2, <3>3
  <2> QED  BY <2>1
<1>8. Len(t) \in L
  <2> HIDE DEF L
  <2> QED  BY <1>6, <1>7, AllNumbers
<1>9. MergedRemotes(s, t) = m[Len(t)]
  BY DEF MergedRemotes, m
<1> QED  BY <1>8, <1>9

-----------------------------------------------------------------------------
LEMMA CollectionMade ==
  ASSUME NEW slots, NEW remotes \in Seq(Target)
  PROVE  Collection([slots |-> slots, remotes |-> remotes])
BY DEF Collection

LEMMA EmptyCollection == Collection(Empty)
BY DEF Empty, Collection

LEMMA CollectionGrows ==
  ASSUME NEW s, Collection(s), NEW k, NEW c \in Conn
  PROVE  Collection(Added(s, k, c))
<1>1. c.target \in Target
  BY DEF Target
<1>2. (IF c.kind = "surface" /\ c.target \notin Range(s.remotes) THEN Append(s.remotes, c.target) ELSE s.remotes)
        \in Seq(Target)
  BY <1>1 DEF Collection
<1> QED  BY <1>2, CollectionMade DEF Added

LEMMA UnionCollection ==
  ASSUME NEW s, NEW t, Collection(s), Collection(t)
  PROVE  Collection(Union(s, t))
<1>1. MergedRemotes(s.remotes, t.remotes) \in Seq(Target)
  BY MergedIsList DEF Collection
<1> QED  BY <1>1, CollectionMade DEF Union

LEMMA CredentialTyped ==
  ASSUME LaunchTypeOK
  PROVE  resolveClaudeCredential \in Values \cup {Unset} /\ resolveChannelEnv \in [Var -> Values \cup {Unset}]
BY DEF LaunchTypeOK, StoresTyped, resolveClaudeCredential, resolveChannelEnv, ChannelOverDefault, Layer

LEMMA RestingTyped == TurnTyped(Resting) /\ Resting.at = "idle" /\ Resting.roles = <<>> /\ Resting.keys = <<>>
<1>1. <<>> \in Seq(Role) /\ <<>> \in Seq(STRING) /\ Collection(Empty)
  BY EmptyCollection
<1> HIDE DEF Empty
<1>2. [v \in Var |-> Unset] \in [Var -> Values \cup {Unset}]
  OBVIOUS
<1> QED  BY <1>1, <1>2 DEF Resting, TurnTyped, LaunchStage

\* The turn, field by field.
TurnAt(a, R, K, au, e, T, s, g) ==
  [at |-> a, roles |-> R, keys |-> K, auth |-> au, env |-> e, todo |-> T, source |-> s, got |-> g]

LEMMA TurnMade ==
  ASSUME NEW a \in LaunchStage \ {"idle"}, NEW R \in Seq(Role), NEW K \in Seq(STRING),
         NEW au \in Values \cup {Unset}, NEW e \in [Var -> Values \cup {Unset}], NEW T \in SUBSET Conn,
         NEW s, NEW g, Collection(s), Collection(g),
         a = "material" => K # <<>>, a \in {"mint", "sources", "material"} => au \in Values
  PROVE  TurnTyped(TurnAt(a, R, K, au, e, T, s, g))
<1>1. PICK l : l = TurnAt(a, R, K, au, e, T, s, g)
  OBVIOUS
<1>2. /\ l.at = a /\ l.roles = R /\ l.keys = K /\ l.auth = au /\ l.env = e /\ l.todo = T
      /\ l.source = s /\ l.got = g /\ l = TurnAt(l.at, l.roles, l.keys, l.auth, l.env, l.todo, l.source, l.got)
  BY <1>1 DEF TurnAt
<1>3. TurnTyped(l)
  BY <1>2 DEF TurnTyped, TurnAt
<1> QED  BY <1>1, <1>3

NoEnv == [v \in Var |-> Unset]
Asked(r) == IF IsSource(r) /\ rolePathKey[r] \notin {Own} \cup Range(launch.keys)
            THEN Append(launch.keys, rolePathKey[r]) ELSE launch.keys
Sourced == IF BindsVault THEN "mint" ELSE "sources"
Fetch(k, c) == IF Approved(k, c) THEN Added(launch.source, k, c) ELSE launch.source

\* What each step of the turn makes of it.
LEMMA TurnSteps ==
  ASSUME TurnTyped(launch)
  PROVE  /\ BeginLaunch => launch' = TurnAt("roles", Roles, <<>>, Unset, NoEnv, {}, Empty, Empty)
         /\ ReadRole => launch' = TurnAt("roles", Tail(launch.roles), Asked(Head(launch.roles)), launch.auth, launch.env,
                                         launch.todo, launch.source, launch.got)
         /\ RoleReadFails => launch' = TurnAt("roles", Tail(launch.roles), launch.keys, launch.auth, launch.env,
                                              launch.todo, launch.source, launch.got)
         /\ ThreadReadFails => launch' = TurnAt("roles", <<>>, launch.keys, launch.auth, launch.env,
                                                launch.todo, launch.source, launch.got)
         /\ Resolve => \/ launch' = Resting
                       \/ /\ resolveClaudeCredential # Unset
                          /\ launch' = TurnAt(Sourced, launch.roles, <<Own>> \o launch.keys, resolveClaudeCredential,
                                              resolveChannelEnv, launch.todo, launch.source, launch.got)
         /\ Mint => \/ launch' = Resting
                    \/ launch' = TurnAt("sources", launch.roles, launch.keys, launch.auth, launch.env,
                                        launch.todo, launch.source, launch.got)
         /\ ListGrants => launch' = TurnAt("material", launch.roles, launch.keys, launch.auth, launch.env,
                                           {c \in Conn : Approved(Head(launch.keys), c)}, Empty, launch.got)
         /\ ListFails => launch' = TurnAt("sources", launch.roles, Tail(launch.keys), launch.auth, launch.env,
                                          launch.todo, launch.source, launch.got)
         /\ GetMaterial => \E c \in launch.todo :
              launch' = TurnAt("material", launch.roles, launch.keys, launch.auth, launch.env,
                               launch.todo \ {c}, Fetch(Head(launch.keys), c), launch.got)
         /\ MaterialFails => \E c \in launch.todo :
              launch' = TurnAt("material", launch.roles, launch.keys, launch.auth, launch.env,
                               launch.todo \ {c}, launch.source, launch.got) /\ Missed(<<"grant", Head(launch.keys), c>>)
         /\ NextSource => launch' = TurnAt("sources", launch.roles, Tail(launch.keys), launch.auth, launch.env,
                                           launch.todo, Empty, Union(launch.got, launch.source))
         /\ Spawn => launch' = TurnAt("running", launch.roles, launch.keys, launch.auth, launch.env,
                                      launch.todo, launch.source, launch.got)
         /\ Finish => launch' = Resting
<1>l. launch = TurnAt(launch.at, launch.roles, launch.keys, launch.auth, launch.env, launch.todo, launch.source, launch.got)
  BY DEF TurnTyped, TurnAt
<1> HIDE DEF Empty
<1>1. BeginLaunch => launch' = TurnAt("roles", Roles, <<>>, Unset, NoEnv, {}, Empty, Empty)
  BY DEF BeginLaunch, Resting, TurnAt, NoEnv
<1>2. ReadRole => launch' = TurnAt("roles", Tail(launch.roles), Asked(Head(launch.roles)), launch.auth, launch.env,
                                   launch.todo, launch.source, launch.got)
  BY <1>l DEF ReadRole, TurnAt, Asked
<1>3. RoleReadFails => launch' = TurnAt("roles", Tail(launch.roles), launch.keys, launch.auth, launch.env,
                                        launch.todo, launch.source, launch.got)
  BY <1>l DEF RoleReadFails, TurnAt
<1>4. ThreadReadFails => launch' = TurnAt("roles", <<>>, launch.keys, launch.auth, launch.env,
                                          launch.todo, launch.source, launch.got)
  BY <1>l DEF ThreadReadFails, TurnAt
<1>5. Resolve => \/ launch' = Resting
                 \/ /\ resolveClaudeCredential # Unset
                    /\ launch' = TurnAt(Sourced, launch.roles, <<Own>> \o launch.keys, resolveClaudeCredential,
                                        resolveChannelEnv, launch.todo, launch.source, launch.got)
  BY <1>l DEF Resolve, TurnAt, Sourced
<1>6. Mint => \/ launch' = Resting
              \/ launch' = TurnAt("sources", launch.roles, launch.keys, launch.auth, launch.env,
                                  launch.todo, launch.source, launch.got)
  BY <1>l DEF Mint, TurnAt
<1>7. ListGrants => launch' = TurnAt("material", launch.roles, launch.keys, launch.auth, launch.env,
                                     {c \in Conn : Approved(Head(launch.keys), c)}, Empty, launch.got)
  BY <1>l DEF ListGrants, TurnAt
<1>8. ListFails => launch' = TurnAt("sources", launch.roles, Tail(launch.keys), launch.auth, launch.env,
                                    launch.todo, launch.source, launch.got)
  BY <1>l DEF ListFails, TurnAt
<1>9. ASSUME GetMaterial
      PROVE  \E c \in launch.todo :
              launch' = TurnAt("material", launch.roles, launch.keys, launch.auth, launch.env,
                               launch.todo \ {c}, Fetch(Head(launch.keys), c), launch.got)
  BY <1>l, <1>9 DEF GetMaterial, TurnAt, Fetch
<1>10. ASSUME MaterialFails
       PROVE  \E c \in launch.todo :
              launch' = TurnAt("material", launch.roles, launch.keys, launch.auth, launch.env,
                               launch.todo \ {c}, launch.source, launch.got) /\ Missed(<<"grant", Head(launch.keys), c>>)
  BY <1>l, <1>10 DEF MaterialFails, TurnAt
<1>11. NextSource => launch' = TurnAt("sources", launch.roles, Tail(launch.keys), launch.auth, launch.env,
                                      launch.todo, Empty, Union(launch.got, launch.source))
  BY <1>l DEF NextSource, TurnAt
<1>12. Spawn => launch' = TurnAt("running", launch.roles, launch.keys, launch.auth, launch.env,
                                 launch.todo, launch.source, launch.got)
  BY <1>l DEF Spawn, TurnAt
<1>13. Finish => launch' = Resting
  BY DEF Finish
<1> QED
  BY <1>1, <1>2, <1>3, <1>4, <1>5, <1>6, <1>7, <1>8, <1>9, <1>10, <1>11, <1>12, <1>13

LEMMA TurnMoves ==
  ASSUME LaunchTypeOK, LaunchStep
  PROVE  TurnTyped(launch')
<1>r. Roles \in Seq(Role) /\ rolePathKey \in [Role -> STRING] /\ Own \in STRING
  BY LaunchAssumption, GrantsAssumption
<1>l. /\ TurnTyped(launch) /\ launch.roles \in Seq(Role) /\ launch.keys \in Seq(STRING)
      /\ launch.auth \in Values \cup {Unset} /\ launch.env \in [Var -> Values \cup {Unset}]
      /\ launch.todo \in SUBSET Conn /\ Collection(launch.source) /\ Collection(launch.got)
      /\ launch.at = "material" => launch.keys # <<>>
      /\ launch.at \in {"mint", "sources", "material"} => launch.auth \in Values
  BY DEF LaunchTypeOK, TurnTyped
<1>s. {"roles", "mint", "sources", "material", "running"} \subseteq LaunchStage \ {"idle"}
  BY DEF LaunchStage
<1>t. TurnTyped(Resting) /\ Collection(Empty) /\ <<>> \in Seq(Role) /\ <<>> \in Seq(STRING)
      /\ NoEnv \in [Var -> Values \cup {Unset}]
  BY RestingTyped, EmptyCollection DEF NoEnv
<1> HIDE DEF Resting, Empty
<1>1. CASE BeginLaunch
  <2>1. launch' = TurnAt("roles", Roles, <<>>, Unset, NoEnv, {}, Empty, Empty)
    BY <1>1, <1>l, TurnSteps
  <2> QED  BY <1>r, <1>s, <1>t, <2>1, TurnMade
<1>2. CASE ReadRole
  <2>1. Tail(launch.roles) \in Seq(Role) /\ Head(launch.roles) \in Role
    BY <1>l, <1>2 DEF ReadRole
  <2>2. rolePathKey[Head(launch.roles)] \in STRING
    BY <1>r, <2>1
  <2>3. Asked(Head(launch.roles)) \in Seq(STRING)
    <3>1. Append(launch.keys, rolePathKey[Head(launch.roles)]) \in Seq(STRING) /\ launch.keys \in Seq(STRING)
      BY <1>l, <2>2
    <3> QED  BY <3>1 DEF Asked
  <2>4. launch' = TurnAt("roles", Tail(launch.roles), Asked(Head(launch.roles)), launch.auth, launch.env,
            launch.todo, launch.source, launch.got)
    BY <1>2, <1>l, TurnSteps
  <2> QED  BY <1>l, <1>s, <2>1, <2>3, <2>4, TurnMade
<1>3. CASE RoleReadFails
  <2>1. Tail(launch.roles) \in Seq(Role)
    BY <1>l, <1>3 DEF RoleReadFails
  <2>2. launch' = TurnAt("roles", Tail(launch.roles), launch.keys, launch.auth, launch.env,
            launch.todo, launch.source, launch.got)
    BY <1>3, <1>l, TurnSteps
  <2> QED  BY <1>l, <1>s, <2>1, <2>2, TurnMade
<1>4. CASE ThreadReadFails
  <2>1. launch' = TurnAt("roles", <<>>, launch.keys, launch.auth, launch.env,
            launch.todo, launch.source, launch.got)
    BY <1>4, <1>l, TurnSteps
  <2> QED  BY <1>l, <1>s, <1>t, <2>1, TurnMade
<1>5. CASE Resolve
  <2>1. resolveClaudeCredential \in Values \cup {Unset} /\ resolveChannelEnv \in [Var -> Values \cup {Unset}]
    BY CredentialTyped
  <2>2. <<Own>> \o launch.keys \in Seq(STRING)
    BY <1>r, <1>l
  <2>3. Sourced \in {"mint", "sources"}
    BY DEF Sourced
  <2>4. \/ launch' = Resting
        \/ /\ resolveClaudeCredential # Unset
           /\ launch' = TurnAt(Sourced, launch.roles, <<Own>> \o launch.keys, resolveClaudeCredential,
                               resolveChannelEnv, launch.todo, launch.source, launch.got)
    BY <1>5, <1>l, TurnSteps
  <2>5. ASSUME resolveClaudeCredential # Unset
        PROVE  TurnTyped(TurnAt(Sourced, launch.roles, <<Own>> \o launch.keys, resolveClaudeCredential,
                                resolveChannelEnv, launch.todo, launch.source, launch.got))
    <3>1. Sourced \in LaunchStage \ {"idle"} /\ Sourced # "material" /\ resolveClaudeCredential \in Values
      BY <1>s, <2>1, <2>3, <2>5
    <3> QED  BY <1>l, <2>1, <2>2, <3>1, TurnMade
  <2> QED  BY <1>t, <2>4, <2>5
<1>6. CASE Mint
  <2>1. launch.at = "mint"
    BY <1>6 DEF Mint
  <2>2. \/ launch' = Resting
        \/ launch' = TurnAt("sources", launch.roles, launch.keys, launch.auth, launch.env,
            launch.todo, launch.source, launch.got)
    BY <1>6, <1>l, TurnSteps
  <2> QED  BY <1>l, <1>s, <1>t, <2>1, <2>2, TurnMade
<1>7. CASE ListGrants
  <2>1. launch.at = "sources" /\ launch.keys # <<>>
    BY <1>7 DEF ListGrants
  <2> DEFINE T == {c \in Conn : Approved(Head(launch.keys), c)}
  <2>2. T \in SUBSET Conn /\ launch' = TurnAt("material", launch.roles, launch.keys, launch.auth, launch.env, T, Empty, launch.got)
    BY <1>7, <1>l, TurnSteps
  <2> HIDE DEF T
  <2> QED  BY <1>l, <1>s, <1>t, <2>1, <2>2, TurnMade
<1>8. CASE ListFails
  <2>1. launch.at = "sources" /\ launch.keys # <<>>
    BY <1>8 DEF ListFails
  <2>2. launch.keys \in Seq(STRING)
    BY <1>l
  <2>3. Tail(launch.keys) \in Seq(STRING)
    BY <2>1, <2>2, HeadTailProperties
  <2>4. launch' = TurnAt("sources", launch.roles, Tail(launch.keys), launch.auth, launch.env,
            launch.todo, launch.source, launch.got)
    BY <1>8, <1>l, TurnSteps
  <2> QED  BY <1>l, <1>s, <2>1, <2>3, <2>4, TurnMade
<1>9. CASE GetMaterial
  <2>1. launch.at = "material"
    BY <1>9 DEF GetMaterial
  <2>2. PICK c \in launch.todo :
          launch' = TurnAt("material", launch.roles, launch.keys, launch.auth, launch.env,
                           launch.todo \ {c}, Fetch(Head(launch.keys), c), launch.got)
    BY <1>9, <1>l, TurnSteps
  <2>3. Collection(Fetch(Head(launch.keys), c))
    BY <1>l, CollectionGrows DEF Fetch
  <2>4. launch.todo \ {c} \in SUBSET Conn
    BY <1>l
  <2> QED  BY <1>l, <1>s, <2>1, <2>2, <2>3, <2>4, TurnMade
<1>10. CASE MaterialFails
  <2>1. launch.at = "material"
    BY <1>10 DEF MaterialFails
  <2>2. PICK c \in launch.todo :
          launch' = TurnAt("material", launch.roles, launch.keys, launch.auth, launch.env,
                           launch.todo \ {c}, launch.source, launch.got)
    BY <1>10, <1>l, TurnSteps
  <2>3. launch.todo \ {c} \in SUBSET Conn
    BY <1>l
  <2> QED  BY <1>l, <1>s, <2>1, <2>2, <2>3, TurnMade
<1>11. CASE NextSource
  <2>1. launch.at = "material"
    BY <1>11 DEF NextSource
  <2>2. launch.keys \in Seq(STRING) /\ launch.keys # <<>>
    BY <1>l, <2>1
  <2>3. Tail(launch.keys) \in Seq(STRING)
    BY <2>2, HeadTailProperties
  <2>4. Collection(Union(launch.got, launch.source))
    BY <1>l, UnionCollection
  <2>5. launch' = TurnAt("sources", launch.roles, Tail(launch.keys), launch.auth, launch.env,
            launch.todo, Empty, Union(launch.got, launch.source))
    BY <1>11, <1>l, TurnSteps
  <2> QED  BY <1>l, <1>s, <1>t, <2>1, <2>3, <2>4, <2>5, TurnMade
<1>12. CASE Spawn
  <2>1. launch' = TurnAt("running", launch.roles, launch.keys, launch.auth, launch.env,
            launch.todo, launch.source, launch.got)
    BY <1>12, <1>l, TurnSteps
  <2> QED  BY <1>l, <1>s, <2>1, TurnMade
<1>13. CASE Finish
  BY <1>13, <1>l, <1>t, TurnSteps
<1> QED
  BY <1>1, <1>2, <1>3, <1>4, <1>5, <1>6, <1>7, <1>8, <1>9, <1>10, <1>11, <1>12, <1>13 DEF LaunchStep

\* What a step of the turn notes and holds.
LEMMA TurnNotes ==
  ASSUME LaunchTypeOK, LaunchStep
  PROVE  /\ UNCHANGED <<hub, roleNote, hooks, task, creds, store>>
         /\ SeenTyped(seen')
         /\ \/ BeginLaunch
            \/ /\ ~BeginLaunch
               /\ seen'.live = seen.live /\ seen'.steady = seen.steady /\ seen'.wore = seen.wore
               /\ seen'.worn = seen.worn /\ seen.missed \subseteq seen'.missed
         /\ launch'.at # "running" => held' = Unset
<1>1. SeenTyped(seen) /\ TurnTyped(launch) /\ (launch.at # "running" => held = Unset)
  BY DEF LaunchTypeOK
<1>2. \A x : Missed(x) => /\ SeenTyped(seen') /\ seen'.live = seen.live /\ seen'.steady = seen.steady
                          /\ seen'.wore = seen.wore /\ seen'.worn = seen.worn /\ seen.missed \subseteq seen'.missed
  BY <1>1 DEF SeenTyped, Missed
<1>3. CASE BeginLaunch
  BY <1>1, <1>3 DEF BeginLaunch, SeenAtFirst, SeenTyped, grantVars, storeVars
<1>4. CASE ThreadReadFails
  BY <1>1, <1>4 DEF ThreadReadFails, BeginLaunch, Unmoved, storeVars, SeenTyped, TurnTyped
<1>5. CASE RoleReadFails \/ ListFails \/ MaterialFails
  BY <1>1, <1>2, <1>5 DEF RoleReadFails, ListFails, MaterialFails, BeginLaunch, Unmoved, storeVars, TurnTyped
<1>6. CASE ReadRole \/ Resolve \/ Mint \/ ListGrants \/ GetMaterial \/ NextSource \/ Spawn \/ Finish
  <2>1. UNCHANGED <<hub, roleNote, hooks, task, creds, store, seen>> /\ launch.at # "idle"
    BY <1>6 DEF ReadRole, Resolve, Mint, ListGrants, GetMaterial, NextSource, Spawn, Finish, Unmoved, storeVars
  <2>2. launch'.at # "running" => held' = Unset
    <3>1. CASE Spawn
      BY <3>1, <1>1 DEF Spawn, TurnTyped
    <3> QED  BY <1>1, <1>6, <3>1 DEF ReadRole, Resolve, Mint, ListGrants, GetMaterial, NextSource, Finish, TurnTyped
  <2> QED  BY <1>1, <2>1, <2>2 DEF BeginLaunch
<1> QED
  BY <1>3, <1>4, <1>5, <1>6 DEF LaunchStep

\* What others do is noted, while the turn and what it holds stay.
LEMMA OthersNoted ==
  ASSUME LaunchTypeOK, Around \/ Configure \/ UNCHANGED launchVars
  PROVE  /\ UNCHANGED <<launch, held>> /\ StoresTyped(creds', store') /\ SeenTyped(seen')
         /\ launch.at # "idle" =>
              \/ UNCHANGED <<hub, roleNote, seen>>
              \/ /\ seen'.live = seen.live \cup LiveTokens' /\ seen'.wore = seen.wore \cup {r \in Role : Wears(r)'}
                 /\ seen'.steady = seen.steady \cap LiveTokens' /\ seen'.worn = seen.worn \cap {r \in Role : Wears(r)'}
         /\ launch.at = "idle" => UNCHANGED seen
         /\ seen'.missed = seen.missed
<1>1. SeenTyped(seen) /\ StoresTyped(creds, store)
  BY DEF LaunchTypeOK
<1>2. CASE Around
  <2>1. UNCHANGED <<creds, store, launch, held>>
    BY <1>2 DEF Around, storeVars
  <2> PICK L, W : L = LiveTokens' /\ W = {r \in Role : Wears(r)'}
    OBVIOUS
  <2>2. seen' = IF launch.at = "idle" THEN seen
                ELSE [seen EXCEPT !.live = @ \cup L, !.steady = @ \cap L, !.wore = @ \cup W, !.worn = @ \cap W]
    BY <1>2 DEF Around
  <2> QED  BY <1>1, <2>1, <2>2 DEF SeenTyped
<1>3. CASE Configure
  <2>1. UNCHANGED <<launch, held, seen, hub, roleNote>>
    BY <1>3 DEF Configure
  <2>2. StoresTyped(creds', store')
    <3>1. ASSUME NEW l \in Layer, NEW x \in Values \cup {Unset}, SetCredential(l, x)
          PROVE  StoresTyped(creds', store')
      BY <1>1, <3>1 DEF SetCredential, StoresTyped
    <3>2. ASSUME NEW l \in Layer, NEW v \in Var, NEW x \in Values \cup {Unset}, SetVar(l, v, x)
          PROVE  StoresTyped(creds', store')
      BY <1>1, <3>2 DEF SetVar, StoresTyped
    <3> QED  BY <1>3, <3>1, <3>2 DEF Configure
  <2> QED  BY <1>1, <2>1, <2>2
<1>4. CASE UNCHANGED launchVars
  BY <1>1, <1>4 DEF launchVars, grantVars, storeVars
<1> QED  BY <1>2, <1>3, <1>4

LEMMA StepTyped == LaunchTypeOK /\ [LaunchNext]_launchVars => LaunchTypeOK'
<1> SUFFICES ASSUME LaunchTypeOK, [LaunchNext]_launchVars PROVE LaunchTypeOK'
  OBVIOUS
<1>1. CASE LaunchStep
  BY <1>1, TurnMoves, TurnNotes DEF LaunchTypeOK
<1>2. CASE Around \/ Configure \/ UNCHANGED launchVars
  BY <1>2, OthersNoted DEF LaunchTypeOK
<1> QED  BY <1>1, <1>2 DEF LaunchNext

-----------------------------------------------------------------------------
\* The stores and the hub are what they were, and so is what is live and worn.
LEMMA NothingElseMoves ==
  ASSUME UNCHANGED <<hub, roleNote>>
  PROVE  /\ LiveTokens' = LiveTokens
         /\ \A r : Wears(r)' <=> Wears(r)
BY DEF LiveTokens, Token, Approved, Wears, roleWants

\* An approved grant of a grantee is live.
LEMMA ApprovedIsLive ==
  ASSUME NEW s, NEW k, Grantee(k, s), NEW c \in Conn, Approved(k, c)
  PROVE  Token(k, c) \in LiveTokens /\ Token(k, c).key = k /\ Token(k, c).conn = c
<1>1. k \in Key
  BY LaunchAssumption DEF Grantee, Key, Range
<1> QED  BY <1>1 DEF LiveTokens, Token

LEMMA AddedIsGranted ==
  ASSUME NEW s, NEW g, Granted(g.slots, s), NEW k, NEW c \in Conn,
         Token(k, c) \in s.live, Grantee(k, s)
  PROVE  Granted(Added(g, k, c).slots, s)
<1> PICK tok : tok = Token(k, c)
  OBVIOUS
<1>1. tok \in s.live /\ tok.key = k /\ tok.conn = c
  BY DEF Token
<1>2. Granted(AddedSlots(g.slots, Slots(k, c), tok), s)
  <2> HIDE DEF Slots
  <2> QED  BY <1>1 DEF Granted, AddedSlots
<1> QED  BY <1>2 DEF Added

LEMMA UnionIsGranted ==
  ASSUME NEW s, NEW g, NEW h, Granted(g.slots, s), Granted(h.slots, s)
  PROVE  Granted(Union(g, h).slots, s)
<1>1. Union(g, h).slots = Over(g.slots, h.slots)
  BY DEF Union
<1>2. Granted(Over(g.slots, h.slots), s)
  <2> HIDE DEF Slots
  <2> QED  BY DEF Granted, Over
<1> QED  BY <1>1, <1>2

LEMMA NothingCollected == \A s : Granted(Empty.slots, s)
BY DEF Empty, Granted

\* What claude is started with comes from what was collected.
LEMMA SpawnGrants ==
  ASSUME LaunchTypeOK, Granted(launch.got.slots, seen), Spawn, UNCHANGED seen
  PROVE  NothingUngranted'
<1>1. launch.auth \in Values
  BY DEF LaunchTypeOK, TurnTyped, Spawn
<1> PICK g, a, e : g = launch.got.slots /\ a = launch.auth /\ e = launch.env
  OBVIOUS
<1>2. held' = [slots |-> g, remotes |-> launch.got.remotes, env |-> [v \in Var |-> ChildEnv(a, e, g, v)]]
  BY DEF Spawn
<1>3. AUTH \in Var /\ held'.env[AUTH] = a
  BY <1>2, LaunchAssumption DEF ChildEnv
<1>4. ASSUME NEW v \in DENYLISTED_ENV \ {AUTH} PROVE held'.env[v] = Unset
  <2>1. v \in Var /\ v \notin PASSTHROUGH /\ v # AUTH /\ v \in DENYLISTED_ENV
    BY <1>4, LaunchAssumption
  <2>2. ChildEnv(a, e, g, v) = Unset
    BY <2>1 DEF ChildEnv
  <2> QED  BY <1>2, <2>1, <2>2
<1>5. ASSUME NEW x \in DOMAIN g
      PROVE  /\ g[x] \in seen.live /\ x \in Slots(g[x].key, g[x].conn)
             /\ g[x].key = Own \/ \E r \in seen.wore \cap Range(Roles) : g[x].key = rolePathKey[r]
  BY <1>5 DEF Granted, Grantee
<1> HIDE DEF Slots, ChildEnv
<1> QED  BY <1>1, <1>2, <1>3, <1>4, <1>5 DEF NothingUngranted

\* Only the start of claude makes the turn a running one.
LEMMA OnlySpawnRuns ==
  ASSUME TurnTyped(launch), LaunchStep, ~Spawn
  PROVE  launch'.at # "running"
<1>1. \/ launch' = Resting
      \/ \E a, R, K, au, e, T, s, g : a # "running" /\ launch' = TurnAt(a, R, K, au, e, T, s, g)
  <2>1. Sourced # "running"
    BY DEF Sourced
  <2>2. CASE BeginLaunch \/ ReadRole \/ RoleReadFails \/ ThreadReadFails
    BY <2>2, TurnSteps
  <2>3. CASE Resolve
    BY <2>1, <2>3, TurnSteps
  <2>4. CASE Mint
    BY <2>4, TurnSteps
  <2>5. CASE ListGrants \/ ListFails \/ NextSource \/ Finish
    BY <2>5, TurnSteps
  <2>6. CASE GetMaterial
    <3>1. PICK c \in launch.todo :
            launch' = TurnAt("material", launch.roles, launch.keys, launch.auth, launch.env,
                             launch.todo \ {c}, Fetch(Head(launch.keys), c), launch.got)
      BY <2>6, TurnSteps
    <3> QED  BY <3>1
  <2>7. CASE MaterialFails
    <3>1. PICK c \in launch.todo :
            launch' = TurnAt("material", launch.roles, launch.keys, launch.auth, launch.env,
                             launch.todo \ {c}, launch.source, launch.got)
      BY <2>7, TurnSteps
    <3> QED  BY <3>1
  <2> QED  BY <2>2, <2>3, <2>4, <2>5, <2>6, <2>7 DEF LaunchStep
<1> QED  BY <1>1 DEF TurnAt, Resting

LEMMA GrantedMoves ==
  ASSUME GrantedInv, LaunchStep
  PROVE  GrantedInv'
<1>t. LaunchTypeOK /\ TurnTyped(launch)
  BY DEF GrantedInv, LaunchTypeOK
<1>u. LaunchTypeOK'
  BY <1>t, StepTyped DEF LaunchNext
<1>n. UNCHANGED <<hub, roleNote>>
  BY <1>t, TurnNotes
<1>l. LiveTokens' = LiveTokens /\ \A r : Wears(r)' <=> Wears(r)
  BY <1>n, NothingElseMoves
<1>g. /\ Range(launch.roles) \subseteq Range(Roles)
      /\ \A i \in DOMAIN launch.keys : Grantee(launch.keys[i], seen)
      /\ Granted(launch.source.slots, seen) /\ Granted(launch.got.slots, seen)
      /\ launch.at # "idle" => LiveTokens \subseteq seen.live /\ \A r \in Role : Wears(r) => r \in seen.wore
  BY DEF GrantedInv
<1>k. launch.keys \in Seq(STRING) /\ launch.roles \in Seq(Role) /\ DOMAIN launch.keys = 1 .. Len(launch.keys)
  BY <1>t DEF TurnTyped
<1>h. NothingUngranted'
  <2>1. CASE Spawn
    BY <2>1, <1>t, <1>g, SpawnGrants DEF Spawn
  <2>2. CASE ~Spawn
    <3>1. launch'.at # "running"
      BY <1>t, <2>2, OnlySpawnRuns
    <3> QED  BY <1>t, <3>1, TurnNotes DEF NothingUngranted
  <2> QED  BY <2>1, <2>2
<1> SUFFICES /\ launch'.at # "idle" => LiveTokens \subseteq seen'.live /\ \A r \in Role : Wears(r) => r \in seen'.wore
             /\ Range(launch'.roles) \subseteq Range(Roles)
             /\ \A i \in DOMAIN launch'.keys : Grantee(launch'.keys[i], seen')
             /\ Granted(launch'.source.slots, seen') /\ Granted(launch'.got.slots, seen')
  BY <1>u, <1>l, <1>h DEF GrantedInv
<1>1. CASE BeginLaunch
  <2>1. launch' = TurnAt("roles", Roles, <<>>, Unset, NoEnv, {}, Empty, Empty) /\ seen' = SeenAtFirst
    BY <1>1, <1>t, TurnSteps DEF BeginLaunch
  <2>2. seen'.live = LiveTokens /\ seen'.wore = {r \in Role : Wears(r)}
    BY <2>1 DEF SeenAtFirst
  <2>3. launch'.roles = Roles /\ launch'.keys = <<>> /\ launch'.source = Empty /\ launch'.got = Empty
    BY <2>1 DEF TurnAt
  <2> QED  BY <2>2, <2>3, NothingCollected
<1>2. CASE ~BeginLaunch
  <2>s. seen'.live = seen.live /\ seen'.wore = seen.wore
    BY <1>t, <1>2, TurnNotes
  <2>a. launch.at # "idle"
    BY <1>2 DEF LaunchStep, ReadRole, RoleReadFails, ThreadReadFails, Resolve, Mint, ListGrants, ListFails, GetMaterial,
                MaterialFails, NextSource, Spawn, Finish
  <2>b. /\ \A k : Grantee(k, seen') <=> Grantee(k, seen)
        /\ \A slots : Granted(slots, seen') <=> Granted(slots, seen)
    BY <2>s DEF Grantee, Granted
  <2> SUFFICES /\ Range(launch'.roles) \subseteq Range(Roles)
               /\ \A i \in DOMAIN launch'.keys : Grantee(launch'.keys[i], seen)
               /\ Granted(launch'.source.slots, seen) /\ Granted(launch'.got.slots, seen)
    BY <1>g, <2>s, <2>a, <2>b
  <2>r. /\ Resting.roles = <<>> /\ Resting.keys = <<>> /\ Resting.source = Empty /\ Resting.got = Empty
    BY DEF Resting
  <2>q. ASSUME launch' = Resting
        PROVE  /\ Range(launch'.roles) \subseteq Range(Roles)
               /\ \A i \in DOMAIN launch'.keys : Grantee(launch'.keys[i], seen)
               /\ Granted(launch'.source.slots, seen) /\ Granted(launch'.got.slots, seen)
    BY <2>q, <2>r, NothingCollected DEF Range
  <2>f. \A a, R, K, au, e, T, s, g :
          launch' = TurnAt(a, R, K, au, e, T, s, g) =>
            launch'.roles = R /\ launch'.keys = K /\ launch'.source = s /\ launch'.got = g
    BY DEF TurnAt
  <2>1. CASE ReadRole
    <3>1. launch.roles # <<>> /\ Head(launch.roles) \in Range(launch.roles) /\ Head(launch.roles) \in Role
          /\ Range(Tail(launch.roles)) \subseteq Range(launch.roles)
      BY <2>1, <1>k DEF ReadRole, Range
    <3> PICK r : r = Head(launch.roles)
      OBVIOUS
    <3>2. IsSource(r) => Grantee(rolePathKey[r], seen)
      BY <1>g, <2>a, <3>1 DEF IsSource, Grantee
    <3>3. \A i \in DOMAIN Asked(r) : Grantee(Asked(r)[i], seen)
      BY <1>g, <1>k, <3>2 DEF Asked
    <3>4. launch'.roles = Tail(launch.roles) /\ launch'.keys = Asked(r)
          /\ launch'.source = launch.source /\ launch'.got = launch.got
      BY <1>t, <2>1, <2>f, TurnSteps
    <3> QED  BY <1>g, <3>1, <3>3, <3>4
  <2>2. CASE RoleReadFails
    <3>1. Range(Tail(launch.roles)) \subseteq Range(launch.roles)
      BY <2>2, <1>k DEF RoleReadFails, Range
    <3>2. launch'.roles = Tail(launch.roles) /\ launch'.keys = launch.keys
          /\ launch'.source = launch.source /\ launch'.got = launch.got
      BY <1>t, <2>2, <2>f, TurnSteps
    <3> QED  BY <1>g, <3>1, <3>2
  <2>3. CASE ThreadReadFails
    <3>1. launch'.roles = <<>> /\ launch'.keys = launch.keys /\ launch'.source = launch.source /\ launch'.got = launch.got
      BY <1>t, <2>3, <2>f, TurnSteps
    <3> QED  BY <1>g, <3>1 DEF Range
  <2>4. CASE Resolve
    <3>1. \/ launch' = Resting
          \/ launch'.roles = launch.roles /\ launch'.keys = <<Own>> \o launch.keys
             /\ launch'.source = launch.source /\ launch'.got = launch.got
      <4>1. \/ launch' = Resting
            \/ launch' = TurnAt(Sourced, launch.roles, <<Own>> \o launch.keys, resolveClaudeCredential,
                                resolveChannelEnv, launch.todo, launch.source, launch.got)
        BY <1>t, <2>4, TurnSteps
      <4> QED  BY <4>1 DEF TurnAt
    <3>2. \A i \in DOMAIN (<<Own>> \o launch.keys) : Grantee((<<Own>> \o launch.keys)[i], seen)
      <4> TAKE i \in DOMAIN (<<Own>> \o launch.keys)
      <4>1. \/ (<<Own>> \o launch.keys)[i] = Own
            \/ i - 1 \in DOMAIN launch.keys /\ (<<Own>> \o launch.keys)[i] = launch.keys[i - 1]
        BY <1>k
      <4> QED  BY <1>g, <4>1 DEF Grantee
    <3> QED  BY <1>g, <2>q, <3>1, <3>2
  <2>5. CASE Mint \/ Spawn \/ MaterialFails
    <3>1. \/ launch' = Resting
          \/ launch'.roles = launch.roles /\ launch'.keys = launch.keys
             /\ launch'.source = launch.source /\ launch'.got = launch.got
      <4>1. \/ launch' = Resting
            \/ \E a, T : launch' = TurnAt(a, launch.roles, launch.keys, launch.auth, launch.env, T, launch.source, launch.got)
        BY <1>t, <2>5, TurnSteps
      <4> QED  BY <4>1 DEF TurnAt
    <3> QED  BY <1>g, <2>q, <3>1
  <2>6. CASE ListGrants
    <3>1. launch'.roles = launch.roles /\ launch'.keys = launch.keys
          /\ launch'.source = Empty /\ launch'.got = launch.got
      BY <1>t, <2>6, <2>f, TurnSteps
    <3> QED  BY <1>g, <3>1, NothingCollected
  <2>t. launch.keys # <<>> => \A i \in DOMAIN Tail(launch.keys) : Grantee(Tail(launch.keys)[i], seen)
    <3> SUFFICES ASSUME launch.keys # <<>>, NEW i \in DOMAIN Tail(launch.keys) PROVE Grantee(Tail(launch.keys)[i], seen)
      OBVIOUS
    <3>1. i + 1 \in DOMAIN launch.keys /\ Tail(launch.keys)[i] = launch.keys[i + 1]
      BY <1>k
    <3> QED  BY <1>g, <3>1
  <2>7. CASE ListFails
    <3>1. launch'.roles = launch.roles /\ launch'.keys = Tail(launch.keys)
          /\ launch'.source = launch.source /\ launch'.got = launch.got
      BY <1>t, <2>7, <2>f, TurnSteps
    <3> QED  BY <1>g, <2>7, <2>t, <3>1 DEF ListFails
  <2>8. CASE GetMaterial
    <3>1. PICK c \in launch.todo :
            launch' = TurnAt("material", launch.roles, launch.keys, launch.auth, launch.env,
                             launch.todo \ {c}, Fetch(Head(launch.keys), c), launch.got)
      BY <1>t, <2>8, TurnSteps
    <3>2. launch'.roles = launch.roles /\ launch'.keys = launch.keys
          /\ launch'.source = Fetch(Head(launch.keys), c) /\ launch'.got = launch.got
      BY <3>1, <2>f
    <3>3. c \in Conn /\ launch.keys # <<>>
      BY <1>t, <2>8 DEF TurnTyped, GetMaterial
    <3>4. Grantee(Head(launch.keys), seen)
      BY <1>g, <1>k, <3>3
    <3>5. Granted(Fetch(Head(launch.keys), c).slots, seen)
      <4>1. CASE Approved(Head(launch.keys), c)
        <5>1. Token(Head(launch.keys), c) \in seen.live
          BY <1>g, <2>a, <3>3, <3>4, <4>1, ApprovedIsLive
        <5> QED  BY <1>g, <3>3, <3>4, <4>1, <5>1, AddedIsGranted DEF Fetch
      <4>2. CASE ~Approved(Head(launch.keys), c)
        BY <1>g, <4>2 DEF Fetch
      <4> QED  BY <4>1, <4>2
    <3> QED  BY <1>g, <3>2, <3>5
  <2>9. CASE NextSource
    <3>1. launch'.roles = launch.roles /\ launch'.keys = Tail(launch.keys)
          /\ launch'.source = Empty /\ launch'.got = Union(launch.got, launch.source)
      BY <1>t, <2>9, <2>f, TurnSteps
    <3>2. launch.keys # <<>>
      BY <1>t, <2>9 DEF TurnTyped, NextSource
    <3> QED  BY <1>g, <2>t, <3>1, <3>2, NothingCollected, UnionIsGranted
  <2>10. CASE Finish
    BY <1>t, <2>10, <2>q, TurnSteps
  <2> QED
    BY <1>2, <2>1, <2>2, <2>3, <2>4, <2>5, <2>6, <2>7, <2>8, <2>9, <2>10 DEF LaunchStep
<1> QED  BY <1>1, <1>2

LEMMA OthersGranted ==
  ASSUME GrantedInv, Around \/ Configure \/ UNCHANGED launchVars
  PROVE  GrantedInv'
<1>t. LaunchTypeOK
  BY DEF GrantedInv
<1>u. LaunchTypeOK'
  BY <1>t, StepTyped DEF LaunchNext
<1>1. UNCHANGED <<launch, held>>
  BY <1>t, OthersNoted
<1>2. CASE launch.at = "idle"
  <2>1. UNCHANGED seen /\ held = Unset
    BY <1>2, <1>t, OthersNoted DEF LaunchTypeOK
  <2>2. Range(launch.roles) \subseteq Range(Roles) /\ (\A i \in DOMAIN launch.keys : Grantee(launch.keys[i], seen))
        /\ Granted(launch.source.slots, seen) /\ Granted(launch.got.slots, seen)
    BY DEF GrantedInv
  <2>3. NothingUngranted'
    BY <1>1, <2>1 DEF NothingUngranted
  <2> QED  BY <1>1, <1>2, <1>u, <2>1, <2>2, <2>3 DEF GrantedInv
<1>3. CASE launch.at # "idle"
  <2>1. /\ seen.live \subseteq seen'.live /\ seen.wore \subseteq seen'.wore
        /\ LiveTokens' \subseteq seen'.live /\ \A r \in Role : Wears(r)' => r \in seen'.wore
    <3>1. CASE UNCHANGED <<hub, roleNote, seen>>
      BY <1>3, <3>1, NothingElseMoves DEF GrantedInv
    <3>2. CASE seen'.live = seen.live \cup LiveTokens' /\ seen'.wore = seen.wore \cup {r \in Role : Wears(r)'}
      BY <3>2
    <3> QED  BY <1>3, <1>t, <3>1, <3>2, OthersNoted
  <2>2. \A k : Grantee(k, seen) => Grantee(k, seen')
    BY <2>1 DEF Grantee
  <2>3. Granted(launch.source.slots, seen') /\ Granted(launch.got.slots, seen')
    BY <2>1, GrantedGrows DEF GrantedInv
  <2>4. NothingUngranted'
    <3> SUFFICES ASSUME held # Unset, NEW x \in DOMAIN held.slots
                 PROVE  /\ held.slots[x] \in seen'.live /\ x \in Slots(held.slots[x].key, held.slots[x].conn)
                        /\ Grantee(held.slots[x].key, seen')
      BY <1>1 DEF NothingUngranted, GrantedInv, Grantee
    <3>1. /\ held.slots[x] \in seen.live /\ x \in Slots(held.slots[x].key, held.slots[x].conn)
          /\ Grantee(held.slots[x].key, seen)
      BY DEF NothingUngranted, GrantedInv, Grantee
    <3> QED  BY <2>1, <2>2, <3>1
  <2> QED  BY <1>1, <1>u, <2>1, <2>2, <2>3, <2>4 DEF GrantedInv
<1> QED  BY <1>2, <1>3

LEMMA GrantedInit == LaunchInit => GrantedInv
<1> SUFFICES ASSUME LaunchInit PROVE GrantedInv
  OBVIOUS
<1>1. TurnTyped(launch) /\ launch = Resting /\ held = Unset /\ seen = Unseen
  BY RestingTyped DEF LaunchInit
<1>2. StoresTyped(creds, store)
  BY DEF LaunchInit, StoresTyped, Layer
<1>3. SeenTyped(seen) /\ Unseen.live = {} /\ Unseen.wore = {}
  BY <1>1 DEF SeenTyped, Unseen
<1>4. launch.at = "idle" /\ launch.roles = <<>> /\ launch.keys = <<>> /\ launch.source = Empty /\ launch.got = Empty
  BY <1>1 DEF Resting
<1> HIDE DEF Resting, Empty
<1> QED  BY <1>1, <1>2, <1>3, <1>4, NothingCollected DEF GrantedInv, LaunchTypeOK, NothingUngranted, Range

(* Theorem: claude never holds a token that was not granted: each is a     *)
(* grant that was live during the turn, of the agent itself or of a role   *)
(* that its thread lists and that asked for grants, in the slot of its own *)
(* connection, and no store and no grant sets the credential or another    *)
(* denylisted variable (readThreadRoles, resolveInjectedGrantsUnion,       *)
(* buildAgentChildEnv).                                                    *)
THEOREM ClaudeHoldsOnlyGrants == LaunchSpec => []NothingUngranted
<1>1. GrantedInv /\ [LaunchNext]_launchVars => GrantedInv'
  BY GrantedMoves, OthersGranted DEF LaunchNext
<1>2. GrantedInv => NothingUngranted
  BY DEF GrantedInv
<1> QED  BY GrantedInit, <1>1, <1>2, PTL DEF LaunchSpec

-----------------------------------------------------------------------------
(* Grants: what a role was granted stays.                                  *)

TaskStage == {"idle", "fetch", "gone", "stamp", "register"}

\* A task that registers has read a note that is there and not malformed.
TaskTyped(r) ==
  /\ r = [at |-> r.at, role |-> r.role, read |-> r.read, todo |-> r.todo]
  /\ r.at \in TaskStage /\ (r.at # "idle" => r.role \in Role) /\ r.todo \subseteq Conn
  /\ r.at = "register" => r.read.there /\ (r.read.tagged => r.read.sound)

ReconcileInv ==
  /\ hub \in [Key -> [Conn -> Grant]]
  /\ roleNote \in [Role -> Content]
  /\ hooks \subseteq Role
  /\ DOMAIN task = Task /\ \A t \in Task : TaskTyped(task[t])

\* Distinct roles have distinct keys, and none is what a note's id would give.
KeysDistinct ==
  /\ \A r, s \in Role : rolePathKey[r] = rolePathKey[s] => r = s
  /\ \A r, s \in Role : idKey[r] # rolePathKey[s]

LEMMA TaskMade ==
  ASSUME NEW a \in TaskStage, NEW r, NEW n, NEW T \in SUBSET Conn, a # "idle" => r \in Role,
         a = "register" => n.there /\ (n.tagged => n.sound)
  PROVE  TaskTyped([at |-> a, role |-> r, read |-> n, todo |-> T])
BY DEF TaskTyped

LEMMA IdleTyped == TaskTyped(Idle)
BY DEF TaskTyped, Idle, TaskStage

LEMMA HookedTyped ==
  ASSUME NEW s \in Role
  PROVE  TaskTyped([Idle EXCEPT !.at = "fetch", !.role = s])
<1>1. PICK j : j = [Idle EXCEPT !.at = "fetch"]
  OBVIOUS
<1>2. j = [at |-> "fetch", role |-> NoRole, read |-> Nothing, todo |-> {}]
  BY <1>1 DEF Idle
<1>3. [j EXCEPT !.role = s] = [at |-> "fetch", role |-> s, read |-> Nothing, todo |-> {}]
  BY <1>2
<1>4. [Idle EXCEPT !.at = "fetch", !.role = s] = [j EXCEPT !.role = s]
  BY <1>1
<1>5. "fetch" \in TaskStage \ {"register"}
  BY DEF TaskStage
<1> QED  BY <1>3, <1>4, <1>5, TaskMade

LEMMA TaskMoves ==
  ASSUME DOMAIN task = Task, \A t \in Task : TaskTyped(task[t]), NEW t \in Task, NEW r, TaskTyped(r), To(t, r)
  PROVE  DOMAIN task' = Task /\ \A u \in Task : TaskTyped(task'[u])
BY DEF To

\* What registering and pruning make of the hub: nothing that is granted goes but
\* what is pruned.
LEMMA PutTyped ==
  ASSUME hub \in [Key -> [Conn -> Grant]], NEW k \in Key, NEW c \in Conn
  PROVE  /\ Put(k, c) \in [Key -> [Conn -> Grant]]
         /\ \A l \in Key, d \in Conn : Put(k, c)[l][d].status = "none" => hub[l][d].status = "none"
<1>1. CASE hub[k][c].status = "none"
  <2>1. Put(k, c) = [hub EXCEPT ![k][c].status = "pending"]
    BY <1>1 DEF Put
  <2>2. [hub[k][c] EXCEPT !.status = "pending"] \in Grant /\ [hub[k][c] EXCEPT !.status = "pending"].status = "pending"
    BY DEF Grant
  <2> PICK g : g = [hub[k][c] EXCEPT !.status = "pending"]
    OBVIOUS
  <2>3. Put(k, c) = [hub EXCEPT ![k] = [hub[k] EXCEPT ![c] = g]]
    BY <2>1
  <2> HIDE DEF Grant
  <2>4. g \in Grant /\ g.status = "pending"
    BY <2>2
  <2> QED  BY <2>3, <2>4
<1>2. CASE hub[k][c].status # "none"
  BY <1>2 DEF Put
<1> QED  BY <1>1, <1>2

LEMMA KeptTyped ==
  ASSUME hub \in [Key -> [Conn -> Grant]], NEW k, NEW W
  PROVE  /\ Kept(k, W) \in [Key -> [Conn -> Grant]]
         /\ \A l \in Key, d \in Conn : l # k \/ d \in W => Kept(k, W)[l][d] = hub[l][d]
<1>1. CASE k \in Key
  <2> PICK h : h = [c \in Conn |-> IF c \in W THEN hub[k][c] ELSE [hub[k][c] EXCEPT !.status = "none"]]
    OBVIOUS
  <2>1. Kept(k, W) = [hub EXCEPT ![k] = h]
    BY <1>1 DEF Kept
  <2>2. \A c \in Conn : [hub[k][c] EXCEPT !.status = "none"] \in Grant
    BY <1>1 DEF Grant
  <2> HIDE DEF Grant
  <2>3. h \in [Conn -> Grant] /\ \A d \in W \cap Conn : h[d] = hub[k][d]
    BY <1>1, <2>2
  <2> QED  BY <1>1, <2>1, <2>3
<1>2. CASE k \notin Key
  BY <1>2 DEF Kept
<1> QED  BY <1>1, <1>2

\* The operator approves and revokes, and saves a role.
LEMMA OperateKeeps ==
  ASSUME ReconcileInv, Operate
  PROVE  /\ ReconcileInv'
         /\ \A k \in Key, c \in Conn : Approved(k, c) => hub'[k][c].status # "none"
<1>i. /\ hub \in [Key -> [Conn -> Grant]] /\ roleNote \in [Role -> Content] /\ hooks \subseteq Role
      /\ DOMAIN task = Task /\ \A t \in Task : TaskTyped(task[t])
  BY DEF ReconcileInv
<1>1. ASSUME NEW k \in Key, NEW c \in Conn, Approve(k, c) \/ Revoke(k, c)
      PROVE  ReconcileInv' /\ \A l \in Key, d \in Conn : Approved(l, d) => hub'[l][d].status # "none"
  <2>1. PICK g \in Grant : g.status \in {"approved", "revoked"} /\ hub' = [hub EXCEPT ![k][c] = g]
    <3>1. hub[k][c] \in Grant /\ hub[k][c] = [status |-> hub[k][c].status, n |-> hub[k][c].n] /\ hub[k][c].n \in Nat
      BY <1>i DEF Grant
    <3>2. CASE Approve(k, c)
      <4>1. [status |-> "approved", n |-> hub[k][c].n + 1] \in Grant
        BY <3>1 DEF Grant
      <4>2. hub' = [hub EXCEPT ![k][c] = [status |-> "approved", n |-> hub[k][c].n + 1]]
        BY <1>i, <3>2 DEF Approve
      <4> QED  BY <4>1, <4>2
    <3>3. CASE Revoke(k, c)
      <4>1. [status |-> "revoked", n |-> hub[k][c].n] \in Grant
        BY <3>1 DEF Grant
      <4>2. [hub[k][c] EXCEPT !.status = "revoked"] = [status |-> "revoked", n |-> hub[k][c].n]
        BY <3>1
      <4>3. hub' = [hub EXCEPT ![k][c] = [status |-> "revoked", n |-> hub[k][c].n]]
        BY <1>i, <3>3, <4>2 DEF Revoke
      <4> QED  BY <4>1, <4>3
    <3> QED  BY <1>1, <3>2, <3>3
  <2>2. UNCHANGED <<roleNote, hooks, task>>
    BY <1>1 DEF Approve, Revoke
  <2>3. hub' \in [Key -> [Conn -> Grant]]
    BY <1>i, <2>1
  <2>4. \A l \in Key, d \in Conn : Approved(l, d) => hub'[l][d].status # "none"
    BY <1>i, <2>1 DEF Approved
  <2> QED  BY <1>i, <2>2, <2>3, <2>4 DEF ReconcileInv
<1>2. ASSUME NEW r \in Role, Save(r)
      PROVE  ReconcileInv' /\ \A l \in Key, d \in Conn : Approved(l, d) => hub'[l][d].status # "none"
  <2>1. PICK C \in Contents : roleNote' = [roleNote EXCEPT ![r] = C]
    BY <1>2 DEF Save
  <2>2. hooks' \subseteq Role /\ UNCHANGED <<hub, task>>
    BY <1>i, <1>2 DEF Save
  <2>3. roleNote' \in [Role -> Content]
    BY <1>i, <2>1, GrantsAssumption
  <2>4. \A l \in Key, d \in Conn : Approved(l, d) => hub'[l][d].status # "none"
    BY <2>2 DEF Approved
  <2> QED  BY <1>i, <2>2, <2>3, <2>4 DEF ReconcileInv
<1> QED  BY <1>1, <1>2 DEF Operate

\* A task takes away only what the note it has read does not want.
LEMMA ReconcileKeeps ==
  ASSUME KeysDistinct, ReconcileInv, NEW t \in Task, Reconcile(t)
  PROVE  /\ ReconcileInv'
         /\ \A r \in Role, c \in Conn :
              Approved(rolePathKey[r], c) /\ hub'[rolePathKey[r]][c].status = "none"
                => Unwanted(r, c) \/ Overtaken(r)
<1>i. /\ hub \in [Key -> [Conn -> Grant]] /\ roleNote \in [Role -> Content] /\ hooks \subseteq Role
      /\ DOMAIN task = Task /\ \A u \in Task : TaskTyped(task[u])
  BY DEF ReconcileInv
<1>k. \A r \in Role : rolePathKey[r] \in Key
  BY DEF Key
<1>t. /\ task[t] = [at |-> task[t].at, role |-> task[t].role, read |-> task[t].read, todo |-> task[t].todo]
      /\ task[t].at # "idle" => task[t].role \in Role
      /\ task[t].todo \subseteq Conn
      /\ task[t].at = "register" => task[t].read.there /\ (task[t].read.tagged => task[t].read.sound)
  BY <1>i DEF TaskTyped
<1>s. ASSUME UNCHANGED hub, NEW r \in Role, NEW c \in Conn, Approved(rolePathKey[r], c),
             hub'[rolePathKey[r]][c].status = "none"
      PROVE  FALSE
  BY <1>s DEF Approved
<1>m. ASSUME NEW x, TaskTyped(x), To(t, x), hub' \in [Key -> [Conn -> Grant]], UNCHANGED roleNote, hooks' \subseteq Role
      PROVE  ReconcileInv'
  BY <1>i, <1>m, TaskMoves DEF ReconcileInv
<1> PICK r : r = task[t].role
  OBVIOUS
<1>1. CASE Hooked(t)
  <2>1. PICK s \in hooks : hooks' = hooks \ {s} /\ To(t, [Idle EXCEPT !.at = "fetch", !.role = s])
    BY <1>1 DEF Hooked
  <2>3. TaskTyped([Idle EXCEPT !.at = "fetch", !.role = s])
    BY <1>i, HookedTyped
  <2> QED  BY <1>i, <1>1, <1>m, <1>s, <2>1, <2>3 DEF Hooked
<1>2. CASE Fetched(t)
  <2>1. UNCHANGED <<hub, roleNote, hooks>> /\ task[t].at = "fetch" /\ r \in Role
    BY <1>2, <1>t DEF Fetched
  <2>2. PICK x : /\ To(t, x)
                 /\ \/ x \in {[task[t] EXCEPT !.at = "gone"], [task[t] EXCEPT !.at = "stamp"]}
                    \/ /\ roleNote[r].there /\ (roleNote[r].tagged => roleNote[r].sound)
                       /\ x = [task[t] EXCEPT !.at = "register", !.read = roleNote[r], !.todo = roleWants(r)]
    <3>1. CASE ~roleNote[r].there
      BY <1>2, <3>1 DEF Fetched
    <3>2. CASE roleNote[r].there /\ roleNote[r].tagged /\ ~roleNote[r].sound
      BY <1>2, <3>2 DEF Fetched
    <3>3. CASE roleNote[r].there /\ (roleNote[r].tagged => roleNote[r].sound)
      <4>1. roleNote[r] \in Content
        BY <1>i, <2>1
      <4>2. roleNote[r].there \in BOOLEAN /\ roleNote[r].tagged \in BOOLEAN /\ roleNote[r].sound \in BOOLEAN
        BY <4>1 DEF Content
      <4>3. To(t, [task[t] EXCEPT !.at = "register", !.read = roleNote[r], !.todo = roleWants(r)])
        BY <1>2, <3>3, <4>2 DEF Fetched
      <4> QED  BY <3>3, <4>3
    <3> QED  BY <3>1, <3>2, <3>3
  <2>3. TaskTyped(x)
    <3>1. CASE x \in {[task[t] EXCEPT !.at = "gone"], [task[t] EXCEPT !.at = "stamp"]}
      <4>1. \E a \in {"gone", "stamp"} : x = [at |-> a, role |-> r, read |-> task[t].read, todo |-> task[t].todo]
        BY <1>t, <3>1
      <4> QED  BY <1>t, <2>1, <4>1, TaskMade DEF TaskStage
    <3>2. CASE /\ roleNote[r].there /\ (roleNote[r].tagged => roleNote[r].sound)
               /\ x = [task[t] EXCEPT !.at = "register", !.read = roleNote[r], !.todo = roleWants(r)]
      <4> PICK n, W : n = roleNote[r] /\ W = roleWants(r)
        OBVIOUS
      <4>1. x = [at |-> "register", role |-> r, read |-> n, todo |-> W]
        BY <1>t, <3>2
      <4>2. W \in SUBSET Conn
        BY <1>i, <2>1 DEF roleWants, WantsOf, Content
      <4>3. n.there /\ (n.tagged => n.sound) /\ "register" \in TaskStage
        BY <3>2 DEF TaskStage
      <4> QED  BY <2>1, <4>1, <4>2, <4>3, TaskMade
    <3> QED  BY <2>2, <3>1, <3>2
  <2> QED  BY <1>i, <1>m, <1>s, <2>1, <2>2, <2>3
<1>3. CASE FetchFails(t)
  BY <1>i, <1>3, <1>m, <1>s, IdleTyped DEF FetchFails
<1>4. CASE Stamped(t)
  <2>1. task[t].role \in Role
    BY <1>t, <1>4 DEF Stamped
  <2> QED  BY <1>i, <1>4, <1>m, <1>s, <2>1, IdleTyped DEF Stamped
<1>5. CASE Register(t)
  <2>1. task[t].at = "register" /\ r \in Role /\ UNCHANGED <<roleNote, hooks>>
    BY <1>t, <1>5 DEF Register
  <2>2. PICK c \in task[t].todo : To(t, [task[t] EXCEPT !.todo = @ \ {c}]) /\ hub' \in {hub, Put(rolePathKey[r], c)}
    BY <1>5 DEF Register
  <2>3. c \in Conn /\ rolePathKey[r] \in Key
    BY <1>t, <1>k, <2>1
  <2>4. /\ hub' \in [Key -> [Conn -> Grant]]
        /\ \A l \in Key, d \in Conn : hub'[l][d].status = "none" => hub[l][d].status = "none"
    BY <1>i, <2>2, <2>3, PutTyped
  <2>5. [task[t] EXCEPT !.todo = @ \ {c}] = [at |-> "register", role |-> r, read |-> task[t].read, todo |-> task[t].todo \ {c}]
    BY <1>t, <2>1
  <2>6. TaskTyped([at |-> "register", role |-> r, read |-> task[t].read, todo |-> task[t].todo \ {c}])
    <3>1. task[t].todo \ {c} \in SUBSET Conn /\ "register" \in TaskStage
      BY <1>t DEF TaskStage
    <3> QED  BY <1>t, <2>1, <3>1, TaskMade
  <2>7. ReconcileInv'
    BY <1>i, <1>m, <2>1, <2>2, <2>4, <2>5, <2>6
  <2> QED  BY <1>k, <2>4, <2>7 DEF Approved
<1>6. CASE ReconciledByRead(t)
  <2>1. /\ task[t].at = "register" /\ r \in Role /\ UNCHANGED <<roleNote, hooks>> /\ To(t, Idle)
        /\ hub' \in {hub, Kept(rolePathKey[r], WantsOf(task[t].read))}
    BY <1>t, <1>6 DEF ReconciledByRead
  <2>2. /\ hub' \in [Key -> [Conn -> Grant]]
        /\ \A l \in Key, d \in Conn : l # rolePathKey[r] \/ d \in WantsOf(task[t].read) => hub'[l][d] = hub[l][d]
    BY <1>i, <2>1, KeptTyped
  <2>3. ReconcileInv'
    BY <1>i, <1>m, <2>1, <2>2, IdleTyped
  <2>4. ASSUME NEW s \in Role, NEW c \in Conn, Approved(rolePathKey[s], c), hub'[rolePathKey[s]][c].status = "none"
        PROVE  Unwanted(s, c) \/ Overtaken(s)
    <3>1. rolePathKey[s] = rolePathKey[r] /\ c \notin WantsOf(task[t].read)
      BY <1>k, <2>2, <2>4 DEF Approved
    <3>2. s = r
      BY <2>1, <3>1 DEF KeysDistinct
    <3>3. CASE task[t].read # roleNote[s]
      BY <2>1, <3>2, <3>3 DEF Overtaken
    <3>4. CASE task[t].read = roleNote[s]
      BY <1>t, <2>1, <3>1, <3>2, <3>4 DEF Unwanted, roleWants
    <3> QED  BY <3>3, <3>4
  <2> QED  BY <2>3, <2>4
<1>7. CASE PrunedById(t)
  <2>1. /\ task[t].at = "gone" /\ r \in Role /\ UNCHANGED <<roleNote, hooks>> /\ To(t, Idle)
        /\ hub' \in {hub, Kept(idKey[r], {})}
    BY <1>t, <1>7 DEF PrunedById
  <2>2. /\ hub' \in [Key -> [Conn -> Grant]]
        /\ \A l \in Key, d \in Conn : l # idKey[r] => hub'[l][d] = hub[l][d]
    BY <1>i, <2>1, KeptTyped
  <2>3. ReconcileInv'
    BY <1>i, <1>m, <2>1, <2>2, IdleTyped
  <2> QED  BY <1>k, <2>1, <2>2, <2>3 DEF KeysDistinct, Approved
<1> QED
  BY <1>1, <1>2, <1>3, <1>4, <1>5, <1>6, <1>7 DEF Reconcile

LEMMA ReconcileStep ==
  ASSUME KeysDistinct, ReconcileInv, [LaunchNext]_launchVars
  PROVE  /\ ReconcileInv'
         /\ \A r \in Role, c \in Conn :
              Approved(rolePathKey[r], c) /\ hub'[rolePathKey[r]][c].status = "none"
                => Unwanted(r, c) \/ Overtaken(r)
<1>k. \A r \in Role : rolePathKey[r] \in Key
  BY DEF Key
<1>1. CASE Around
  BY <1>1, <1>k, OperateKeeps, ReconcileKeeps DEF Around, GrantsNext
<1>2. CASE UNCHANGED <<hub, roleNote, hooks, task>>
  BY <1>2 DEF ReconcileInv, Approved
<1>3. LaunchStep \/ Configure \/ UNCHANGED launchVars => UNCHANGED <<hub, roleNote, hooks, task>>
  BY DEF LaunchStep, Configure, launchVars, grantVars, BeginLaunch, ReadRole, RoleReadFails, ThreadReadFails, Resolve, Mint,
         ListGrants, ListFails, GetMaterial, MaterialFails, NextSource, Spawn, Finish, Unmoved
<1> QED  BY <1>1, <1>2, <1>3 DEF LaunchNext

(* Theorem: where distinct roles have distinct keys, a save, a failing call *)
(* or a malformed edit takes no grant away: an approved grant of a role is *)
(* revoked by the operator, or pruned by a task that has read that the role*)
(* does not want it (reconcileRole).                                       *)
THEOREM OnlyTheUnwantedIsPruned ==
  ASSUME KeysDistinct
  PROVE  LaunchSpec => RoleGrantsStay
<1>1. LaunchInit => ReconcileInv
  <2> SUFFICES ASSUME LaunchInit PROVE ReconcileInv
    OBVIOUS
  <2>1. hub \in [Key -> [Conn -> Grant]] /\ roleNote \in [Role -> Content] /\ hooks \subseteq Role
    BY LaunchAssumption, GrantsAssumption DEF LaunchInit
  <2>2. DOMAIN task = Task /\ \A t \in Task : TaskTyped(task[t])
    BY IdleTyped DEF LaunchInit
  <2> QED  BY <2>1, <2>2 DEF ReconcileInv
<1>2. ReconcileInv /\ [LaunchNext]_launchVars => ReconcileInv'
  BY ReconcileStep
<1>3. ReconcileInv /\ [LaunchNext]_launchVars =>
        [\A r \in Role, c \in Conn :
           Approved(rolePathKey[r], c) /\ hub'[rolePathKey[r]][c].status = "none"
             => Unwanted(r, c) \/ Overtaken(r)]_launchVars
  BY ReconcileStep
<1> QED  BY <1>1, <1>2, <1>3, PTL DEF LaunchSpec, RoleGrantsStay

-----------------------------------------------------------------------------
(* Launch: what is granted throughout arrives.                             *)

SourceRole(r, s) == r \in s.worn \cap Range(Roles) /\ <<"role", r>> \notin s.missed
SourceKey(k, s) == k = Own \/ \E r \in Role : SourceRole(r, s) /\ k = rolePathKey[r]
Wanted(tok, k, s) ==
  /\ tok \in s.steady /\ tok.key = k
  /\ {<<"key", k>>, <<"grant", k, tok.conn>>} \cap s.missed = {}

\* Of the roles so far, each that is a source has given its key, in order.
ReadTo(n, L, K, s) ==
  /\ n + Len(L) = Len(Roles) /\ \A i \in 1 .. Len(L) : L[i] = Roles[n + i]
  /\ \A i \in 1 .. n : SourceRole(Roles[i], s) => rolePathKey[Roles[i]] \in {Own} \cup Range(K)
  /\ \A j \in DOMAIN K : K[j] # Own /\ \E p \in 1 .. n : K[j] = rolePathKey[Roles[p]]
Reading(l, s) == l.got = Empty /\ \E n \in Nat : ReadTo(n, l.roles, l.keys, s)

InOrder(K, s) == \A i, j \in DOMAIN K : i < j /\ SourceKey(K[j], s) => Before(K[i], K[j])

Collected(slots, k, s) ==
  \A tok : Wanted(tok, k, s) => \A x \in Slots(k, tok.conn) : x \in DOMAIN slots /\ Before(slots[x].key, k)

\* Each source is still to be asked or has given what is wanted of it, and what
\* was collected is of sources before those to be asked.
Collecting(l, s) ==
  /\ \A k : SourceKey(k, s) => k \in Range(l.keys) \/ Collected(l.got.slots, k, s)
  /\ \A x \in DOMAIN l.got.slots, j \in DOMAIN l.keys :
       SourceKey(l.keys[j], s) => Before(l.got.slots[x].key, l.keys[j])

\* The source that is being asked gives its own grants.
Asking(l, s) ==
  LET k == Head(l.keys) IN
  /\ \A x \in DOMAIN l.source.slots : l.source.slots[x].key = k
  /\ \A tok : Wanted(tok, k, s) => tok.conn \in l.todo \/ Slots(k, tok.conn) \subseteq DOMAIN l.source.slots

ArrivalInv ==
  /\ LaunchTypeOK
  /\ launch.at # "idle" => seen.steady \subseteq LiveTokens /\ \A r \in seen.worn : Wears(r)
  /\ InOrder(launch.keys, seen)
  /\ launch.at = "roles" => Reading(launch, seen)
  /\ launch.at \in {"mint", "sources", "material"} => Collecting(launch, seen)
  /\ launch.at = "material" => Asking(launch, seen)
  /\ GrantedArrives

\* Distinct roles of the thread have distinct keys.
RolesDistinct == \A r, s \in Range(Roles) : rolePathKey[r] = rolePathKey[s] => r = s

LEMMA OrderIs ==
  /\ DOMAIN Order = 1 .. Len(Roles) + 1 /\ Order[1] = Own
  /\ \A i \in 1 .. Len(Roles) : Order[i + 1] = rolePathKey[Roles[i]]
<1> DEFINE R == [i \in DOMAIN Roles |-> rolePathKey[Roles[i]]]
<1>1. Roles \in Seq(Role) /\ rolePathKey \in [Role -> STRING] /\ Own \in STRING
  BY LaunchAssumption, GrantsAssumption
<1>2. R \in [1 .. Len(Roles) -> STRING]
  BY <1>1
<1>3. R \in Seq(STRING) /\ Len(R) = Len(Roles) /\ \A i \in 1 .. Len(Roles) : R[i] = rolePathKey[Roles[i]]
  BY <1>1, <1>2
<1> HIDE DEF R
<1>4. Order = <<Own>> \o R
  BY DEF Order, R
<1> QED  BY <1>1, <1>3, <1>4

LEMMA OwnFirst == ASSUME NEW l PROVE Before(Own, l)
<1>1. CASE l = Own
  BY <1>1 DEF Before
<1>2. CASE l # Own
  <2>1. 1 \in DOMAIN Order /\ \A j \in DOMAIN Order : Order[j] = l => 1 < j
    BY <1>2, OrderIs, LaunchAssumption
  <2> QED  BY <2>1, OrderIs DEF Before
<1> QED  BY <1>1, <1>2

LEMMA ReadFirst ==
  ASSUME NEW n \in Nat, NEW p \in 1 .. n, n <= Len(Roles), NEW l, l # Own,
         \A q \in 1 .. Len(Roles) : rolePathKey[Roles[q]] = l => q > n
  PROVE  Before(rolePathKey[Roles[p]], l)
<1>0. Len(Roles) \in Nat
  BY LaunchAssumption
<1>1. p + 1 \in DOMAIN Order /\ Order[p + 1] = rolePathKey[Roles[p]]
  BY <1>0, OrderIs
<1>2. ASSUME NEW j \in DOMAIN Order, Order[j] = l PROVE p + 1 < j
  <2>1. j # 1 /\ j \in 1 .. Len(Roles) + 1
    BY <1>2, OrderIs
  <2>2. j - 1 \in 1 .. Len(Roles) /\ (j - 1) + 1 = j
    BY <1>0, <2>1
  <2>3. Order[(j - 1) + 1] = rolePathKey[Roles[j - 1]]
    BY <2>2, OrderIs
  <2> QED  BY <1>0, <1>2, <2>2, <2>3
<1> QED  BY <1>1, <1>2 DEF Before

LEMMA Least ==
  ASSUME NEW S \in SUBSET Nat, S # {}
  PROVE  \E i \in S : \A j \in S : i <= j
<1> SUFFICES ASSUME ~\E i \in S : \A j \in S : i <= j PROVE FALSE
  OBVIOUS
<1> DEFINE T == {n \in Nat : \A j \in S : n <= j}
<1>1. 0 \in T
  OBVIOUS
<1>2. ASSUME NEW n \in Nat, n \in T PROVE n + 1 \in T
  <2>1. n \notin S
    BY <1>2
  <2> QED  BY <1>2, <2>1
<1>3. Nat \subseteq T
  <2> HIDE DEF T
  <2> QED  BY <1>1, <1>2, AllNumbers
<1>4. PICK j : j \in S
  OBVIOUS
<1>5. j + 1 \in T
  BY <1>3, <1>4
<1> QED  BY <1>4, <1>5

\* As the turn goes on there are fewer sources, and less is wanted of them.
LEMMA FewerWanted ==
  ASSUME NEW s, NEW u, u.steady \subseteq s.steady, u.worn \subseteq s.worn, s.missed \subseteq u.missed
  PROVE  /\ \A r : SourceRole(r, u) => SourceRole(r, s)
         /\ \A k : SourceKey(k, u) => SourceKey(k, s)
         /\ \A tok, k : Wanted(tok, k, u) => Wanted(tok, k, s)
         /\ \A l : Reading(l, s) => Reading(l, u)
         /\ \A K : InOrder(K, s) => InOrder(K, u)
         /\ \A slots, k : Collected(slots, k, s) => Collected(slots, k, u)
         /\ \A l : Collecting(l, s) => Collecting(l, u)
         /\ \A l : Asking(l, s) => Asking(l, u)
<1>1. \A r : SourceRole(r, u) => SourceRole(r, s)
  BY DEF SourceRole
<1>2. \A k : SourceKey(k, u) => SourceKey(k, s)
  BY <1>1 DEF SourceKey
<1>3. \A tok, k : Wanted(tok, k, u) => Wanted(tok, k, s)
  BY DEF Wanted
<1>4. \A l : Reading(l, s) => Reading(l, u)
  <2>1. \A n, L, K : ReadTo(n, L, K, s) => ReadTo(n, L, K, u)
    BY <1>1 DEF ReadTo
  <2> HIDE DEF Empty
  <2> QED  BY <2>1 DEF Reading
<1>5. \A K : InOrder(K, s) => InOrder(K, u)
  BY <1>2 DEF InOrder
<1>6. \A slots, k : Collected(slots, k, s) => Collected(slots, k, u)
  BY <1>3 DEF Collected
<1>7. \A l : Collecting(l, s) => Collecting(l, u)
  BY <1>2, <1>6 DEF Collecting
<1>8. \A l : Asking(l, s) => Asking(l, u)
  BY <1>3 DEF Asking
<1> QED  BY <1>1, <1>2, <1>3, <1>4, <1>5, <1>6, <1>7, <1>8

LEMMA SourcesAre == \A k : k \in Sources <=> SourceKey(k, seen)
<1>1. Range(Roles) \subseteq Role
  BY LaunchAssumption DEF Range
<1> QED  BY <1>1 DEF Sources, SourceKey, SourceRole

\* A token that is live is of an approved grant.
LEMMA LiveIsApproved ==
  ASSUME NEW tok \in LiveTokens
  PROVE  tok.conn \in Conn /\ Approved(tok.key, tok.conn)
BY DEF LiveTokens, Token

\* Where the turn is, and what of it is typed.
LEMMA TurnParts ==
  ASSUME TurnTyped(launch)
  PROVE  /\ launch.roles \in Seq(Role) /\ launch.keys \in Seq(STRING) /\ launch.todo \subseteq Conn
         /\ DOMAIN launch.keys = 1 .. Len(launch.keys) /\ DOMAIN launch.roles = 1 .. Len(launch.roles)
         /\ Len(launch.keys) \in Nat /\ Len(launch.roles) \in Nat
         /\ launch.at = "material" => launch.keys # <<>>
         /\ launch.env \in [Var -> Values \cup {Unset}]
         /\ Roles \in Seq(Role) /\ Len(Roles) \in Nat /\ DOMAIN Roles = 1 .. Len(Roles)
BY LaunchAssumption DEF TurnTyped

LEMMA FieldsOf ==
  ASSUME NEW a, NEW R, NEW K, NEW au, NEW e, NEW T, NEW s, NEW g, NEW l, l = TurnAt(a, R, K, au, e, T, s, g)
  PROVE  /\ l.at = a /\ l.roles = R /\ l.keys = K /\ l.auth = au /\ l.env = e /\ l.todo = T
         /\ l.source = s /\ l.got = g
BY DEF TurnAt

\* A list without its first, and a list and one more.
LEMMA OneLess ==
  ASSUME NEW S, NEW L \in Seq(S), L # <<>>
  PROVE  /\ Len(L) \in Nat /\ Len(L) > 0 /\ Head(L) = L[1] /\ Head(L) \in S
         /\ Tail(L) \in Seq(S) /\ Len(Tail(L)) = Len(L) - 1
         /\ \A i \in 1 .. Len(L) - 1 : Tail(L)[i] = L[i + 1]
OBVIOUS

LEMMA OneMore ==
  ASSUME NEW S, NEW K \in Seq(S), NEW k \in S, NEW J, J = Append(K, k)
  PROVE  /\ DOMAIN J = 1 .. Len(K) + 1 /\ Len(K) \in Nat /\ DOMAIN K = 1 .. Len(K)
         /\ J[Len(K) + 1] = k /\ \A i \in 1 .. Len(K) : J[i] = K[i]
         /\ Range(K) \subseteq Range(J) /\ k \in Range(J)
<1>1. /\ Len(K) \in Nat /\ DOMAIN K = 1 .. Len(K) /\ DOMAIN J = 1 .. Len(K) + 1
      /\ J[Len(K) + 1] = k /\ \A i \in 1 .. Len(K) : J[i] = K[i]
  OBVIOUS
<1>2. (\A i \in 1 .. Len(K) : i \in 1 .. Len(K) + 1) /\ Len(K) + 1 \in 1 .. Len(K) + 1
  BY <1>1
<1> QED  BY <1>1, <1>2 DEF Range

\* The first of the roles that are left has been passed.
LEMMA Passed ==
  ASSUME NEW n \in Nat, NEW L \in Seq(Role), L # <<>>, NEW K, NEW J, NEW s, NEW u, ReadTo(n, L, K, s),
         u.worn \subseteq s.worn, s.missed \subseteq u.missed, Range(K) \subseteq Range(J),
         SourceRole(Head(L), u) => rolePathKey[Head(L)] \in {Own} \cup Range(J),
         \A j \in DOMAIN J : J[j] # Own /\ \E p \in 1 .. n + 1 : J[j] = rolePathKey[Roles[p]]
  PROVE  ReadTo(n + 1, Tail(L), J, u)
<1>t. /\ Len(L) \in Nat /\ Len(L) > 0 /\ Head(L) = L[1] /\ Len(Tail(L)) = Len(L) - 1
      /\ \A i \in 1 .. Len(L) - 1 : Tail(L)[i] = L[i + 1]
  BY OneLess
<1>s. n + Len(L) = Len(Roles) /\ \A i \in 1 .. Len(L) : L[i] = Roles[n + i]
  BY DEF ReadTo
<1>r. \A i \in 1 .. n : SourceRole(Roles[i], s) => rolePathKey[Roles[i]] \in {Own} \cup Range(K)
  BY DEF ReadTo
<1>1. n + 1 + Len(Tail(L)) = Len(Roles)
  BY <1>t, <1>s
<1>2. ASSUME NEW i \in 1 .. Len(Tail(L)) PROVE Tail(L)[i] = Roles[n + 1 + i]
  <2>1. i \in 1 .. Len(L) - 1 /\ i + 1 \in 1 .. Len(L) /\ n + 1 + i = n + (i + 1)
    BY <1>t
  <2> QED  BY <1>t, <1>s, <2>1
<1>3. ASSUME NEW i \in 1 .. n + 1, SourceRole(Roles[i], u) PROVE rolePathKey[Roles[i]] \in {Own} \cup Range(J)
  <2>1. CASE i = n + 1
    <3>1. 1 \in 1 .. Len(L)
      BY <1>t
    <3>2. Head(L) = Roles[i]
      BY <1>t, <1>s, <2>1, <3>1
    <3> QED  BY <1>3, <3>2
  <2>2. CASE i \in 1 .. n
    <3>1. SourceRole(Roles[i], s)
      BY <1>3 DEF SourceRole
    <3> QED  BY <1>r, <2>2, <3>1
  <2> QED  BY <2>1, <2>2
<1> QED  BY <1>1, <1>2, <1>3 DEF ReadTo

\* The key of a role that is read goes behind those that are there.
LEMMA LastInOrder ==
  ASSUME RolesDistinct, NEW S, NEW K \in Seq(S), NEW k \in S, NEW s, NEW n \in Nat, NEW L, L \in Seq(Role), L # <<>>,
         ReadTo(n, L, K, s), InOrder(K, s), k = rolePathKey[Head(L)], k \notin {Own} \cup Range(K)
  PROVE  InOrder(Append(K, k), s)
<1> PICK J, r : J = Append(K, k) /\ r = Head(L)
  OBVIOUS
<1> SUFFICES ASSUME NEW i \in DOMAIN J, NEW j \in DOMAIN J, i < j, SourceKey(J[j], s)
             PROVE  Before(J[i], J[j])
  BY DEF InOrder
<1>1. /\ DOMAIN J = 1 .. Len(K) + 1 /\ Len(K) \in Nat /\ DOMAIN K = 1 .. Len(K)
      /\ J[Len(K) + 1] = k /\ \A q \in 1 .. Len(K) : J[q] = K[q]
  BY OneMore
<1>2. i \in DOMAIN K /\ J[i] = K[i]
  BY <1>1
<1>3. CASE j \in 1 .. Len(K)
  BY <1>1, <1>2, <1>3 DEF InOrder
<1>4. CASE j = Len(K) + 1
  <2>1. J[j] = k /\ k # Own
    BY <1>1, <1>4
  <2>2. Roles \in Seq(Role) /\ Len(Roles) \in Nat /\ DOMAIN Roles = 1 .. Len(Roles)
    BY LaunchAssumption
  <2>3. r = Roles[n + 1] /\ n + 1 \in 1 .. Len(Roles)
    <3>1. Len(L) \in Nat /\ Len(L) > 0 /\ r = L[1]
      BY OneLess
    <3>2. n + Len(L) = Len(Roles) /\ \A q \in 1 .. Len(L) : L[q] = Roles[n + q]
      BY DEF ReadTo
    <3>3. 1 \in 1 .. Len(L) /\ n + 1 \in 1 .. Len(Roles)
      BY <2>2, <3>1, <3>2
    <3> QED  BY <3>1, <3>2, <3>3
  <2>4. r \in Range(Roles)
    BY <2>2, <2>3 DEF Range
  <2>5. PICK q \in Role : SourceRole(q, s) /\ k = rolePathKey[q]
    BY <2>1 DEF SourceKey
  <2>6. q = r /\ SourceRole(r, s)
    BY <2>4, <2>5 DEF RolesDistinct, SourceRole
  <2>7. ASSUME NEW p \in 1 .. Len(Roles), rolePathKey[Roles[p]] = k PROVE p > n
    <3> SUFFICES ASSUME ~(p > n) PROVE FALSE
      OBVIOUS
    <3>1. Roles[p] \in Range(Roles)
      BY <2>2 DEF Range
    <3>2. Roles[p] = r
      BY <2>4, <2>7, <3>1 DEF RolesDistinct
    <3>3. p \in 1 .. n
      BY <2>2
    <3> QED  BY <2>6, <2>7, <3>2, <3>3 DEF ReadTo
  <2>8. PICK p \in 1 .. n : K[i] = rolePathKey[Roles[p]]
    BY <1>2 DEF ReadTo
  <2>9. n <= Len(Roles)
    BY <2>2, <2>3
  <2> QED  BY <1>2, <2>1, <2>7, <2>8, <2>9, ReadFirst
<1> QED  BY <1>1, <1>3, <1>4

\* The key of a role that is read is passed with it.
LEMMA RoleAsked ==
  ASSUME NEW S, NEW K \in Seq(S), NEW k \in S, NEW s, NEW n \in Nat, NEW L \in Seq(Role), L # <<>>,
         ReadTo(n, L, K, s), k = rolePathKey[Head(L)], k # Own
  PROVE  ReadTo(n + 1, Tail(L), Append(K, k), s)
<1> PICK J, r : J = Append(K, k) /\ r = Head(L)
  OBVIOUS
<1>0. /\ DOMAIN J = 1 .. Len(K) + 1 /\ Len(K) \in Nat /\ DOMAIN K = 1 .. Len(K)
      /\ J[Len(K) + 1] = k /\ \A i \in 1 .. Len(K) : J[i] = K[i]
  OBVIOUS
<1>1. Range(K) \subseteq Range(J) /\ k \in Range(J)
  <2>1. (\A i \in 1 .. Len(K) : i \in 1 .. Len(K) + 1) /\ Len(K) + 1 \in 1 .. Len(K) + 1
    BY <1>0
  <2> QED  BY <1>0, <2>1 DEF Range
<1>2. k = rolePathKey[Roles[n + 1]]
  <2>1. Len(L) \in Nat /\ Len(L) > 0 /\ r = L[1]
    BY OneLess
  <2>2. L[1] = Roles[n + 1]
    BY <2>1 DEF ReadTo
  <2> QED  BY <2>1, <2>2
<1>3. (\A p \in 1 .. n : p \in 1 .. n + 1) /\ n + 1 \in 1 .. n + 1
  OBVIOUS
<1>4. ASSUME NEW j \in DOMAIN J
      PROVE  J[j] # Own /\ \E p \in 1 .. n + 1 : J[j] = rolePathKey[Roles[p]]
  <2>1. CASE j \in 1 .. Len(K)
    BY <1>0, <1>3, <2>1 DEF ReadTo
  <2>2. CASE j = Len(K) + 1
    BY <1>0, <1>2, <1>3, <2>2
  <2> QED  BY <1>0, <2>1, <2>2
<1>5. Range(K) \subseteq Range(J) /\ rolePathKey[Head(L)] \in {Own} \cup Range(J)
  BY <1>1
<1>6. ReadTo(n + 1, Tail(L), J, s)
  BY <1>4, <1>5, Passed
<1> QED  BY <1>6

\* The key of a role that is not asked for is none of a source, or is there.
LEMMA RoleUnasked ==
  ASSUME NEW K, NEW s, NEW u, NEW n \in Nat, NEW L \in Seq(Role), L # <<>>, ReadTo(n, L, K, s),
         u.worn \subseteq s.worn, s.missed \subseteq u.missed,
         SourceRole(Head(L), u) => rolePathKey[Head(L)] \in {Own} \cup Range(K)
  PROVE  ReadTo(n + 1, Tail(L), K, u)
<1>1. \A p \in 1 .. n : p \in 1 .. n + 1
  OBVIOUS
<1>2. \A j \in DOMAIN K : K[j] # Own /\ \E p \in 1 .. n + 1 : K[j] = rolePathKey[Roles[p]]
  BY <1>1 DEF ReadTo
<1> QED  BY <1>2, Passed

\* A role is read, or the read of it fails.
LEMMA RoleRead ==
  ASSUME RolesDistinct, TurnTyped(launch), launch.roles # <<>>, Reading(launch, seen), InOrder(launch.keys, seen),
         \A r \in seen.worn : Wears(r),
         NEW l, l.roles = Tail(launch.roles), l.keys = Asked(Head(launch.roles)), l.got = launch.got
  PROVE  Reading(l, seen) /\ InOrder(l.keys, seen)
<1> PICK L, K, r, k : L = launch.roles /\ K = launch.keys /\ r = Head(L) /\ k = rolePathKey[r]
  OBVIOUS
<1>p. L \in Seq(Role) /\ K \in Seq(STRING) /\ L # <<>>
  BY TurnParts
<1>k. r \in Role /\ k \in STRING
  BY <1>p, OneLess, GrantsAssumption
<1>n. PICK n \in Nat : ReadTo(n, L, K, seen)
  BY DEF Reading
<1>g. l.got = Empty /\ n + 1 \in Nat
  BY <1>n DEF Reading
<1>a. \/ l.keys = K /\ (SourceRole(r, seen) => k \in {Own} \cup Range(K))
      \/ l.keys = Append(K, k) /\ k \notin {Own} \cup Range(K)
  BY DEF Asked, IsSource, SourceRole
<1>1. CASE l.keys = K /\ (SourceRole(r, seen) => k \in {Own} \cup Range(K))
  <2>1. ReadTo(n + 1, Tail(L), K, seen)
    BY <1>p, <1>n, <1>1, RoleUnasked
  <2> HIDE DEF Empty
  <2> QED  BY <1>1, <1>g, <2>1 DEF Reading
<1>2. CASE l.keys = Append(K, k) /\ k \notin {Own} \cup Range(K)
  <2>1. ReadTo(n + 1, Tail(L), Append(K, k), seen)
    BY <1>p, <1>k, <1>n, <1>2, RoleAsked
  <2>2. InOrder(Append(K, k), seen)
    BY <1>p, <1>k, <1>n, <1>2, LastInOrder
  <2> HIDE DEF Empty
  <2> QED  BY <1>2, <1>g, <2>1, <2>2 DEF Reading
<1> QED  BY <1>a, <1>1, <1>2

LEMMA RoleSkipped ==
  ASSUME TurnTyped(launch), launch.roles # <<>>, Reading(launch, seen),
         NEW u, u.worn \subseteq seen.worn, seen.missed \subseteq u.missed, <<"role", Head(launch.roles)>> \in u.missed,
         NEW l, l.roles = Tail(launch.roles), l.keys = launch.keys, l.got = launch.got
  PROVE  Reading(l, u)
<1> PICK L, K : L = launch.roles /\ K = launch.keys
  OBVIOUS
<1>p. L \in Seq(Role)
  BY TurnParts
<1>n. PICK n \in Nat : ReadTo(n, L, K, seen)
  BY DEF Reading
<1>3. ~SourceRole(Head(L), u)
  BY DEF SourceRole
<1>4. ReadTo(n + 1, Tail(L), K, u)
  BY <1>p, <1>n, <1>3, RoleUnasked
<1>5. l.got = Empty /\ n + 1 \in Nat
  BY <1>n DEF Reading
<1> HIDE DEF Empty
<1> QED  BY <1>4, <1>5 DEF Reading

\* With all roles missed, no role is a source.
LEMMA NoRoleRead ==
  ASSUME NEW u, \A r \in Range(Roles) : <<"role", r>> \in u.missed,
         NEW l, l.roles = <<>>, l.keys = <<>>, l.got = Empty
  PROVE  Reading(l, u)
<1>1. Len(Roles) \in Nat /\ DOMAIN Roles = 1 .. Len(Roles)
  BY LaunchAssumption
<1>2. \A r : ~SourceRole(r, u)
  BY DEF SourceRole
<1>3. ReadTo(Len(Roles), <<>>, <<>>, u)
  BY <1>1, <1>2 DEF ReadTo
<1> HIDE DEF Empty
<1> QED  BY <1>1, <1>3 DEF Reading

\* At the start, no role has been read.
LEMMA AllRolesToRead ==
  ASSUME NEW u, NEW l, l.roles = Roles, l.keys = <<>>, l.got = Empty
  PROVE  Reading(l, u)
<1>1. Len(Roles) \in Nat /\ DOMAIN Roles = 1 .. Len(Roles)
  BY LaunchAssumption
<1>2. ReadTo(0, Roles, <<>>, u)
  BY <1>1 DEF ReadTo
<1> HIDE DEF Empty
<1> QED  BY <1>2 DEF Reading

LEMMA NoKeys == \A s : InOrder(<<>>, s)
BY DEF InOrder

\* The agent's own key goes before those of its roles.
LEMMA KeysWithOwn ==
  ASSUME NEW S, NEW K \in Seq(S), Own \in S, NEW J, J = <<Own>> \o K
  PROVE  /\ DOMAIN J = 1 .. Len(K) + 1 /\ Len(K) \in Nat /\ DOMAIN K = 1 .. Len(K)
         /\ J[1] = Own /\ (\A i \in 1 .. Len(K) : J[i + 1] = K[i])
         /\ {Own} \cup Range(K) \subseteq Range(J)
<1>1. /\ Len(K) \in Nat /\ DOMAIN K = 1 .. Len(K) /\ DOMAIN J = 1 .. Len(K) + 1
      /\ J[1] = Own /\ \A i \in 1 .. Len(K) : J[i + 1] = K[i]
  OBVIOUS
<1>2. 1 \in 1 .. Len(K) + 1 /\ \A i \in 1 .. Len(K) : i + 1 \in 1 .. Len(K) + 1
  BY <1>1
<1> QED  BY <1>1, <1>2 DEF Range

\* When all roles have been passed, the keys are those of the sources, in order.
LEMMA AllPassed ==
  ASSUME NEW S, NEW K \in Seq(S), Own \in S, NEW s, NEW n \in Nat, ReadTo(n, <<>>, K, s), InOrder(K, s)
  PROVE  /\ \A k : SourceKey(k, s) => k \in Range(<<Own>> \o K)
         /\ InOrder(<<Own>> \o K, s)
<1> PICK J : J = <<Own>> \o K
  OBVIOUS
<1>s. n = Len(Roles) /\ DOMAIN Roles = 1 .. n
  BY LaunchAssumption DEF ReadTo
<1>1. /\ DOMAIN J = 1 .. Len(K) + 1 /\ Len(K) \in Nat /\ DOMAIN K = 1 .. Len(K)
      /\ J[1] = Own /\ (\A i \in 1 .. Len(K) : J[i + 1] = K[i])
      /\ {Own} \cup Range(K) \subseteq Range(J)
  BY KeysWithOwn
<1>2. ASSUME NEW k, SourceKey(k, s) PROVE k \in Range(J)
  <2>1. CASE k = Own
    BY <1>1, <2>1
  <2>2. ASSUME NEW r \in Role, SourceRole(r, s), k = rolePathKey[r] PROVE k \in Range(J)
    <3>1. PICK i \in 1 .. n : Roles[i] = r
      BY <1>s, <2>2 DEF SourceRole, Range
    <3>2. k \in {Own} \cup Range(K)
      BY <2>2, <3>1 DEF ReadTo
    <3> QED  BY <1>1, <3>2
  <2> QED  BY <1>2, <2>1, <2>2 DEF SourceKey
<1>3. ASSUME NEW i \in DOMAIN J, NEW j \in DOMAIN J, i < j, SourceKey(J[j], s)
      PROVE  Before(J[i], J[j])
  <2>1. CASE i = 1
    BY <1>1, <2>1, OwnFirst
  <2>2. CASE i # 1
    <3>1. i - 1 \in DOMAIN K /\ j - 1 \in DOMAIN K /\ i - 1 < j - 1 /\ (i - 1) + 1 = i /\ (j - 1) + 1 = j
      BY <1>1, <1>3, <2>2
    <3>2. J[i] = K[i - 1] /\ J[j] = K[j - 1]
      BY <1>1, <3>1
    <3> QED  BY <1>3, <3>1, <3>2 DEF InOrder
  <2> QED  BY <2>1, <2>2
<1>4. InOrder(J, s)
  BY <1>3 DEF InOrder
<1> QED  BY <1>2, <1>4

LEMMA SourcesKnown ==
  ASSUME TurnTyped(launch), launch.roles = <<>>, Reading(launch, seen), InOrder(launch.keys, seen),
         NEW l, l.keys = <<Own>> \o launch.keys, l.got = launch.got
  PROVE  Collecting(l, seen) /\ InOrder(l.keys, seen)
<1>p. launch.keys \in Seq(STRING) /\ Own \in STRING
  BY TurnParts, GrantsAssumption
<1>n. PICK n \in Nat : ReadTo(n, <<>>, launch.keys, seen)
  BY DEF Reading
<1>1. (\A k : SourceKey(k, seen) => k \in Range(l.keys)) /\ InOrder(l.keys, seen)
  BY <1>p, <1>n, AllPassed
<1>2. DOMAIN l.got.slots = {}
  BY DEF Reading, Empty
<1> QED  BY <1>1, <1>2 DEF Collecting

\* The keys behind the first.
LEMMA KeysLeft ==
  ASSUME NEW S, NEW K \in Seq(S), K # <<>>
  PROVE  /\ 1 \in DOMAIN K /\ Head(K) = K[1]
         /\ \A i \in DOMAIN Tail(K) : i + 1 \in DOMAIN K /\ Tail(K)[i] = K[i + 1] /\ 1 < i + 1 /\ i \in Nat
         /\ \A k \in Range(K) : k = Head(K) \/ k \in Range(Tail(K))
<1>1. /\ Len(K) \in Nat /\ Len(K) > 0 /\ DOMAIN K = 1 .. Len(K) /\ Head(K) = K[1]
      /\ DOMAIN Tail(K) = 1 .. Len(K) - 1 /\ \A i \in 1 .. Len(K) - 1 : Tail(K)[i] = K[i + 1]
  OBVIOUS
<1>2. ASSUME NEW k \in Range(K) PROVE k = Head(K) \/ k \in Range(Tail(K))
  <2>1. PICK i \in 1 .. Len(K) : K[i] = k
    BY <1>1 DEF Range
  <2>2. CASE i = 1
    BY <1>1, <2>1, <2>2
  <2>3. CASE i # 1
    <3>1. i - 1 \in 1 .. Len(K) - 1 /\ (i - 1) + 1 = i
      BY <1>1, <2>3
    <3>2. Tail(K)[i - 1] = k
      BY <1>1, <2>1, <3>1
    <3> QED  BY <1>1, <3>1, <3>2 DEF Range
  <2> QED  BY <2>2, <2>3
<1>3. \A i \in 1 .. Len(K) - 1 : i + 1 \in 1 .. Len(K) /\ 1 < i + 1 /\ i \in Nat
  BY <1>1
<1>4. 1 \in 1 .. Len(K)
  BY <1>1
<1> QED  BY <1>1, <1>2, <1>3, <1>4

LEMMA LeftInOrder ==
  ASSUME NEW S, NEW K \in Seq(S), K # <<>>, NEW s, InOrder(K, s)
  PROVE  /\ InOrder(Tail(K), s)
         /\ \A j \in DOMAIN Tail(K) : SourceKey(Tail(K)[j], s) => Before(Head(K), Tail(K)[j])
<1>1. /\ 1 \in DOMAIN K /\ Head(K) = K[1]
      /\ \A i \in DOMAIN Tail(K) : i + 1 \in DOMAIN K /\ Tail(K)[i] = K[i + 1] /\ 1 < i + 1 /\ i \in Nat
  BY KeysLeft
<1>2. ASSUME NEW i \in DOMAIN Tail(K), NEW j \in DOMAIN Tail(K), i < j, SourceKey(Tail(K)[j], s)
      PROVE  Before(Tail(K)[i], Tail(K)[j])
  <2>1. i + 1 < j + 1
    BY <1>1, <1>2
  <2> QED  BY <1>1, <1>2, <2>1 DEF InOrder
<1>3. ASSUME NEW j \in DOMAIN Tail(K), SourceKey(Tail(K)[j], s)
      PROVE  Before(Head(K), Tail(K)[j])
  BY <1>1, <1>3 DEF InOrder
<1> QED  BY <1>2, <1>3 DEF InOrder

\* A source whose list fails gives nothing, and nothing is wanted of it.
LEMMA SourceSkipped ==
  ASSUME NEW S, NEW l, l.keys \in Seq(S), l.keys # <<>>, NEW s, Collecting(l, s), NEW u,
         u.steady \subseteq s.steady, u.worn \subseteq s.worn, s.missed \subseteq u.missed,
         <<"key", Head(l.keys)>> \in u.missed,
         NEW m, m.keys = Tail(l.keys), m.got = l.got
  PROVE  Collecting(m, u)
<1>0. Collecting(l, u) /\ ~\E tok : Wanted(tok, Head(l.keys), u)
  BY FewerWanted DEF Wanted
<1>1. ASSUME NEW k, SourceKey(k, u) PROVE k \in Range(m.keys) \/ Collected(m.got.slots, k, u)
  <2>1. k \in Range(l.keys) \/ Collected(l.got.slots, k, u)
    BY <1>0, <1>1 DEF Collecting
  <2>2. Collected(l.got.slots, Head(l.keys), u)
    BY <1>0 DEF Collected
  <2> QED  BY <2>1, <2>2, KeysLeft
<1>2. ASSUME NEW x \in DOMAIN m.got.slots, NEW j \in DOMAIN m.keys, SourceKey(m.keys[j], u)
      PROVE  Before(m.got.slots[x].key, m.keys[j])
  <2>1. j + 1 \in DOMAIN l.keys /\ m.keys[j] = l.keys[j + 1]
    BY KeysLeft
  <2> QED  BY <1>0, <1>2, <2>1 DEF Collecting
<1> QED  BY <1>1, <1>2 DEF Collecting

\* What a source has given is collected, where no earlier one has the slot.
LEMMA SourceTaken ==
  ASSUME NEW S, NEW l, l.keys \in Seq(S), l.keys # <<>>, NEW s, Collecting(l, s), Asking(l, s), l.todo = {},
         InOrder(l.keys, s),
         NEW m, m.keys = Tail(l.keys), m.got = Union(l.got, l.source)
  PROVE  Collecting(m, s)
<1> PICK k, f, g, h : k = Head(l.keys) /\ f = l.got.slots /\ g = l.source.slots /\ h = Over(f, g)
  OBVIOUS
<1>h. /\ m.got.slots = h /\ DOMAIN h = DOMAIN f \cup DOMAIN g
      /\ \A x \in DOMAIN h : h[x] = IF x \in DOMAIN f THEN f[x] ELSE g[x]
  BY DEF Union, Over
<1>g. (\A x \in DOMAIN g : g[x].key = k) /\ \A tok : Wanted(tok, k, s) => Slots(k, tok.conn) \subseteq DOMAIN g
  BY DEF Asking
<1>k. 1 \in DOMAIN l.keys /\ k = l.keys[1]
  BY KeysLeft
<1>1. ASSUME NEW q, Collected(f, q, s) PROVE Collected(h, q, s)
  BY <1>h, <1>1 DEF Collected
<1>2. ASSUME SourceKey(k, s) PROVE Collected(h, k, s)
  <2> SUFFICES ASSUME NEW tok, Wanted(tok, k, s), NEW x \in Slots(k, tok.conn)
               PROVE  x \in DOMAIN h /\ Before(h[x].key, k)
    BY DEF Collected
  <2>1. x \in DOMAIN g
    BY <1>g
  <2>2. CASE x \in DOMAIN f
    BY <1>2, <1>h, <1>k, <2>2 DEF Collecting
  <2>3. CASE x \notin DOMAIN f
    <3>1. h[x].key = k
      BY <1>h, <1>g, <2>1, <2>3
    <3> QED  BY <1>h, <2>1, <3>1 DEF Before
  <2> QED  BY <2>2, <2>3
<1>3. ASSUME NEW q, SourceKey(q, s) PROVE q \in Range(m.keys) \/ Collected(h, q, s)
  <2>1. q \in Range(l.keys) \/ Collected(f, q, s)
    BY <1>3 DEF Collecting
  <2> QED  BY <1>1, <1>2, <1>3, <2>1, KeysLeft
<1>4. ASSUME NEW x \in DOMAIN h, NEW j \in DOMAIN m.keys, SourceKey(m.keys[j], s)
      PROVE  Before(h[x].key, m.keys[j])
  <2>1. CASE x \in DOMAIN f
    <3>1. j + 1 \in DOMAIN l.keys /\ m.keys[j] = l.keys[j + 1]
      BY KeysLeft
    <3> QED  BY <1>h, <1>4, <2>1, <3>1 DEF Collecting
  <2>2. CASE x \notin DOMAIN f
    <3>1. h[x].key = k
      BY <1>h, <1>g, <1>4, <2>2
    <3> QED  BY <1>4, <3>1, LeftInOrder
  <2> QED  BY <2>1, <2>2
<1> QED  BY <1>h, <1>3, <1>4 DEF Collecting

\* A source's grants are listed, and one is fetched or fails.
LEMMA SourceListed ==
  ASSUME seen.steady \subseteq LiveTokens, NEW l, l.source = Empty,
         l.todo = {c \in Conn : Approved(Head(l.keys), c)}
  PROVE  Asking(l, seen)
<1>1. DOMAIN l.source.slots = {}
  BY DEF Empty
<1>2. ASSUME NEW tok, Wanted(tok, Head(l.keys), seen) PROVE tok.conn \in l.todo
  BY <1>2, LiveIsApproved DEF Wanted
<1> QED  BY <1>1, <1>2 DEF Asking

LEMMA GrantFetched ==
  ASSUME seen.steady \subseteq LiveTokens, Asking(launch, seen), NEW c, NEW l, l.keys = launch.keys,
         l.todo = launch.todo \ {c}, l.source = Fetch(Head(launch.keys), c)
  PROVE  Asking(l, seen)
<1> PICK k, f : k = Head(launch.keys) /\ f = launch.source.slots
  OBVIOUS
<1>a. (\A x \in DOMAIN f : f[x].key = k)
      /\ \A tok : Wanted(tok, k, seen) => tok.conn \in launch.todo \/ Slots(k, tok.conn) \subseteq DOMAIN f
  BY DEF Asking
<1>1. CASE Approved(k, c)
  <2> PICK t, X : t = Token(k, c) /\ X = Slots(k, c)
    OBVIOUS
  <2>1. t.key = k
    BY DEF Token
  <2>2. l.source.slots = AddedSlots(f, X, t)
    BY <1>1 DEF Fetch, Added
  <2>3. DOMAIN l.source.slots = DOMAIN f \cup X /\ \A x \in DOMAIN l.source.slots : l.source.slots[x] = t \/ (x \in DOMAIN f /\ l.source.slots[x] = f[x])
    BY <2>2 DEF AddedSlots
  <2>4. ASSUME NEW tok, Wanted(tok, k, seen)
        PROVE  tok.conn \in l.todo \/ Slots(k, tok.conn) \subseteq DOMAIN l.source.slots
    BY <1>a, <2>3, <2>4
  <2> QED  BY <1>a, <2>1, <2>3, <2>4 DEF Asking
<1>2. CASE ~Approved(k, c)
  <2>1. l.source = launch.source
    BY <1>2 DEF Fetch
  <2>2. ASSUME NEW tok, Wanted(tok, k, seen)
        PROVE  tok.conn \in l.todo \/ Slots(k, tok.conn) \subseteq DOMAIN f
    <3>1. tok.conn # c
      BY <1>2, <2>2, LiveIsApproved DEF Wanted
    <3> QED  BY <1>a, <2>2, <3>1
  <2> QED  BY <1>a, <2>1, <2>2 DEF Asking
<1> QED  BY <1>1, <1>2

LEMMA GrantSkipped ==
  ASSUME Asking(launch, seen), NEW c, NEW u,
         u.steady \subseteq seen.steady, u.worn \subseteq seen.worn, seen.missed \subseteq u.missed,
         <<"grant", Head(launch.keys), c>> \in u.missed,
         NEW l, l.keys = launch.keys, l.todo = launch.todo \ {c}, l.source = launch.source
  PROVE  Asking(l, u)
<1>1. Asking(launch, u)
  BY FewerWanted
<1>2. ASSUME NEW tok, Wanted(tok, Head(launch.keys), u) PROVE tok.conn # c
  BY <1>2 DEF Wanted
<1> QED  BY <1>1, <1>2 DEF Asking

\* Git is answered with a surface's own token, where no other remote's path
\* begins as its own.
AnswerWith(h, s) ==
  LET fits == {i \in DOMAIN h.remotes : h.remotes[i] \in Within[s] \/ Len(h.remotes) = 1}
      first == CHOOSE i \in fits : \A j \in fits : i <= j
  IN  h.slots[Slot("git", h.remotes[first])]

LEMMA OwnAnswer ==
  ASSUME NEW h, h.remotes \in Seq(Target), NEW s, Within[s] \cap Range(h.remotes) = {s}
  PROVE  AnswerWith(h, s) = h.slots[Slot("git", s)]
<1> PICK R : R = h.remotes
  OBVIOUS
<1> DEFINE fits == {i \in DOMAIN R : R[i] \in Within[s] \/ Len(R) = 1}
           first == CHOOSE i \in fits : \A j \in fits : i <= j
<1>1. R \in Seq(Target) /\ DOMAIN R = 1 .. Len(R) /\ Len(R) \in Nat
  OBVIOUS
<1>2. PICK p \in DOMAIN R : R[p] = s
  BY DEF Range
<1>3. \A i \in DOMAIN R : R[i] \in Within[s] => R[i] = s
  BY DEF Range
<1>4. Len(R) = 1 => \A i \in DOMAIN R : R[i] = s
  BY <1>1, <1>2
<1>5. fits \in SUBSET Nat /\ fits # {} /\ \A i \in fits : R[i] = s
  BY <1>1, <1>2, <1>3, <1>4
<1>6. first \in fits
  <2> HIDE DEF fits
  <2>1. \E i \in fits : \A j \in fits : i <= j
    BY <1>5, Least
  <2> QED  BY <2>1
<1>7. AnswerWith(h, s) = h.slots[Slot("git", R[first])]
  BY DEF AnswerWith
<1> QED  BY <1>5, <1>6, <1>7

\* Whatever is wanted of a source reaches claude.
LEMMA SpawnArrives ==
  ASSUME LaunchTypeOK, seen.steady \subseteq LiveTokens, Collecting(launch, seen), Spawn
  PROVE  GrantedArrives'
<1> PICK S, R, a, e : S = launch.got.slots /\ R = launch.got.remotes /\ a = launch.auth /\ e = launch.env
  OBVIOUS
<1>h. /\ held'.slots = S /\ held'.remotes = R
      /\ \A v \in Var : held'.env[v] = ChildEnv(a, e, S, v)
  BY DEF Spawn
<1>t. R \in Seq(Target) /\ e \in [Var -> Values \cup {Unset}] /\ launch.keys = <<>>
  BY DEF LaunchTypeOK, TurnTyped, Collection, Spawn
<1>u. seen' = seen
  BY DEF Spawn
<1>s. \A k : k \in Sources' <=> SourceKey(k, seen)
  <2>1. Sources' = Sources
    BY <1>u DEF Sources
  <2> QED  BY <2>1, SourcesAre
<1>c. \A k : SourceKey(k, seen) => Collected(S, k, seen)
  BY <1>t DEF Collecting, Range
<1>1. ASSUME NEW tok \in seen.steady, SourceKey(tok.key, seen),
             {<<"key", tok.key>>, <<"grant", tok.key, tok.conn>>} \cap seen.missed = {},
             NEW x \in Slots(tok.key, tok.conn)
      PROVE  Arrived(tok.key, x)'
  <2> PICK k, c : k = tok.key /\ c = tok.conn
    OBVIOUS
  <2>1. x \in DOMAIN S /\ Before(S[x].key, k)
    <3>1. Wanted(tok, k, seen)
      BY <1>1 DEF Wanted
    <3> QED  BY <1>1, <1>c, <3>1 DEF Collected
  <2>2. c \in Conn
    BY <1>1, LiveIsApproved
  <2>3. ASSUME x.kind = "env", x.name \notin PASSTHROUGH \cup DENYLISTED_ENV
        PROVE  held'.env[x.name] \in Values \cup {held'.slots[x]}
    <3> PICK v : v = x.name
      OBVIOUS
    <3>1. x = Slot("env", v) /\ v \in Var
      BY <1>1, <2>2, <2>3, LaunchAssumption, GrantsAssumption DEF Slots, Slot
    <3>2. v # AUTH
      BY <2>3, LaunchAssumption
    <3>3. ChildEnv(a, e, S, v) = IF e[v] # Unset THEN e[v] ELSE S[x]
      BY <2>1, <2>3, <3>1, <3>2 DEF ChildEnv
    <3>4. e[v] \in Values \cup {Unset}
      BY <1>t, <3>1
    <3> QED  BY <1>h, <3>1, <3>3, <3>4
  <2>4. ASSUME x.kind = "git", Within[x.name] \cap Range(held'.remotes) = {x.name}
        PROVE  Answer(x.name)' = held'.slots[x]
    <3>1. x = Slot("git", x.name)
      BY <1>1, <2>2, <2>4, GrantsAssumption DEF Slots, Slot
    <3>2. Answer(x.name)' = held'.slots[Slot("git", x.name)]
      <4>1. held'.remotes \in Seq(Target)
        BY <1>h, <1>t
      <4>2. Answer(x.name)' = AnswerWith(held', x.name)
        BY DEF Answer, AnswerWith
      <4> QED  BY <2>4, <4>1, <4>2, OwnAnswer
    <3> QED  BY <3>1, <3>2
  <2> QED  BY <1>h, <2>1, <2>3, <2>4 DEF Arrived
<1> QED  BY <1>s, <1>u, <1>1 DEF GrantedArrives

LEMMA ArrivalMoves ==
  ASSUME RolesDistinct, ArrivalInv, LaunchStep
  PROVE  ArrivalInv'
<1>t. LaunchTypeOK /\ TurnTyped(launch)
  BY DEF ArrivalInv, LaunchTypeOK
<1>u. LaunchTypeOK'
  BY <1>t, StepTyped DEF LaunchNext
<1>n. UNCHANGED <<hub, roleNote>>
  BY <1>t, TurnNotes
<1>l. LiveTokens' = LiveTokens /\ \A r : Wears(r)' <=> Wears(r)
  BY <1>n, NothingElseMoves
<1>i. /\ launch.at # "idle" => seen.steady \subseteq LiveTokens /\ \A r \in seen.worn : Wears(r)
      /\ InOrder(launch.keys, seen)
      /\ launch.at = "roles" => Reading(launch, seen)
      /\ launch.at \in {"mint", "sources", "material"} => Collecting(launch, seen)
      /\ launch.at = "material" => Asking(launch, seen)
  BY DEF ArrivalInv
<1>p. /\ launch.keys \in Seq(STRING)
      /\ launch.at = "material" => launch.keys # <<>>
  BY <1>t, TurnParts
<1>a. BeginLaunch \/ launch.at # "idle"
  BY DEF LaunchStep, ReadRole, RoleReadFails, ThreadReadFails, Resolve, Mint, ListGrants, ListFails, GetMaterial,
         MaterialFails, NextSource, Spawn, Finish
<1>b. \/ BeginLaunch
      \/ seen'.steady = seen.steady /\ seen'.worn = seen.worn /\ seen.missed \subseteq seen'.missed
  BY <1>t, TurnNotes
<1>s. /\ launch'.at # "idle" => seen'.steady \subseteq LiveTokens /\ \A r \in seen'.worn : Wears(r)
  <2>1. CASE BeginLaunch
    BY <2>1 DEF BeginLaunch, SeenAtFirst
  <2>2. CASE ~BeginLaunch
    BY <1>i, <1>a, <1>b, <2>2
  <2> QED  BY <2>1, <2>2
<1>e. ~Spawn => launch'.at # "running" /\ GrantedArrives'
  <2> SUFFICES ASSUME ~Spawn PROVE launch'.at # "running" /\ GrantedArrives'
    OBVIOUS
  <2>1. launch'.at # "running"
    BY <1>t, OnlySpawnRuns
  <2> QED  BY <1>t, <2>1, TurnNotes DEF GrantedArrives
<1> SUFFICES /\ InOrder(launch'.keys, seen')
             /\ launch'.at = "roles" => Reading(launch', seen')
             /\ launch'.at \in {"mint", "sources", "material"} => Collecting(launch', seen')
             /\ launch'.at = "material" => Asking(launch', seen')
             /\ GrantedArrives'
  BY <1>u, <1>l, <1>s DEF ArrivalInv
<1>r. ASSUME launch' = Resting
      PROVE  /\ InOrder(launch'.keys, seen')
             /\ launch'.at \notin {"roles", "mint", "sources", "material"}
  BY <1>r, NoKeys DEF Resting
<1>1. CASE BeginLaunch
  <2>1. launch'.at = "roles" /\ launch'.roles = Roles /\ launch'.keys = <<>> /\ launch'.got = Empty
    BY <1>1, <1>t, TurnSteps, FieldsOf
  <2>2. Reading(launch', seen')
    BY <2>1, AllRolesToRead
  <2>3. ~Spawn
    BY <1>1 DEF BeginLaunch, Spawn
  <2> QED  BY <1>e, <2>1, <2>2, <2>3, NoKeys
<1>2. CASE ReadRole
  <2>1. /\ launch'.at = "roles" /\ launch'.roles = Tail(launch.roles) /\ launch'.keys = Asked(Head(launch.roles))
        /\ launch'.got = launch.got
    BY <1>2, <1>t, TurnSteps, FieldsOf
  <2>2. launch.at = "roles" /\ launch.roles # <<>> /\ seen' = seen /\ ~Spawn
    BY <1>2 DEF ReadRole, Spawn
  <2>3. Reading(launch', seen) /\ InOrder(launch'.keys, seen)
    BY <1>t, <1>i, <2>1, <2>2, RoleRead
  <2> QED  BY <1>e, <2>1, <2>2, <2>3
<1>3. CASE RoleReadFails
  <2>1. /\ launch'.at = "roles" /\ launch'.roles = Tail(launch.roles) /\ launch'.keys = launch.keys
        /\ launch'.got = launch.got
    BY <1>3, <1>t, TurnSteps, FieldsOf
  <2>2. launch.at = "roles" /\ launch.roles # <<>> /\ Missed(<<"role", Head(launch.roles)>>) /\ ~Spawn /\ ~BeginLaunch
    BY <1>3 DEF RoleReadFails, Spawn, BeginLaunch
  <2>3. <<"role", Head(launch.roles)>> \in seen'.missed
    BY <1>t, <2>2 DEF Missed, LaunchTypeOK, SeenTyped
  <2>4. Reading(launch', seen')
    BY <1>t, <1>i, <1>b, <2>1, <2>2, <2>3, RoleSkipped
  <2>5. InOrder(launch'.keys, seen')
    BY <1>i, <1>b, <2>1, <2>2, FewerWanted
  <2> QED  BY <1>e, <2>1, <2>2, <2>4, <2>5
<1>4. CASE ThreadReadFails
  <2>1. /\ launch'.at = "roles" /\ launch'.roles = <<>> /\ launch'.keys = launch.keys
        /\ launch'.got = launch.got
    BY <1>4, <1>t, TurnSteps, FieldsOf
  <2>2. launch.at = "roles" /\ launch.keys = <<>> /\ ~Spawn
    BY <1>4 DEF ThreadReadFails, Spawn
  <2>3. \A r \in Range(Roles) : <<"role", r>> \in seen'.missed
    BY <1>4, <1>t DEF ThreadReadFails, LaunchTypeOK, SeenTyped
  <2>4. launch.got = Empty
    BY <1>i, <2>2 DEF Reading
  <2>5. Reading(launch', seen')
    BY <2>1, <2>2, <2>3, <2>4, NoRoleRead
  <2> QED  BY <1>e, <2>1, <2>2, <2>5, NoKeys
<1>5. CASE Resolve
  <2>1. \/ launch' = Resting
        \/ launch'.at \in {"mint", "sources"} /\ launch'.keys = <<Own>> \o launch.keys /\ launch'.got = launch.got
    <3>1. \/ launch' = Resting
          \/ launch' = TurnAt(Sourced, launch.roles, <<Own>> \o launch.keys, resolveClaudeCredential,
                              resolveChannelEnv, launch.todo, launch.source, launch.got)
      BY <1>5, <1>t, TurnSteps
    <3>2. Sourced \in {"mint", "sources"}
      BY DEF Sourced
    <3> QED  BY <3>1, <3>2 DEF TurnAt
  <2>2. launch.at = "roles" /\ launch.roles = <<>> /\ seen' = seen /\ ~Spawn
    BY <1>5 DEF Resolve, Spawn
  <2>3. launch'.keys = <<Own>> \o launch.keys /\ launch'.got = launch.got
          => Collecting(launch', seen) /\ InOrder(launch'.keys, seen)
    BY <1>t, <1>i, <2>2, SourcesKnown
  <2> QED  BY <1>e, <1>r, <2>1, <2>2, <2>3
<1>6. CASE Mint
  <2>1. \/ launch' = Resting
        \/ launch'.at = "sources" /\ launch'.keys = launch.keys /\ launch'.got = launch.got
    BY <1>6, <1>t, TurnSteps, FieldsOf
  <2>2. launch.at = "mint" /\ seen' = seen /\ ~Spawn
    BY <1>6 DEF Mint, Spawn
  <2>3. launch'.keys = launch.keys /\ launch'.got = launch.got => Collecting(launch', seen)
    BY <1>i, <2>2 DEF Collecting
  <2> QED  BY <1>e, <1>i, <1>r, <2>1, <2>2, <2>3
<1>7. CASE ListGrants
  <2>1. /\ launch'.at = "material" /\ launch'.keys = launch.keys /\ launch'.got = launch.got /\ launch'.source = Empty
        /\ launch'.todo = {c \in Conn : Approved(Head(launch.keys), c)}
    BY <1>7, <1>t, TurnSteps, FieldsOf
  <2>2. launch.at = "sources" /\ seen' = seen /\ ~Spawn
    BY <1>7 DEF ListGrants, Spawn
  <2>3. Collecting(launch', seen)
    BY <1>i, <2>1, <2>2 DEF Collecting
  <2>4. Asking(launch', seen)
    BY <1>i, <2>1, <2>2, SourceListed
  <2> QED  BY <1>e, <1>i, <2>1, <2>2, <2>3, <2>4
<1>8. CASE ListFails
  <2>1. launch'.at = "sources" /\ launch'.keys = Tail(launch.keys) /\ launch'.got = launch.got
    BY <1>8, <1>t, TurnSteps, FieldsOf
  <2>2. /\ launch.at = "sources" /\ launch.keys # <<>> /\ Missed(<<"key", Head(launch.keys)>>) /\ ~Spawn /\ ~BeginLaunch
    BY <1>8 DEF ListFails, Spawn, BeginLaunch
  <2>3. <<"key", Head(launch.keys)>> \in seen'.missed
    BY <1>t, <2>2 DEF Missed, LaunchTypeOK, SeenTyped
  <2>4. Collecting(launch', seen')
    BY <1>p, <1>i, <1>b, <2>1, <2>2, <2>3, SourceSkipped
  <2>5. InOrder(launch'.keys, seen')
    BY <1>p, <1>i, <1>b, <2>1, <2>2, LeftInOrder, FewerWanted
  <2> QED  BY <1>e, <2>1, <2>2, <2>4, <2>5
<1>9. CASE GetMaterial
  <2>1. PICK c \in launch.todo :
          launch' = TurnAt("material", launch.roles, launch.keys, launch.auth, launch.env,
                           launch.todo \ {c}, Fetch(Head(launch.keys), c), launch.got)
    BY <1>9, <1>t, TurnSteps
  <2>2. /\ launch'.at = "material" /\ launch'.keys = launch.keys /\ launch'.got = launch.got
        /\ launch'.todo = launch.todo \ {c} /\ launch'.source = Fetch(Head(launch.keys), c)
    BY <2>1, FieldsOf
  <2>3. launch.at = "material" /\ seen' = seen /\ ~Spawn
    BY <1>9 DEF GetMaterial, Spawn
  <2>4. Collecting(launch', seen)
    BY <1>i, <2>2, <2>3 DEF Collecting
  <2>5. Asking(launch', seen)
    BY <1>i, <2>2, <2>3, GrantFetched
  <2> QED  BY <1>e, <1>i, <2>2, <2>3, <2>4, <2>5
<1>10. CASE MaterialFails
  <2>1. PICK c \in launch.todo :
          /\ launch' = TurnAt("material", launch.roles, launch.keys, launch.auth, launch.env,
                              launch.todo \ {c}, launch.source, launch.got)
          /\ Missed(<<"grant", Head(launch.keys), c>>)
    BY <1>10, <1>t, TurnSteps
  <2>2. /\ launch'.at = "material" /\ launch'.keys = launch.keys /\ launch'.got = launch.got
        /\ launch'.todo = launch.todo \ {c} /\ launch'.source = launch.source
    BY <2>1, FieldsOf
  <2>3. launch.at = "material" /\ ~Spawn /\ ~BeginLaunch
    BY <1>10 DEF MaterialFails, Spawn, BeginLaunch
  <2>4. <<"grant", Head(launch.keys), c>> \in seen'.missed
    BY <1>t, <2>1 DEF Missed, LaunchTypeOK, SeenTyped
  <2>5. Collecting(launch', seen') /\ InOrder(launch'.keys, seen')
    <3>1. Collecting(launch, seen') /\ InOrder(launch.keys, seen')
      BY <1>i, <1>b, <2>3, FewerWanted
    <3> QED  BY <2>2, <3>1 DEF Collecting
  <2>6. Asking(launch', seen')
    BY <1>i, <1>b, <2>2, <2>3, <2>4, GrantSkipped
  <2> QED  BY <1>e, <2>2, <2>3, <2>5, <2>6
<1>11. CASE NextSource
  <2>1. launch'.at = "sources" /\ launch'.keys = Tail(launch.keys) /\ launch'.got = Union(launch.got, launch.source)
    BY <1>11, <1>t, TurnSteps, FieldsOf
  <2>2. launch.at = "material" /\ launch.todo = {} /\ seen' = seen /\ ~Spawn
    BY <1>11 DEF NextSource, Spawn
  <2>3. Collecting(launch', seen)
    BY <1>p, <1>i, <2>1, <2>2, SourceTaken
  <2>4. InOrder(launch'.keys, seen)
    BY <1>p, <1>i, <2>1, <2>2, LeftInOrder
  <2> QED  BY <1>e, <2>1, <2>2, <2>3, <2>4
<1>12. CASE Spawn
  <2>1. launch'.at = "running" /\ launch'.keys = launch.keys
    BY <1>12, <1>t, TurnSteps, FieldsOf
  <2>2. launch.at = "sources" /\ seen' = seen
    BY <1>12 DEF Spawn
  <2>3. GrantedArrives'
    BY <1>12, <1>t, <1>i, <2>2, SpawnArrives
  <2> QED  BY <1>i, <2>1, <2>2, <2>3
<1>13. CASE Finish
  <2>1. launch' = Resting /\ ~Spawn
    BY <1>13 DEF Finish, Spawn
  <2> QED  BY <1>e, <1>r, <2>1
<1> QED
  BY <1>1, <1>2, <1>3, <1>4, <1>5, <1>6, <1>7, <1>8, <1>9, <1>10, <1>11, <1>12, <1>13 DEF LaunchStep

LEMMA OthersArrive ==
  ASSUME ArrivalInv, Around \/ Configure \/ UNCHANGED launchVars
  PROVE  ArrivalInv'
<1>t. LaunchTypeOK
  BY DEF ArrivalInv
<1>u. LaunchTypeOK'
  BY <1>t, StepTyped DEF LaunchNext
<1>1. UNCHANGED <<launch, held>> /\ seen'.missed = seen.missed
  BY <1>t, OthersNoted
<1>2. seen'.steady \subseteq seen.steady /\ seen'.worn \subseteq seen.worn
  BY <1>t, OthersNoted
<1>3. launch.at # "idle" => seen'.steady \subseteq LiveTokens' /\ \A r \in seen'.worn : Wears(r)'
  <2> SUFFICES ASSUME launch.at # "idle"
               PROVE  seen'.steady \subseteq LiveTokens' /\ \A r \in seen'.worn : Wears(r)'
    OBVIOUS
  <2>1. CASE UNCHANGED <<hub, roleNote, seen>>
    BY <2>1, NothingElseMoves DEF ArrivalInv
  <2>2. CASE seen'.steady = seen.steady \cap LiveTokens' /\ seen'.worn = seen.worn \cap {r \in Role : Wears(r)'}
    BY <2>2
  <2> QED  BY <1>t, <2>1, <2>2, OthersNoted
<1>4. GrantedArrives'
  <2>1. Sources' \subseteq Sources
    <3>1. Sources' = {Own} \cup {rolePathKey[r] : r \in {r \in seen'.worn \cap Range(Roles) : <<"role", r>> \notin seen'.missed}}
      BY DEF Sources
    <3> QED  BY <1>1, <1>2, <3>1 DEF Sources
  <2>2. \A k, x : Arrived(k, x)' <=> Arrived(k, x)
    BY <1>1 DEF Arrived, Answer
  <2> HIDE DEF Arrived, Sources
  <2> QED  BY <1>1, <1>2, <2>1, <2>2 DEF GrantedArrives, ArrivalInv
<1>5. /\ InOrder(launch.keys, seen')
      /\ launch.at = "roles" => Reading(launch, seen')
      /\ launch.at \in {"mint", "sources", "material"} => Collecting(launch, seen')
      /\ launch.at = "material" => Asking(launch, seen')
  BY <1>1, <1>2, FewerWanted DEF ArrivalInv
<1> QED  BY <1>1, <1>u, <1>3, <1>4, <1>5 DEF ArrivalInv

(* Theorem: with distinct keys of distinct roles, whatever is granted      *)
(* throughout to a source that is one throughout, and is handed out when   *)
(* asked for, reaches claude, unless an earlier source has its slot: the   *)
(* roles are asked in the order of the thread, behind the agent itself     *)
(* (readThreadRoles, resolveInjectedGrantsUnion, buildSurfaceGitEnv).      *)
THEOREM WhatIsGrantedArrives ==
  ASSUME RolesDistinct
  PROVE  LaunchSpec => []GrantedArrives
<1>1. LaunchInit => ArrivalInv
  <2> SUFFICES ASSUME LaunchInit PROVE ArrivalInv
    OBVIOUS
  <2>1. LaunchTypeOK
    BY GrantedInit DEF GrantedInv
  <2>2. launch = Resting /\ held = Unset
    BY DEF LaunchInit
  <2>3. launch.at = "idle" /\ launch.keys = <<>>
    BY <2>2 DEF Resting
  <2> QED  BY <2>1, <2>2, <2>3, NoKeys DEF ArrivalInv, GrantedArrives
<1>2. ArrivalInv /\ [LaunchNext]_launchVars => ArrivalInv'
  BY ArrivalMoves, OthersArrive DEF LaunchNext
<1>3. ArrivalInv => GrantedArrives
  BY DEF ArrivalInv
<1> QED  BY <1>1, <1>2, <1>3, PTL DEF LaunchSpec

-----------------------------------------------------------------------------
(* Spawns: for any number of turns, workspaces and attempts each claude     *)
(* process runs under its own turn's policy, with its own proxy and files.   *)

Stages == {"queued", "staging", "waiting", "initialize", "wrap", "wrapped", "backoff", "running", "over"}
Configs == {buildSandboxConfig(t) : t \in Spawner}
Engines == [config : Configs \cup {Nobody}, proxy : Spawner \cup {Nobody}]
Staged == [mcp : Spawner \cup {Nobody}, prompt : Spawner \cup {Nobody}]
Turns == [at : Stages, argv : Engines \cup {Nobody}, starts : Nat, fresh : BOOLEAN]

\* The stages at which a turn has a place in the chain of the lock.
InChain == {"waiting", "initialize", "wrap"}

\* Types, with that the turns at the engine or before it are those in the chain.
SpawnsTypeOK ==
  /\ files \in [Workspaces -> Staged]
  /\ chain \in Seq(Spawner)
  /\ engine \in Engines
  /\ spawner \in [Spawner -> Turns]
  /\ DOMAIN claude = Spawner

ChainExact ==
  /\ \A i, j \in 1 .. Len(chain) : chain[i] = chain[j] => i = j
  /\ \A i \in 1 .. Len(chain) : spawner[chain[i]].at \in InChain
  /\ \A t \in Spawner : spawner[t].at \in InChain => \E i \in 1 .. Len(chain) : chain[i] = t
  /\ \A t \in Spawner : spawner[t].at \in {"initialize", "wrap"} => chain[1] = t

LockInv == SpawnsTypeOK /\ ChainExact

\* Every workspace is some turn's, and every configuration some turn's.
LEMMA Places ==
  ASSUME NEW t \in Spawner
  PROVE  Private(t) \in Workspaces /\ buildSandboxConfig(t) \in Configs
BY DEF Private, Workspaces, Configs

\* A turn that moves to another stage is still a turn.
LEMMA Moves ==
  ASSUME spawner \in [Spawner -> Turns], NEW t \in Spawner, NEW a \in Stages, Goes(t, a)
  PROVE  /\ spawner' \in [Spawner -> Turns]
         /\ spawner'[t].at = a /\ spawner'[t].argv = spawner[t].argv
         /\ \A u \in Spawner \ {t} : spawner'[u] = spawner[u]
BY DEF Goes, Turns

\* A chain whose last is new, and a chain whose head has gone.
LEMMA Grown ==
  ASSUME chain \in Seq(Spawner), NEW t \in Spawner, chain' = Append(chain, t)
  PROVE  /\ chain' \in Seq(Spawner) /\ Len(chain') = Len(chain) + 1
         /\ \A i \in 1 .. Len(chain) : chain'[i] = chain[i]
         /\ chain'[Len(chain) + 1] = t
OBVIOUS

LEMMA Shrunk ==
  ASSUME chain \in Seq(Spawner), chain # <<>>, chain' = Tail(chain)
  PROVE  /\ chain' \in Seq(Spawner) /\ Len(chain') = Len(chain) - 1
         /\ \A i \in 1 .. Len(chain') : chain'[i] = chain[i + 1]
OBVIOUS

\* Who holds the lock is the first of a chain that is not empty.
LEMMA Holder ==
  ASSUME LockInv, NEW t \in Spawner,
         Locked(t) \/ At(t, "initialize") \/ At(t, "wrap")
  PROVE  /\ chain # <<>> /\ chain[1] = t
         /\ \A u \in Spawner : spawner[u].at \in {"initialize", "wrap"} => u = t
<1>1. spawner[t].at \in InChain
  BY DEF Locked, At, InChain
<1>2. PICK i \in 1 .. Len(chain) : chain[i] = t
  BY <1>1 DEF LockInv, ChainExact
<1>3. chain # <<>>
  BY <1>2 DEF LockInv, SpawnsTypeOK
<1>4. chain[1] = t
  BY <1>3 DEF Locked, At, LockInv, ChainExact, SpawnsTypeOK
<1> QED
  BY <1>3, <1>4 DEF LockInv, ChainExact

\* The types, and the chain of the lock, are kept by every step.
THEOREM LockIsExact == SpawnsSpec => []LockInv
<1>1. SpawnsInit => LockInv
  BY SpawnsAssumption DEF SpawnsInit, LockInv, SpawnsTypeOK, ChainExact, Stages, Engines, Staged, Turns, InChain
<1>2. LockInv /\ [SpawnsNext]_spawnVars => LockInv'
  <2> SUFFICES ASSUME LockInv, [SpawnsNext]_spawnVars PROVE LockInv'
    OBVIOUS
  <2>t. SpawnsTypeOK /\ ChainExact
    BY DEF LockInv
  \* A step that neither enters nor leaves the chain.
  <2>c. ASSUME UNCHANGED chain, spawner' \in [Spawner -> Turns], NEW t \in Spawner,
               \A u \in Spawner \ {t} : spawner'[u] = spawner[u],
               spawner[t].at \in InChain <=> spawner'[t].at \in InChain,
               spawner'[t].at \in {"initialize", "wrap"} => chain[1] = t
        PROVE  ChainExact'
    BY <2>c, <2>t DEF ChainExact, SpawnsTypeOK
  <2>1. ASSUME NEW t \in Spawner, WriteMcpConfig(t) PROVE LockInv'
    <3>1. files' \in [Workspaces -> Staged]
      BY <2>1, <2>t, Places DEF WriteMcpConfig, SpawnsTypeOK, Staged
    <3>2. SpawnsTypeOK'
      BY <2>1, <2>t, <3>1, Moves DEF WriteMcpConfig, SpawnsTypeOK, Stages
    <3>3. ChainExact'
      BY <2>1, <2>t, <2>c, Moves DEF WriteMcpConfig, SpawnsTypeOK, Stages, InChain, At
    <3> QED  BY <3>2, <3>3 DEF LockInv
  <2>2. ASSUME NEW t \in Spawner, WritePrompt(t) PROVE LockInv'
    <3>1. files' \in [Workspaces -> Staged]
      BY <2>2, <2>t, Places DEF WritePrompt, SpawnsTypeOK, Staged
    <3>2. SpawnsTypeOK'
      BY <2>2, <2>t, <3>1, Moves, Grown DEF WritePrompt, SpawnsTypeOK, Stages
    <3>3. ChainExact'
      <4>1. At(t, "staging") /\ Goes(t, "waiting") /\ chain' = Append(chain, t)
        BY <2>2 DEF WritePrompt
      <4>2. \A i \in 1 .. Len(chain) : chain[i] # t
        BY <4>1, <2>t DEF ChainExact, At, InChain
      <4>3. Len(chain) \in Nat
        BY <2>t DEF SpawnsTypeOK
      <4>4. /\ spawner'[t].at = "waiting" /\ \A u \in Spawner \ {t} : spawner'[u] = spawner[u]
        BY <4>1, <2>t, Moves DEF SpawnsTypeOK, Stages
      <4>5. /\ chain \in Seq(Spawner) /\ chain' \in Seq(Spawner) /\ Len(chain') = Len(chain) + 1
            /\ \A i \in 1 .. Len(chain) : chain'[i] = chain[i]
            /\ chain'[Len(chain) + 1] = t
        BY <4>1, <2>t, Grown DEF SpawnsTypeOK
      <4>6. \A i, j \in 1 .. Len(chain') : chain'[i] = chain'[j] => i = j
        BY <4>2, <4>3, <4>5, <2>t DEF ChainExact
      <4>7. \A i \in 1 .. Len(chain') : spawner'[chain'[i]].at \in InChain
        BY <4>2, <4>3, <4>4, <4>5, <2>t DEF ChainExact, InChain
      <4>8. \A u \in Spawner : spawner'[u].at \in InChain => \E i \in 1 .. Len(chain') : chain'[i] = u
        BY <4>3, <4>4, <4>5, <2>t DEF ChainExact
      <4>9. \A u \in Spawner : spawner'[u].at \in {"initialize", "wrap"} => chain'[1] = u
        <5> SUFFICES ASSUME NEW u \in Spawner, spawner'[u].at \in {"initialize", "wrap"} PROVE chain'[1] = u
          OBVIOUS
        <5>1. u # t /\ spawner[u].at \in {"initialize", "wrap"}
          BY <4>4
        <5>2. chain[1] = u /\ \E i \in 1 .. Len(chain) : chain[i] = u
          BY <5>1, <2>t DEF ChainExact, InChain
        <5> QED  BY <4>3, <4>5, <5>2
      <4> QED  BY <4>6, <4>7, <4>8, <4>9 DEF ChainExact
    <3> QED  BY <3>2, <3>3 DEF LockInv
  <2>3. ASSUME NEW t \in Spawner, ResetEngine(t) PROVE LockInv'
    <3>1. SpawnsTypeOK'
      BY <2>3, <2>t, Moves DEF ResetEngine, SpawnsTypeOK, Engines, Stages
    <3>2. ChainExact'
      BY <2>3, <2>t, <2>c, Moves, Holder DEF ResetEngine, SpawnsTypeOK, Stages, InChain, Locked, At
    <3> QED  BY <3>1, <3>2 DEF LockInv
  <2>4. ASSUME NEW t \in Spawner, Initialize(t) PROVE LockInv'
    <3>1. engine' \in Engines
      BY <2>4, <2>t, Places DEF Initialize, Engines, SpawnsTypeOK
    <3>2. SpawnsTypeOK'
      BY <2>4, <2>t, <3>1, Moves DEF Initialize, SpawnsTypeOK, Stages
    <3>3. ChainExact'
      BY <2>4, <2>t, <2>c, Moves, Holder DEF Initialize, SpawnsTypeOK, Stages, InChain, At
    <3> QED  BY <3>2, <3>3 DEF LockInv
  \* The holder leaves the chain.
  <2>l. ASSUME NEW t \in Spawner, chain # <<>>, chain[1] = t, chain' = Tail(chain),
               \A u \in Spawner : spawner[u].at \in {"initialize", "wrap"} => u = t,
               spawner' \in [Spawner -> Turns],
               \A u \in Spawner \ {t} : spawner'[u] = spawner[u], spawner'[t].at \notin InChain
        PROVE  ChainExact' /\ chain' \in Seq(Spawner)
    <3>1. /\ chain' \in Seq(Spawner) /\ Len(chain') = Len(chain) - 1 /\ Len(chain) \in Nat \ {0}
          /\ \A i \in 1 .. Len(chain') : chain'[i] = chain[i + 1]
      BY <2>l, <2>t, Shrunk DEF SpawnsTypeOK
    <3>2. \A i \in 1 .. Len(chain') : i + 1 \in 1 .. Len(chain) /\ chain'[i] = chain[i + 1] /\ chain'[i] # t
      BY <3>1, <2>l, <2>t DEF ChainExact
    <3>3. \A i, j \in 1 .. Len(chain') : chain'[i] = chain'[j] => i = j
      BY <3>1, <3>2, <2>t DEF ChainExact
    <3>4. \A i \in 1 .. Len(chain') : spawner'[chain'[i]].at \in InChain
      BY <3>1, <3>2, <2>l, <2>t DEF ChainExact, SpawnsTypeOK
    <3>5. ASSUME NEW u \in Spawner, spawner'[u].at \in InChain
          PROVE  u # t /\ (\E i \in 1 .. Len(chain') : chain'[i] = u) /\ spawner'[u].at \notin {"initialize", "wrap"}
      <4>1. u # t /\ spawner[u].at \in InChain
        BY <3>5, <2>l
      <4>2. PICK i \in 1 .. Len(chain) : chain[i] = u
        BY <4>1, <2>t DEF ChainExact
      <4>3. i - 1 \in 1 .. Len(chain') /\ chain'[i - 1] = u
        BY <4>1, <4>2, <3>1, <2>l
      <4> QED  BY <4>1, <4>3, <2>l
    <3> QED  BY <3>1, <3>3, <3>4, <3>5 DEF ChainExact, InChain
  <2>5. ASSUME NEW t \in Spawner, Wrap(t) PROVE LockInv'
    <3>1. /\ spawner' \in [Spawner -> Turns] /\ spawner'[t].at = "wrapped"
          /\ \A u \in Spawner \ {t} : spawner'[u] = spawner[u]
      BY <2>5, <2>t DEF Wrap, SpawnsTypeOK, Turns, Stages
    <3>2. ChainExact' /\ chain' \in Seq(Spawner)
      BY <2>5, <3>1, <2>l, Holder DEF Wrap, Released, InChain
    <3> QED  BY <2>5, <2>t, <3>1, <3>2 DEF Wrap, LockInv, SpawnsTypeOK
  <2>6. ASSUME NEW t \in Spawner, EngineFails(t) PROVE LockInv'
    <3>1. Goes(t, "over") /\ chain' = Tail(chain)
      BY <2>6 DEF EngineFails, ReleasedOnFailure, Released
    <3>2. ChainExact' /\ chain' \in Seq(Spawner)
      BY <2>6, <2>t, <3>1, <2>l, Holder, Moves DEF EngineFails, InChain, SpawnsTypeOK, Stages
    <3> QED  BY <2>6, <2>t, <3>1, <3>2, Moves DEF EngineFails, LockInv, SpawnsTypeOK, Stages
  <2>7. ASSUME NEW t \in Spawner, Start(t) PROVE LockInv'
    <3>1. /\ spawner' \in [Spawner -> Turns] /\ spawner'[t].at = "running"
          /\ \A u \in Spawner \ {t} : spawner'[u] = spawner[u]
      BY <2>7, <2>t DEF Start, SpawnsTypeOK, Turns, Stages
    <3>2. ChainExact'
      BY <2>7, <3>1, <2>c DEF Start, At, InChain
    <3> QED  BY <2>7, <2>t, <3>1, <3>2 DEF Start, LockInv, SpawnsTypeOK
  <2>8. ASSUME NEW t \in Spawner, Exit(t) \/ Transient(t) PROVE LockInv'
    <3>1. PICK a \in {"over", "backoff"} : Stops(t, a) /\ UNCHANGED chain
      BY <2>8 DEF Exit, Transient
    <3>2. SpawnsTypeOK'
      BY <3>1, <2>t, Moves DEF Stops, SpawnsTypeOK, Stages
    <3>3. ChainExact'
      BY <3>1, <2>t, <2>c, Moves DEF Stops, SpawnsTypeOK, Stages, InChain, At
    <3> QED  BY <3>2, <3>3 DEF LockInv
  <2>9. ASSUME NEW t \in Spawner, Fallback(t) PROVE LockInv'
    <3>1. /\ spawner' \in [Spawner -> Turns] /\ spawner'[t].at = "waiting"
          /\ \A u \in Spawner \ {t} : spawner'[u] = spawner[u]
      BY <2>9, <2>t DEF Fallback, SpawnsTypeOK, Turns, Stages
    <3>2. SpawnsTypeOK'
      BY <2>9, <2>t, <3>1, Grown DEF Fallback, SpawnsTypeOK
    <3>3. ChainExact'
      <4>1. At(t, "running") /\ chain' = Append(chain, t)
        BY <2>9 DEF Fallback
      <4>2. \A i \in 1 .. Len(chain) : chain[i] # t
        BY <4>1, <2>t DEF ChainExact, At, InChain
      <4>3. Len(chain) \in Nat
        BY <2>t DEF SpawnsTypeOK
      <4>4. /\ Len(chain') = Len(chain) + 1 /\ chain'[Len(chain) + 1] = t
            /\ \A i \in 1 .. Len(chain) : chain'[i] = chain[i]
        BY <4>1, <2>t, Grown DEF SpawnsTypeOK
      <4>5. \A i, j \in 1 .. Len(chain') : chain'[i] = chain'[j] => i = j
        BY <4>2, <4>3, <4>4, <2>t DEF ChainExact
      <4>6. \A i \in 1 .. Len(chain') : spawner'[chain'[i]].at \in InChain
        BY <4>2, <4>3, <4>4, <3>1, <2>t DEF ChainExact, InChain, SpawnsTypeOK
      <4>7. ASSUME NEW u \in Spawner, spawner'[u].at \in InChain
            PROVE  /\ \E i \in 1 .. Len(chain') : chain'[i] = u
                   /\ spawner'[u].at \in {"initialize", "wrap"} => chain'[1] = u
        <5>1. CASE u = t
          BY <5>1, <4>3, <4>4, <3>1
        <5>2. CASE u # t
          <6>1. PICK i \in 1 .. Len(chain) : chain[i] = u
            BY <5>2, <4>7, <3>1, <2>t DEF ChainExact
          <6> QED  BY <6>1, <5>2, <4>3, <4>4, <3>1, <2>t DEF ChainExact
        <5> QED  BY <5>1, <5>2
      <4> QED  BY <4>5, <4>6, <4>7 DEF ChainExact, InChain
    <3> QED  BY <3>2, <3>3 DEF LockInv
  <2>10. CASE UNCHANGED spawnVars
    BY <2>10 DEF spawnVars, LockInv, SpawnsTypeOK, ChainExact
  <2> QED
    BY <2>1, <2>2, <2>3, <2>4, <2>5, <2>6, <2>7, <2>8, <2>9, <2>10 DEF SpawnsNext, EngineStep
<1> QED
  BY <1>1, <1>2, PTL DEF SpawnsSpec

-----------------------------------------------------------------------------
\* What the engine gives a turn that has it to itself.
OwnCommand(t) == [config |-> buildSandboxConfig(t), proxy |-> IF Restricted(t) THEN t ELSE Nobody]

EngineIsMine ==
  \A t \in Spawner :
    /\ spawner[t].at = "initialize" => engine.proxy = Nobody
    /\ spawner[t].at = "wrap" => engine = OwnCommand(t)
    /\ spawner[t].at \in {"wrapped", "backoff", "running"} => spawner[t].argv = OwnCommand(t)

FilesAreMine ==
  /\ \A t \in Spawner : Underway(t) =>
       /\ files[Private(t)].mcp = t
       /\ spawner[t].at # "staging" => files[Private(t)].prompt = t
  /\ \A t, u \in Spawner : Underway(t) /\ Underway(u) /\ Private(t) = Private(u) => t = u

\* Files that stay as they are, and nobody new in a workspace.
LEMMA FilesStay ==
  ASSUME FilesAreMine, UNCHANGED files, NEW t \in Spawner, Underway(t),
         spawner[t].at = "staging" => ~Underway(t)',
         \A u \in Spawner \ {t} : spawner'[u] = spawner[u]
  PROVE  FilesAreMine'
BY DEF FilesAreMine, Underway, Private

\* SpawnedWithItsOwn: every claude process runs under its own spec's policy,
\* behind its own proxy and with its own turn's files (attemptTurn of
\* programmatic.ts, the lock of spawn-agent.ts), for any number of turns.
THEOREM OwnSandbox == SpawnsSpec => []SpawnedWithItsOwn
<1> DEFINE Inv == EngineIsMine /\ FilesAreMine /\ SpawnedWithItsOwn
<1>1. SpawnsInit => Inv
  BY DEF SpawnsInit, EngineIsMine, FilesAreMine, SpawnedWithItsOwn, Underway
<1>2. LockInv /\ Inv /\ [SpawnsNext]_spawnVars => Inv'
  <2> SUFFICES ASSUME LockInv, Inv, [SpawnsNext]_spawnVars PROVE Inv'
    OBVIOUS
  <2>t. SpawnsTypeOK
    BY DEF LockInv
  <2>s. ASSUME UNCHANGED claude PROVE SpawnedWithItsOwn'
    BY <2>s DEF SpawnedWithItsOwn
  <2>1. ASSUME NEW t \in Spawner, WriteMcpConfig(t) PROVE Inv'
    <3>1. /\ Goes(t, "staging") /\ At(t, "queued") /\ UNCHANGED <<engine, claude>>
          /\ \A u \in Spawner : Private(u) = Private(t) => ~Underway(u)
          /\ files' = [files EXCEPT ![Private(t)].mcp = t]
      BY <2>1 DEF WriteMcpConfig
    <3>2. spawner'[t].at = "staging" /\ \A u \in Spawner \ {t} : spawner'[u] = spawner[u]
      BY <3>1, <2>t, Moves DEF SpawnsTypeOK, Stages
    <3>3. EngineIsMine'
      BY <3>1, <3>2 DEF EngineIsMine
    <3>4. files'[Private(t)].mcp = t /\ \A w \in Workspaces : w # Private(t) => files'[w] = files[w]
      BY <3>1, <2>t, Places DEF SpawnsTypeOK, Staged
    <3>5. \A u \in Spawner \ {t} : Underway(u)' => Underway(u) /\ Private(u) # Private(t) /\ files'[Private(u)] = files[Private(u)]
      BY <3>1, <3>2, <3>4, Places DEF Underway
    <3>6. FilesAreMine'
      BY <3>2, <3>4, <3>5 DEF FilesAreMine, Underway, Private
    <3> QED  BY <3>1, <3>3, <3>6, <2>s
  <2>2. ASSUME NEW t \in Spawner, WritePrompt(t) PROVE Inv'
    <3>1. /\ Goes(t, "waiting") /\ At(t, "staging") /\ UNCHANGED <<engine, claude>>
          /\ files' = [files EXCEPT ![Private(t)].prompt = t]
      BY <2>2 DEF WritePrompt
    <3>2. spawner'[t].at = "waiting" /\ \A u \in Spawner \ {t} : spawner'[u] = spawner[u]
      BY <3>1, <2>t, Moves DEF SpawnsTypeOK, Stages
    <3>3. EngineIsMine'
      BY <3>1, <3>2 DEF EngineIsMine
    <3>4. /\ files'[Private(t)].mcp = files[Private(t)].mcp /\ files'[Private(t)].prompt = t
          /\ \A w \in Workspaces : w # Private(t) => files'[w] = files[w]
      BY <3>1, <2>t, Places DEF SpawnsTypeOK, Staged
    <3>5. Underway(t) /\ \A u \in Spawner \ {t} : Underway(u)' => Underway(u) /\ Private(u) # Private(t) /\ files'[Private(u)] = files[Private(u)]
      BY <3>1, <3>2, <3>4, Places DEF Underway, At, FilesAreMine
    <3>6. FilesAreMine'
      BY <3>2, <3>4, <3>5 DEF FilesAreMine, Underway, Private
    <3> QED  BY <3>1, <3>3, <3>6, <2>s
  <2>3. ASSUME NEW t \in Spawner, ResetEngine(t) PROVE Inv'
    <3>1. /\ Goes(t, "initialize") /\ At(t, "waiting") /\ UNCHANGED <<files, claude>>
          /\ engine' = [engine EXCEPT !.proxy = Nobody]
      BY <2>3 DEF ResetEngine, Locked
    <3>2. spawner'[t].at = "initialize" /\ \A u \in Spawner \ {t} : spawner'[u] = spawner[u]
      BY <3>1, <2>t, Moves DEF SpawnsTypeOK, Stages
    <3>3. engine'.proxy = Nobody
      BY <3>1, <2>t DEF SpawnsTypeOK, Engines
    <3>4. \A u \in Spawner : spawner[u].at \in {"initialize", "wrap"} => u = t
      BY <2>3, Holder DEF ResetEngine
    <3>5. EngineIsMine'
      BY <3>2, <3>3, <3>4 DEF EngineIsMine
    <3>6. FilesAreMine'
      BY <3>1, <3>2, FilesStay DEF Underway, At
    <3> QED  BY <3>1, <3>5, <3>6, <2>s
  <2>4. ASSUME NEW t \in Spawner, Initialize(t) PROVE Inv'
    <3>1. /\ Goes(t, "wrap") /\ At(t, "initialize") /\ UNCHANGED <<files, claude>>
          /\ engine' = [config |-> buildSandboxConfig(t), proxy |-> IF Restricted(t) THEN t ELSE engine.proxy]
      BY <2>4 DEF Initialize
    <3>2. spawner'[t].at = "wrap" /\ \A u \in Spawner \ {t} : spawner'[u] = spawner[u]
      BY <3>1, <2>t, Moves DEF SpawnsTypeOK, Stages
    <3>3. engine' = OwnCommand(t)
      BY <3>1 DEF EngineIsMine, At, OwnCommand
    <3>4. \A u \in Spawner : spawner[u].at \in {"initialize", "wrap"} => u = t
      BY <3>1, Holder
    <3>5. EngineIsMine'
      BY <3>2, <3>3, <3>4 DEF EngineIsMine, OwnCommand, Restricted, buildSandboxConfig, Private
    <3>6. FilesAreMine'
      BY <3>1, <3>2, FilesStay DEF Underway, At
    <3> QED  BY <3>1, <3>5, <3>6, <2>s
  <2>5. ASSUME NEW t \in Spawner, Wrap(t) PROVE Inv'
    <3>1. At(t, "wrap") /\ UNCHANGED <<files, engine, claude>>
      BY <2>5 DEF Wrap
    <3>2. /\ spawner'[t].at = "wrapped" /\ spawner'[t].argv = engine
          /\ \A u \in Spawner \ {t} : spawner'[u] = spawner[u]
      BY <2>5, <2>t DEF Wrap, SpawnsTypeOK, Turns
    <3>3. EngineIsMine'
      BY <3>1, <3>2 DEF EngineIsMine, At, OwnCommand, Restricted, buildSandboxConfig, Private
    <3>4. FilesAreMine'
      BY <3>1, <3>2, FilesStay DEF Underway, At
    <3> QED  BY <3>1, <3>3, <3>4, <2>s
  <2>6. ASSUME NEW t \in Spawner, EngineFails(t) PROVE Inv'
    <3>1. Goes(t, "over") /\ (At(t, "initialize") \/ At(t, "wrap")) /\ UNCHANGED <<files, engine, claude>>
      BY <2>6 DEF EngineFails
    <3>2. spawner'[t].at = "over" /\ \A u \in Spawner \ {t} : spawner'[u] = spawner[u]
      BY <3>1, <2>t, Moves DEF SpawnsTypeOK, Stages
    <3>3. EngineIsMine'
      BY <3>1, <3>2 DEF EngineIsMine
    <3>4. FilesAreMine'
      BY <3>1, <3>2, FilesStay DEF Underway, At
    <3> QED  BY <3>1, <3>3, <3>4, <2>s
  <2>7. ASSUME NEW t \in Spawner, Start(t) PROVE Inv'
    <3>1. (At(t, "wrapped") \/ At(t, "backoff")) /\ UNCHANGED <<files, engine>>
      BY <2>7 DEF Start
    <3>2. /\ spawner'[t].at = "running" /\ spawner'[t].argv = spawner[t].argv
          /\ \A u \in Spawner \ {t} : spawner'[u] = spawner[u]
      BY <2>7, <2>t DEF Start, SpawnsTypeOK, Turns
    <3>3. EngineIsMine'
      BY <3>1, <3>2 DEF EngineIsMine, At
    <3>4. FilesAreMine'
      BY <3>1, <3>2, FilesStay DEF Underway, At
    <3>5. /\ claude'[t].config = buildSandboxConfig(t)
          /\ claude'[t].proxy = IF Restricted(t) THEN t ELSE Nobody
      <4>1. spawner[t].argv = OwnCommand(t)
        BY <3>1 DEF EngineIsMine, At
      <4>2. /\ claude'[t].config = spawner[t].argv.config
            /\ claude'[t].proxy = spawner[t].argv.proxy
        BY <2>7, <2>t DEF Start, SpawnsTypeOK
      <4> QED  BY <4>1, <4>2 DEF OwnCommand
    <3>6. claude'[t].mcp = t /\ claude'[t].prompt = t /\ \A u \in Spawner \ {t} : claude'[u] = claude[u]
      BY <2>7, <2>t, <3>1 DEF Start, FilesAreMine, Underway, At, SpawnsTypeOK
    <3>7. SpawnedWithItsOwn'
      BY <3>5, <3>6 DEF SpawnedWithItsOwn, Restricted, buildSandboxConfig, Private
    <3> QED  BY <3>3, <3>4, <3>7
  <2>8. ASSUME NEW t \in Spawner, NEW a \in {"over", "backoff"}, Stops(t, a) PROVE Inv'
    <3>1. At(t, "running") /\ Goes(t, a) /\ UNCHANGED <<files, engine>>
      BY <2>8 DEF Stops
    <3>2. /\ spawner'[t].at = a /\ spawner'[t].argv = spawner[t].argv
          /\ \A u \in Spawner \ {t} : spawner'[u] = spawner[u]
      BY <3>1, <2>t, Moves DEF SpawnsTypeOK, Stages
    <3>3. EngineIsMine'
      BY <3>1, <3>2 DEF EngineIsMine, At
    <3>4. FilesAreMine'
      BY <3>1, <3>2, FilesStay DEF Underway, At
    <3>5. SpawnedWithItsOwn'
      BY <2>8, <2>t DEF Stops, SpawnedWithItsOwn, SpawnsTypeOK, Restricted, buildSandboxConfig, Private
    <3> QED  BY <3>3, <3>4, <3>5
  <2>9. ASSUME NEW t \in Spawner, Fallback(t) PROVE Inv'
    <3>1. At(t, "running") /\ UNCHANGED <<files, engine>>
      BY <2>9 DEF Fallback
    <3>2. spawner'[t].at = "waiting" /\ \A u \in Spawner \ {t} : spawner'[u] = spawner[u]
      BY <2>9, <2>t DEF Fallback, SpawnsTypeOK
    <3>3. EngineIsMine'
      BY <3>1, <3>2 DEF EngineIsMine
    <3>4. FilesAreMine'
      BY <3>1, <3>2, FilesStay DEF Underway, At
    <3>5. SpawnedWithItsOwn'
      BY <2>9, <2>t DEF Fallback, SpawnedWithItsOwn, SpawnsTypeOK, Restricted, buildSandboxConfig, Private
    <3> QED  BY <3>3, <3>4, <3>5
  <2>10. CASE UNCHANGED spawnVars
    BY <2>10 DEF spawnVars, EngineIsMine, FilesAreMine, SpawnedWithItsOwn, Underway
  <2> QED
    BY <2>1, <2>2, <2>3, <2>4, <2>5, <2>6, <2>7, <2>8, <2>9, <2>10
    DEF SpawnsNext, EngineStep, Exit, Transient
<1> QED
  BY <1>1, <1>2, LockIsExact, PTL DEF SpawnsSpec

-----------------------------------------------------------------------------
(* Stream: however the output comes in pieces.                              *)
StepOf(F, X, n) == F \in [X \X (1 .. n) -> X]
Follows(g, b, F, n) == g[0] = b /\ \A i \in 1 .. n : g[i] = F[<<g[i - 1], i>>]

\* What is computed step by step exists: a function with a first value, each
\* other one made of the one before it.
LEMMA StepByStep ==
  ASSUME NEW X, NEW b \in X, NEW n \in Nat, NEW F, StepOf(F, X, n)
  PROVE  \E g \in [0 .. n -> X] : Follows(g, b, F, n)
<1> DEFINE Fits(m, g) == g \in [0 .. m -> X] /\ g[0] = b /\ \A i \in 1 .. m : g[i] = F[<<g[i - 1], i>>]
           Has(m) == \E g : Fits(m, g)
           S == {m \in Nat : m <= n => Has(m)}
<1>1. 0 \in S
  <2> DEFINE g == [i \in 0 .. 0 |-> b]
  <2>1. Fits(0, g)
    OBVIOUS
  <2>2. Has(0)
    BY <2>1
  <2> HIDE DEF Has
  <2> QED  BY <2>2
<1>2. ASSUME NEW m \in Nat, m \in S, m + 1 <= n PROVE Has(m + 1)
  <2>0. Has(m)
    <3> HIDE DEF Has
    <3> QED  BY <1>2
  <2>1. PICK g : Fits(m, g)
    BY <2>0
  <2> DEFINE h == [i \in 0 .. m + 1 |-> IF i <= m THEN g[i] ELSE F[<<g[m], m + 1>>]]
  <2>2. F[<<g[m], m + 1>>] \in X
    <3>1. g[m] \in X /\ m + 1 \in 1 .. n
      BY <2>1, <1>2
    <3> QED  BY <3>1 DEF StepOf
  <2>3. h \in [0 .. m + 1 -> X] /\ h[0] = b
    BY <2>1, <2>2
  <2>4. ASSUME NEW i \in 1 .. m + 1 PROVE h[i] = F[<<h[i - 1], i>>]
    <3>1. CASE i = m + 1
      <4>1. h[i] = F[<<g[m], m + 1>>] /\ h[i - 1] = g[m]
        BY <3>1
      <4> QED  BY <4>1, <3>1
    <3>2. CASE i \in 1 .. m
      <4>1. h[i] = g[i] /\ h[i - 1] = g[i - 1] /\ g[i] = F[<<g[i - 1], i>>]
        BY <3>2, <2>1
      <4> QED  BY <4>1
    <3> QED  BY <3>1, <3>2
  <2> HIDE DEF h
  <2> QED  BY <2>3, <2>4
<1>3. Has(n)
  <2> HIDE DEF Has
  <2>1. \A m \in Nat : m \in S => m + 1 \in S
    BY <1>2
  <2>2. n \in S
    <3> HIDE DEF S
    <3> QED  BY <1>1, <2>1, AllNumbers
  <2> QED  BY <2>2
<1>4. PICK g : Fits(n, g)
  BY <1>3
<1> QED  BY <1>4 DEF Follows

\* A set of numbers with a bound has a greatest one.
LEMMA Greatest ==
  ASSUME NEW n \in Nat, NEW S \in SUBSET (0 .. n), S # {}
  PROVE  \E i \in S : \A j \in S : j <= i
<1> DEFINE T == {n - i : i \in S}
<1>1. T \in SUBSET Nat /\ T # {}
  <2>1. \A i \in S : n - i \in Nat
    OBVIOUS
  <2>2. PICK i : i \in S
    OBVIOUS
  <2>3. n - i \in T
    BY <2>2
  <2>4. T \subseteq Nat
    BY <2>1
  <2> QED  BY <2>3, <2>4
<1>2. PICK k \in T : \A j \in T : k <= j
  <2> HIDE DEF T
  <2> QED  BY <1>1, Least
<1>3. PICK i \in S : k = n - i
  OBVIOUS
<1>4. ASSUME NEW j \in S PROVE j <= i
  <2>1. n - i <= n - j
    BY <1>2, <1>3
  <2> QED  BY <2>1
<1> QED  BY <1>4

Symbol == Half \cup {NL}

\* What has been understood of a text.
Sessions == {e.session : e \in Event} \cup {Absent}
Titles == {e.block.name : e \in Event} \cup {Absent}
ToolIds == {e.block.id : e \in Event}
ToolName == [id : ToolIds, name : Titles]
LiveEvent == [kind : {"init", "text", "tool", "tool_result"}, of : Sessions \cup Titles \cup ToolIds, tool : Titles]
Outcome ==
  [sessionId : Sessions, success : {e.ok : e \in Event} \cup {Absent}, reply : {e.text : e \in Event} \cup {Absent}]
Understood == [turn : Outcome, interim : Seq(LiveEvent), toolNames : Seq(ToolName)]

LEMMA UnparsedTyped == Unparsed \in Understood
<1>1. <<>> \in Seq(LiveEvent) /\ <<>> \in Seq(ToolName)
  BY EmptySeq
<1> QED  BY <1>1 DEF Unparsed, NoTurn, Understood, Outcome, Sessions

\* One thing more is told.
LEMMA InterimTyped ==
  ASSUME NEW p \in Understood, NEW x \in LiveEvent
  PROVE  Interim(p, x) \in Understood /\ Interim(p, x).interim = Append(p.interim, x)
                /\ Interim(p, x).turn = p.turn
<1>1. Append(p.interim, x) \in Seq(LiveEvent)
  BY AppendProperties DEF Understood
<1> QED  BY <1>1 DEF Interim, Understood

LEMMA ToolNamed == ASSUME NEW p \in Understood, NEW id PROVE NamedTool(p, id) \in Titles
<1> DEFINE named == {i \in DOMAIN p.toolNames : p.toolNames[i].id = id}
<1>1. p.toolNames \in Seq(ToolName) /\ Len(p.toolNames) \in Nat /\ DOMAIN p.toolNames = 1 .. Len(p.toolNames)
  BY LenProperties DEF Understood
<1>2. CASE named = {}
  BY <1>2 DEF NamedTool, Titles
<1>3. CASE named # {}
  <2> DEFINE i == CHOOSE i \in named : \A j \in named : j <= i
  <2>1. named \subseteq 0 .. Len(p.toolNames)
    BY <1>1
  <2>2. \E k \in named : \A j \in named : j <= k
    <3> HIDE DEF named
    <3> QED  BY <1>1, <1>3, <2>1, Greatest
  <2>3. i \in named
    <3> HIDE DEF named
    <3> QED  BY <2>2
  <2>4. p.toolNames[i] \in ToolName
    BY <1>1, <2>3, ElementOfSeq
  <2>5. NamedTool(p, id) = p.toolNames[i].name
    BY <1>3 DEF NamedTool
  <2> HIDE DEF i
  <2> QED  BY <2>4, <2>5 DEF ToolName
<1> QED  BY <1>2, <1>3

\* A line adds to what was told, and makes a success only as a whole result.
Extends(p, q) == \E more \in Seq(LiveEvent) : q.interim = p.interim \o more
Succeeds(p) == p.turn.success = TRUE

LEMMA SessionedTyped ==
  ASSUME NEW p \in Understood, NEW e \in Event
  PROVE  /\ Sessioned(p, e) \in Understood /\ Sessioned(p, e).turn.success = p.turn.success
         /\ Sessioned(p, e).interim = p.interim \/ \E x \in LiveEvent : Sessioned(p, e).interim = Append(p.interim, x)
<1>1. CASE p.turn.sessionId # Absent \/ e.session = Absent
  BY <1>1 DEF Sessioned
<1>2. CASE ~(p.turn.sessionId # Absent \/ e.session = Absent)
  <2> DEFINE q == [p EXCEPT !.turn.sessionId = e.session]
             x == [kind |-> "init", of |-> e.session, tool |-> Absent]
  <2>1. q \in Understood /\ q.turn.success = p.turn.success /\ q.interim = p.interim
    BY DEF Understood, Outcome, Sessions
  <2>2. x \in LiveEvent
    BY DEF LiveEvent, Sessions, Titles
  <2>3. Sessioned(p, e) = Interim(q, x)
    BY <1>2 DEF Sessioned
  <2> HIDE DEF q, x
  <2> QED  BY <2>1, <2>2, <2>3, InterimTyped
<1> QED  BY <1>1, <1>2

LEMMA BlockTyped ==
  ASSUME NEW p \in Understood, NEW e \in Event, e.block.kind \in {"text", "tool_use", "tool_result"}
  PROVE  /\ Block(p, e.block) \in Understood /\ Block(p, e.block).turn.success = p.turn.success
         /\ \E x \in LiveEvent : Block(p, e.block).interim = Append(p.interim, x)
<1> DEFINE b == e.block
<1>0. b.name \in Titles /\ b.id \in ToolIds
  BY DEF Titles, ToolIds
<1> HIDE DEF b
<1>1. CASE b.kind = "text"
  <2> DEFINE x == [kind |-> "text", of |-> b.name, tool |-> Absent]
  <2>1. x \in LiveEvent /\ Block(p, b) = Interim(p, x)
    BY <1>0, <1>1 DEF LiveEvent, Titles, Block
  <2> HIDE DEF x
  <2> QED  BY <2>1, InterimTyped DEF b
<1>2. CASE b.kind = "tool_use"
  <2> DEFINE x == [kind |-> "tool", of |-> b.id, tool |-> b.name]
             q == [p EXCEPT !.toolNames = Append(@, [id |-> b.id, name |-> b.name])]
  <2>1. [id |-> b.id, name |-> b.name] \in ToolName
    BY <1>0 DEF ToolName
  <2>2. Append(p.toolNames, [id |-> b.id, name |-> b.name]) \in Seq(ToolName)
    BY <2>1, AppendProperties DEF Understood
  <2>3. q \in Understood /\ q.turn.success = p.turn.success /\ q.interim = p.interim
    BY <2>2 DEF Understood
  <2>4. x \in LiveEvent
    BY <1>0 DEF LiveEvent
  <2>5. Block(p, b) = Interim(q, x)
    BY <1>2 DEF Block
  <2> HIDE DEF q, x
  <2> QED  BY <2>3, <2>4, <2>5, InterimTyped DEF b
<1>3. CASE b.kind = "tool_result"
  <2> DEFINE x == [kind |-> "tool_result", of |-> b.id, tool |-> NamedTool(p, b.id)]
  <2>1. x \in LiveEvent /\ Block(p, b) = Interim(p, x)
    BY <1>0, <1>3, ToolNamed DEF LiveEvent, Block
  <2> HIDE DEF x
  <2> QED  BY <2>1, InterimTyped DEF b
<1> QED  BY <1>1, <1>2, <1>3 DEF b

LEMMA OneMoreTold ==
  ASSUME NEW p \in Understood, NEW q \in Understood, NEW x \in LiveEvent, q.interim = Append(p.interim, x)
  PROVE  Extends(p, q)
<1>1. q.interim = p.interim \o <<x>> /\ <<x>> \in Seq(LiveEvent)
  BY AppendIsConcat DEF Understood
<1> QED  BY <1>1 DEF Extends

LEMMA NothingTold ==
  ASSUME NEW p \in Understood, NEW q \in Understood, q.interim = p.interim
  PROVE  Extends(p, q)
<1>1. q.interim = p.interim \o <<>> /\ <<>> \in Seq(LiveEvent)
  BY ConcatEmptySeq, EmptySeq DEF Understood
<1> QED  BY <1>1 DEF Extends

LEMMA ToldBefore ==
  ASSUME NEW p \in Understood, NEW q \in Understood, NEW r \in Understood, Extends(p, q), Extends(q, r)
  PROVE  Extends(p, r)
<1>1. PICK a \in Seq(LiveEvent) : q.interim = p.interim \o a
  BY DEF Extends
<1>2. PICK b \in Seq(LiveEvent) : r.interim = q.interim \o b
  BY DEF Extends
<1>3. r.interim = p.interim \o (a \o b) /\ a \o b \in Seq(LiveEvent)
  <2> DEFINE s == p.interim
  <2>1. s \in Seq(LiveEvent)
    BY DEF Understood
  <2> HIDE DEF s
  <2>2. (s \o a) \o b = s \o (a \o b)
    BY <2>1, ConcatAssociative
  <2>3. a \o b \in Seq(LiveEvent)
    BY ConcatProperties
  <2> QED  BY <1>1, <1>2, <2>2, <2>3 DEF s
<1> QED  BY <1>3 DEF Extends

LEMMA FoldedLine ==
  ASSUME NEW p \in Understood, NEW l \in Seq(Half)
  PROVE  /\ foldLine(p, l) \in Understood /\ Extends(p, foldLine(p, l))
         /\ Succeeds(foldLine(p, l)) =>
              Succeeds(p) \/ (IsEvent(l) /\ l[1].event.type = "result" /\ l[1].event.ok)
<1>1. CASE ~IsEvent(l)
  BY <1>1, NothingTold DEF foldLine
<1>2. CASE IsEvent(l)
  <2> DEFINE e == l[1].event
             s == Sessioned(p, e)
  <2>1. e \in Event
    <3>1. l[1] \in Half
      BY <1>2, LenProperties, ElementOfSeq DEF IsEvent
    <3> QED  BY <3>1 DEF Half
  <2>2. /\ s \in Understood /\ s.turn.success = p.turn.success
        /\ Extends(p, s)
    BY <2>1, SessionedTyped, NothingTold, OneMoreTold
  <2>3. foldLine(p, l) = CASE e.type \in {"assistant", "user"} -> Block(s, e.block)
             [] e.type = "result" -> Result(s, e)
             [] e.type \in {"system", "other"} -> s
    BY <1>2 DEF foldLine
  <2> HIDE DEF e, s
  <2>4. CASE e.type \in {"assistant", "user"}
    <3>1. e.block.kind \in {"text", "tool_use", "tool_result"}
      BY <2>1, <2>4, EventAssumption
    <3>2. foldLine(p, l) = Block(s, e.block)
      BY <2>3, <2>4
    <3>3. /\ foldLine(p, l) \in Understood /\ foldLine(p, l).turn.success = p.turn.success
          /\ Extends(s, foldLine(p, l))
      BY <2>1, <2>2, <3>1, <3>2, BlockTyped, OneMoreTold
    <3> QED  BY <2>2, <3>3, ToldBefore DEF Succeeds
  <2>5. CASE e.type = "result"
    <3>1. foldLine(p, l) = Result(s, e)
      BY <2>3, <2>5
    <3>2. /\ Result(s, e) \in Understood /\ Result(s, e).interim = s.interim
          /\ Result(s, e).turn.success = e.ok
      BY <2>1, <2>2 DEF Result, Understood, Outcome
    <3>3. Extends(p, foldLine(p, l))
      BY <2>2, <3>1, <3>2, NothingTold, ToldBefore
    <3>4. Succeeds(foldLine(p, l)) => e.ok
      BY <3>1, <3>2 DEF Succeeds
    <3> QED  BY <1>2, <2>5, <3>1, <3>2, <3>3, <3>4 DEF e
  <2>6. CASE e.type \in {"system", "other"}
    <3>1. foldLine(p, l) = s
      BY <2>3, <2>6
    <3> QED  BY <2>2, <3>1 DEF Succeeds
  <2> QED  BY <2>1, <2>4, <2>5, <2>6, EventAssumption
<1> QED  BY <1>1, <1>2

\* Where the line begins that holds symbol i of the text: after the last NL.
BeginsAfter(text, i, s) ==
  /\ s \in 0 .. i - 1 /\ (s = 0 \/ text[s] = NL)
  /\ \A j \in s + 1 .. i - 1 : text[j] # NL

LEMMA LineStarts ==
  ASSUME NEW text, NEW i \in Nat \ {0}
  PROVE  BeginsAfter(text, i, LineStart(text, i))
<1> DEFINE J == {j \in 1 .. i - 1 : text[j] = NL}
           s == CHOOSE j \in J : \A k \in J : k <= j
<1>1. CASE J = {}
  <2>1. LineStart(text, i) = 0
    BY <1>1 DEF LineStart
  <2> QED  BY <1>1, <2>1 DEF BeginsAfter
<1>2. CASE J # {}
  <2>1. J \in SUBSET (0 .. i - 1) /\ i - 1 \in Nat
    OBVIOUS
  <2>2. \E j \in J : \A k \in J : k <= j
    <3> HIDE DEF J
    <3> QED  BY <1>2, <2>1, Greatest
  <2>3. s \in J /\ \A k \in J : k <= s
    <3> HIDE DEF J
    <3> QED  BY <2>2
  <2>4. LineStart(text, i) = s
    BY <1>2 DEF LineStart
  <2> HIDE DEF s
  <2>5. \A j \in s + 1 .. i - 1 : text[j] # NL
    <3> SUFFICES ASSUME NEW j \in s + 1 .. i - 1, text[j] = NL PROVE FALSE
      OBVIOUS
    <3>1. j \in J /\ ~(j <= s)
      BY <2>3
    <3> QED  BY <2>3, <3>1
  <2> QED  BY <2>3, <2>4, <2>5 DEF BeginsAfter
<1> QED  BY <1>1, <1>2

\* There is one such place.
LEMMA OneStart ==
  ASSUME NEW text, NEW i \in Nat \ {0}, NEW s, BeginsAfter(text, i, s)
  PROVE  LineStart(text, i) = s
<1> DEFINE t == LineStart(text, i)
<1>1. BeginsAfter(text, i, t)
  BY LineStarts
<1> HIDE DEF t
<1>2. s \in 0 .. i - 1 /\ t \in 0 .. i - 1
  BY <1>1 DEF BeginsAfter
<1>3. ~(s < t)
  <2> SUFFICES ASSUME s < t PROVE FALSE
    OBVIOUS
  <2>1. t \in s + 1 .. i - 1 /\ text[t] = NL
    BY <1>1, <1>2 DEF BeginsAfter
  <2> QED  BY <2>1 DEF BeginsAfter
<1>4. ~(t < s)
  <2> SUFFICES ASSUME t < s PROVE FALSE
    OBVIOUS
  <2>1. s \in t + 1 .. i - 1 /\ text[s] = NL
    BY <1>2 DEF BeginsAfter
  <2> QED  BY <1>1, <2>1 DEF BeginsAfter
<1> QED  BY <1>2, <1>3, <1>4 DEF t

\* A line is what lies between, and has no NL.
LEMMA LineIs ==
  ASSUME NEW text \in Seq(Symbol), NEW i \in 1 .. Len(text) + 1
  PROVE  LET s == LineStart(text, i)
             l == Line(text, i)
         IN  /\ s \in 0 .. i - 1 /\ l \in Seq(Half) /\ Len(l) = i - 1 - s
             /\ \A j \in 1 .. i - 1 - s : l[j] = text[s + j] /\ text[s + j] # NL
<1> DEFINE s == LineStart(text, i)
           l == Line(text, i)
<1>0. Len(text) \in Nat /\ \A j \in 1 .. Len(text) : text[j] \in Symbol
  BY LenProperties, ElementOfSeq
<1>1. BeginsAfter(text, i, s)
  BY <1>0, LineStarts
<1>2. l = SubSeq(text, s + 1, i - 1)
  BY DEF Line
<1> HIDE DEF s, l
<1>3. s \in 0 .. i - 1 /\ \A j \in s + 1 .. i - 1 : text[j] # NL
  BY <1>1 DEF BeginsAfter
<1>4. s + 1 \in Int /\ i - 1 \in Int /\ \A j \in s + 1 .. i - 1 : text[j] \in Half
  BY <1>0, <1>3 DEF Symbol
<1>5. /\ l \in Seq(Half) /\ Len(l) = IF s + 1 <= i - 1 THEN (i - 1) - (s + 1) + 1 ELSE 0
      /\ \A j \in 1 .. (i - 1) - (s + 1) + 1 : l[j] = text[(s + 1) + j - 1]
  BY <1>2, <1>4, SubSeqProperties
<1>6. Len(l) = i - 1 - s
  BY <1>3, <1>5
<1>7. ASSUME NEW j \in 1 .. i - 1 - s PROVE l[j] = text[s + j] /\ text[s + j] # NL
  <2>1. j \in 1 .. (i - 1) - (s + 1) + 1 /\ (s + 1) + j - 1 = s + j /\ s + j \in s + 1 .. i - 1
    BY <1>3
  <2> QED  BY <1>3, <1>5, <2>1
<1> QED  BY <1>3, <1>5, <1>6, <1>7 DEF s, l

LEMMA UnderstoodStepByStep ==
  ASSUME NEW p \in Understood, NEW n \in Nat, NEW F \in [Understood \X (1 .. n) -> Understood]
  PROVE  \E g \in [0 .. n -> Understood] : g[0] = p /\ \A i \in 1 .. n : g[i] = F[<<g[i - 1], i>>]
<1>1. PICK U : U = Understood
  OBVIOUS
<1>2. p \in U /\ F \in [U \X (1 .. n) -> U]
  BY <1>1
<1>3. PICK g \in [0 .. n -> U] : Follows(g, p, F, n)
  BY <1>2, StepByStep DEF StepOf
<1> QED  BY <1>1, <1>3 DEF Follows

\* The fold of a text, line by line.
LEMMA FoldedIs ==
  ASSUME NEW p \in Understood, NEW text \in Seq(Symbol)
  PROVE  LET f == Folded(p, text) IN
         /\ f \in [0 .. Len(text) -> Understood] /\ f[0] = p
         /\ \A i \in 1 .. Len(text) :
              f[i] = IF text[i] = NL THEN foldLine(f[i - 1], Line(text, i)) ELSE f[i - 1]
<1> DEFINE N == Len(text)
           Next1(q, i) == IF text[i] = NL THEN foldLine(q, Line(text, i)) ELSE q
           F == [x \in Understood \X (1 .. N) |-> Next1(x[1], x[2])]
           Body(g) == [i \in 0 .. N |-> IF i = 0 THEN p ELSE Next1(g[i - 1], i)]
           f == CHOOSE g : g = Body(g)
<1>0. N \in Nat
  BY LenProperties
<1>1. ASSUME NEW q \in Understood, NEW i \in 1 .. N PROVE Next1(q, i) \in Understood
  <2>1. Line(text, i) \in Seq(Half)
    BY <1>0, LineIs
  <2> QED  BY <2>1, FoldedLine
<1>2. F \in [Understood \X (1 .. N) -> Understood]
  <2> HIDE DEF Next1
  <2> QED  BY <1>1
<1>3. ASSUME NEW q \in Understood, NEW i \in 1 .. N PROVE F[<<q, i>>] = Next1(q, i)
  <2> HIDE DEF Next1
  <2> QED  OBVIOUS
<1> HIDE DEF F, Next1, N
<1>4. PICK g \in [0 .. N -> Understood] : g[0] = p /\ \A i \in 1 .. N : g[i] = F[<<g[i - 1], i>>]
  <2> HIDE DEF Body, f
  <2> QED  BY <1>0, <1>2, UnderstoodStepByStep
<1>5. g = Body(g)
  <2>1. ASSUME NEW i \in 1 .. N PROVE g[i] = Next1(g[i - 1], i)
    <3>1. i - 1 \in 0 .. N
      BY <1>0
    <3>2. g[i - 1] \in Understood
      BY <1>4, <3>1
    <3> QED  BY <1>3, <1>4, <3>2
  <2>2. \A i \in 0 .. N : g[i] = IF i = 0 THEN p ELSE Next1(g[i - 1], i)
    BY <1>0, <1>4, <2>1
  <2> QED  BY <1>4, <2>2
<1>6. f = Body(f)
  BY <1>5
<1>7. Folded(p, text) = f
  BY DEF Folded, Next1, N
<1> HIDE DEF f
<1>8. f[0] = p /\ \A i \in 1 .. N : f[i] = Next1(f[i - 1], i)
  BY <1>0, <1>6
<1> DEFINE L == {n \in Nat : n <= N => f[n] \in Understood}
<1>9. Nat \subseteq L
  <2>1. 0 \in L
    BY <1>8
  <2>2. ASSUME NEW n \in Nat, n \in L PROVE n + 1 \in L
    <3> SUFFICES ASSUME n + 1 <= N PROVE f[n + 1] \in Understood
      OBVIOUS
    <3>1. n + 1 \in 1 .. N /\ (n + 1) - 1 = n /\ f[n] \in Understood
      BY <1>0, <2>2
    <3>2. f[n + 1] = Next1(f[n], n + 1)
      BY <1>8, <3>1
    <3> QED  BY <1>1, <3>1, <3>2
  <2> HIDE DEF L
  <2> QED  BY <1>0, <2>1, <2>2, AllNumbers
<1>10. f \in [0 .. N -> Understood]
  <2>1. \A i \in 0 .. N : f[i] \in Understood
    BY <1>0, <1>9
  <2>2. f = [i \in 0 .. N |-> f[i]]
    BY <1>6
  <2> QED  BY <2>1, <2>2
<1> QED  BY <1>7, <1>8, <1>10 DEF N, Next1

\* Lines of equal symbols that begin at corresponding places are equal.
LEMMA SameLine ==
  ASSUME NEW s \in Seq(Symbol), NEW t \in Seq(Symbol), NEW k \in Nat,
         NEW i \in 1 .. Len(s) + 1, k + i \in 1 .. Len(t) + 1,
         \A j \in 1 .. i - 1 : t[k + j] = s[j],
         LineStart(t, k + i) = k + LineStart(s, i)
  PROVE  Line(t, k + i) = Line(s, i)
<1> DEFINE a == LineStart(s, i)
           l == Line(s, i)
           m == Line(t, k + i)
<1>0. Len(s) \in Nat /\ Len(t) \in Nat
  BY LenProperties
<1>1. /\ a \in 0 .. i - 1 /\ l \in Seq(Half) /\ Len(l) = i - 1 - a
      /\ \A j \in 1 .. i - 1 - a : l[j] = s[a + j]
  BY LineIs
<1>2. /\ m \in Seq(Half) /\ Len(m) = k + i - 1 - (k + a)
      /\ \A j \in 1 .. k + i - 1 - (k + a) : m[j] = t[(k + a) + j]
  <2> DEFINE n == k + i
             b == LineStart(t, n)
  <2>1. n \in 1 .. Len(t) + 1
    OBVIOUS
  <2> HIDE DEF n
  <2>2. Line(t, n) \in Seq(Half) /\ Len(Line(t, n)) = n - 1 - b /\ \A j \in 1 .. n - 1 - b : Line(t, n)[j] = t[b + j]
    BY <2>1, LineIs
  <2>3. b = k + a
    BY DEF n
  <2> HIDE DEF b, a
  <2> QED  BY <2>2, <2>3 DEF n
<1> HIDE DEF a, l, m
<1>3. Len(m) = Len(l)
  BY <1>0, <1>1, <1>2
<1>4. ASSUME NEW j \in 1 .. Len(m) PROVE m[j] = l[j]
  <2>1. j \in 1 .. i - 1 - a /\ j \in 1 .. k + i - 1 - (k + a) /\ (k + a) + j = k + (a + j) /\ a + j \in 1 .. i - 1
    BY <1>0, <1>1, <1>2
  <2>2. m[j] = t[k + (a + j)] /\ l[j] = s[a + j]
    BY <1>1, <1>2, <2>1
  <2> QED  BY <2>1, <2>2
<1>5. m = l
  BY <1>1, <1>2, <1>3, <1>4, SeqEqual
<1> QED  BY <1>5 DEF l, m

\* To read s, then c behind what s has left, is to read both at once.
LEMMA ReadInTwo ==
  ASSUME NEW p \in Understood, NEW s \in Seq(Symbol), NEW c \in Seq(Symbol)
  PROVE  LET t == s \o c
             u == Rest(s) \o c
         IN  Drained(Drained(p, s), u) = Drained(p, t) /\ Rest(u) = Rest(t)
<1> DEFINE t == s \o c
           r == Rest(s)
           u == r \o c
           k == LineStart(s, Len(s) + 1)
<1>1. /\ Len(s) \in Nat /\ Len(c) \in Nat
      /\ t \in Seq(Symbol) /\ Len(t) = Len(s) + Len(c)
      /\ \A i \in 1 .. Len(s) + Len(c) : t[i] = IF i <= Len(s) THEN s[i] ELSE c[i - Len(s)]
  BY LenProperties, ConcatProperties
<1>2. /\ k \in 0 .. Len(s) /\ r \in Seq(Half) /\ Len(r) = Len(s) - k
      /\ \A j \in 1 .. Len(s) - k : r[j] = s[k + j] /\ s[k + j] # NL
  <2>1. Len(s) + 1 \in 1 .. Len(s) + 1 /\ (Len(s) + 1) - 1 = Len(s)
    BY <1>1
  <2> QED  BY <2>1, LineIs DEF Rest
<1>3. k = 0 \/ s[k] = NL
  <2>1. BeginsAfter(s, Len(s) + 1, k)
    BY <1>1, LineStarts
  <2> QED  BY <2>1 DEF BeginsAfter
<1>4. r \in Seq(Symbol)
  BY <1>2, SeqMonotonic DEF Symbol
<1>5. /\ u \in Seq(Symbol) /\ Len(u) = Len(r) + Len(c)
      /\ \A i \in 1 .. Len(r) + Len(c) : u[i] = IF i <= Len(r) THEN r[i] ELSE c[i - Len(r)]
  BY <1>4, ConcatProperties
<1> HIDE DEF t, r, u, k
<1>6. Len(u) = Len(t) - k /\ \A j \in 1 .. Len(u) : u[j] = t[k + j]
  <2>1. Len(u) = Len(t) - k
    BY <1>1, <1>2, <1>5
  <2>2. ASSUME NEW j \in 1 .. Len(u) PROVE u[j] = t[k + j]
    <3>1. j \in 1 .. Len(r) + Len(c) /\ k + j \in 1 .. Len(s) + Len(c)
      BY <1>1, <1>2, <1>5
    <3>2. CASE j <= Len(r)
      <4>1. j \in 1 .. Len(s) - k /\ k + j <= Len(s)
        BY <1>1, <1>2, <3>2
      <4> QED  BY <1>1, <1>2, <1>5, <3>1, <3>2, <4>1
    <3>3. CASE ~(j <= Len(r))
      <4>1. ~(k + j <= Len(s)) /\ (k + j) - Len(s) = j - Len(r)
        BY <1>1, <1>2, <3>3
      <4> QED  BY <1>1, <1>5, <3>1, <3>3, <4>1
    <3> QED  BY <3>2, <3>3
  <2> QED  BY <2>1, <2>2
<1>7. \A i \in 1 .. Len(s) : t[i] = s[i]
  BY <1>1
<1>8. ASSUME NEW i \in 1 .. Len(s) + 1 PROVE LineStart(t, i) = LineStart(s, i)
  <2> DEFINE a == LineStart(s, i)
  <2>0. i \in Nat \ {0}
    BY <1>1
  <2>1. BeginsAfter(s, i, a)
    BY <2>0, LineStarts
  <2> HIDE DEF a
  <2>2. BeginsAfter(t, i, a)
    BY <1>1, <1>7, <2>1 DEF BeginsAfter
  <2> QED  BY <2>0, <2>2, OneStart DEF a
<1>9. ASSUME NEW i \in 1 .. Len(s) PROVE Line(t, i) = Line(s, i)
  <2>0. PICK z \in Nat : z = 0
    OBVIOUS
  <2>1. z + i = i /\ i \in 1 .. Len(s) + 1 /\ z + i \in 1 .. Len(t) + 1
    BY <1>1, <2>0
  <2>2. \A j \in 1 .. i - 1 : t[z + j] = s[j]
    BY <1>1, <1>7, <2>0
  <2>3. LineStart(s, i) \in Nat
    BY <2>1, LineIs
  <2>4. LineStart(t, z + i) = z + LineStart(s, i)
    BY <1>8, <2>0, <2>1, <2>3
  <2>5. Line(t, z + i) = Line(s, i)
    BY <1>1, <2>1, <2>2, <2>4, SameLine
  <2> QED  BY <2>1, <2>5
<1>10. ASSUME NEW j \in 1 .. Len(u) + 1 PROVE LineStart(t, k + j) = k + LineStart(u, j)
  <2> DEFINE a == LineStart(u, j)
  <2>0. j \in Nat \ {0} /\ k + j \in Nat \ {0} /\ Len(u) \in Nat /\ k \in Nat
    BY <1>1, <1>2, <1>6
  <2>1. BeginsAfter(u, j, a)
    BY <2>0, LineStarts
  <2> HIDE DEF a
  <2>2. a \in 0 .. j - 1 /\ (a = 0 \/ u[a] = NL) /\ \A i \in a + 1 .. j - 1 : u[i] # NL
    BY <2>1 DEF BeginsAfter
  <2>3. k + a \in 0 .. (k + j) - 1
    BY <2>0, <2>2
  <2>4. k + a = 0 \/ t[k + a] = NL
    <3>1. CASE a = 0
      <4>1. k = 0 \/ k \in 1 .. Len(s)
        BY <1>1, <1>2
      <4> QED  BY <1>3, <1>7, <2>0, <3>1, <4>1
    <3>2. CASE a # 0
      <4>1. a \in 1 .. Len(u)
        BY <2>0, <2>2, <3>2
      <4> QED  BY <1>6, <2>2, <3>2, <4>1
    <3> QED  BY <3>1, <3>2
  <2>5. ASSUME NEW i \in (k + a) + 1 .. (k + j) - 1 PROVE t[i] # NL
    <3>1. i - k \in a + 1 .. j - 1 /\ i - k \in 1 .. Len(u) /\ k + (i - k) = i
      BY <2>0, <2>2
    <3>2. u[i - k] = t[k + (i - k)]
      BY <1>6, <3>1
    <3> QED  BY <2>2, <3>1, <3>2
  <2>6. BeginsAfter(t, k + j, k + a)
    BY <2>3, <2>4, <2>5 DEF BeginsAfter
  <2> QED  BY <2>0, <2>6, OneStart DEF a
<1>11. ASSUME NEW j \in 1 .. Len(u) + 1 PROVE Line(t, k + j) = Line(u, j)
  <2>1. k \in Nat /\ k + j \in 1 .. Len(t) + 1
    BY <1>1, <1>2, <1>6
  <2>2. \A i \in 1 .. j - 1 : t[k + i] = u[i]
    BY <1>1, <1>2, <1>6
  <2> QED  BY <1>1, <1>5, <1>10, <2>1, <2>2, SameLine
<1>12. Rest(u) = Rest(t)
  <2>1. Len(u) + 1 \in 1 .. Len(u) + 1 /\ k + (Len(u) + 1) = Len(t) + 1
    BY <1>1, <1>2, <1>6
  <2> QED  BY <1>11, <2>1 DEF Rest
<1> DEFINE f == Folded(p, t)
           h == Folded(p, s)
           q == h[Len(s)]
           g == Folded(q, u)
<1>13. /\ f \in [0 .. Len(t) -> Understood] /\ f[0] = p
       /\ \A i \in 1 .. Len(t) : f[i] = IF t[i] = NL THEN foldLine(f[i - 1], Line(t, i)) ELSE f[i - 1]
  BY <1>1, FoldedIs
<1>14. /\ h \in [0 .. Len(s) -> Understood] /\ h[0] = p
       /\ \A i \in 1 .. Len(s) : h[i] = IF s[i] = NL THEN foldLine(h[i - 1], Line(s, i)) ELSE h[i - 1]
  BY FoldedIs
<1>15. q \in Understood
  <2>1. Len(s) \in 0 .. Len(s)
    BY <1>1
  <2> QED  BY <1>14, <2>1
<1>16. /\ g[0] = q
       /\ \A i \in 1 .. Len(u) : g[i] = IF u[i] = NL THEN foldLine(g[i - 1], Line(u, i)) ELSE g[i - 1]
  <2> HIDE DEF q
  <2> QED  BY <1>5, <1>15, FoldedIs
<1> HIDE DEF f, h, q, g
<1>17. \A n \in Nat : n <= Len(s) => f[n] = h[n]
  <2> DEFINE S == {n \in Nat : n <= Len(s) => f[n] = h[n]}
  <2>1. 0 \in S
    BY <1>13, <1>14
  <2>2. ASSUME NEW n \in Nat, n \in S PROVE n + 1 \in S
    <3> SUFFICES ASSUME n + 1 <= Len(s) PROVE f[n + 1] = h[n + 1]
      OBVIOUS
    <3>1. n + 1 \in 1 .. Len(s) /\ n + 1 \in 1 .. Len(t) /\ (n + 1) - 1 = n /\ f[n] = h[n]
      BY <1>1, <2>2
    <3>2. t[n + 1] = s[n + 1] /\ Line(t, n + 1) = Line(s, n + 1)
      BY <1>7, <1>9, <3>1
    <3> QED  BY <1>13, <1>14, <3>1, <3>2
  <2> HIDE DEF S
  <2>3. Nat \subseteq S
    BY <2>1, <2>2, AllNumbers
  <2> QED  BY <2>3 DEF S
<1>18. \A n \in Nat : n <= Len(s) - k => f[k + n] = f[k]
  <2> DEFINE S == {n \in Nat : n <= Len(s) - k => f[k + n] = f[k]}
  <2>1. 0 \in S
    BY <1>1, <1>2
  <2>2. ASSUME NEW n \in Nat, n \in S PROVE n + 1 \in S
    <3> SUFFICES ASSUME n + 1 <= Len(s) - k PROVE f[k + (n + 1)] = f[k]
      OBVIOUS
    <3>1. /\ n + 1 \in 1 .. Len(s) - k /\ k + (n + 1) \in 1 .. Len(s) /\ k + (n + 1) \in 1 .. Len(t)
          /\ (k + (n + 1)) - 1 = k + n /\ f[k + n] = f[k]
      BY <1>1, <1>2, <2>2
    <3>2. t[k + (n + 1)] # NL
      BY <1>2, <1>7, <3>1
    <3> QED  BY <1>13, <3>1, <3>2
  <2> HIDE DEF S
  <2>3. Nat \subseteq S
    BY <2>1, <2>2, AllNumbers
  <2> QED  BY <2>3 DEF S
<1>19. q = f[k]
  <2>1. Len(s) - k \in Nat /\ k + (Len(s) - k) = Len(s)
    BY <1>1, <1>2
  <2>2. f[Len(s)] = f[k]
    BY <1>18, <2>1
  <2> QED  BY <1>1, <1>17, <2>2 DEF q
<1>20. Len(u) \in Nat /\ k + Len(u) = Len(t) /\ k \in Nat
  BY <1>1, <1>2, <1>6
<1>21. \A n \in Nat : n <= Len(u) => g[n] = f[k + n]
  <2> DEFINE S == {n \in Nat : n <= Len(u) => g[n] = f[k + n]}
  <2>1. 0 \in S
    BY <1>2, <1>16, <1>19
  <2>2. ASSUME NEW n \in Nat, n \in S PROVE n + 1 \in S
    <3> SUFFICES ASSUME n + 1 <= Len(u) PROVE g[n + 1] = f[k + (n + 1)]
      OBVIOUS
    <3>1. /\ n + 1 \in 1 .. Len(u) /\ n + 1 \in 1 .. Len(u) + 1 /\ k + (n + 1) \in 1 .. Len(t)
          /\ (n + 1) - 1 = n /\ (k + (n + 1)) - 1 = k + n
      BY <1>20
    <3>0. g[n] = f[k + n]
      BY <1>20, <2>2
    <3>2. u[n + 1] = t[k + (n + 1)] /\ Line(t, k + (n + 1)) = Line(u, n + 1)
      BY <1>6, <1>11, <3>1
    <3> QED  BY <1>13, <1>16, <3>0, <3>1, <3>2
  <2> HIDE DEF S
  <2>3. Nat \subseteq S
    BY <2>1, <2>2, AllNumbers
  <2> QED  BY <2>3 DEF S
<1>22. g[Len(u)] = f[Len(t)]
  BY <1>20, <1>21
<1> QED  BY <1>12, <1>22 DEF Drained, f, g, h, q, t, u, r

\* A whole result is among the first m symbols.
WholeResult(text, m) ==
  \E i \in 1 .. m - 1 :
    /\ NL \notin {text[i], text[i + 1]} /\ IsEvent(SubSeq(text, i, i + 1))
    /\ text[i].event.type = "result" /\ text[i].event.ok

LEMMA ResultLine ==
  ASSUME NEW text \in Seq(Symbol), NEW n \in 1 .. Len(text) + 1,
         LET l == Line(text, n) IN IsEvent(l) /\ l[1].event.type = "result" /\ l[1].event.ok
  PROVE  WholeResult(text, n - 1)
<1> DEFINE l == Line(text, n)
           s == LineStart(text, n)
           e == SubSeq(text, s + 1, (s + 1) + 1)
<1>0. Len(text) \in Nat /\ \A j \in 1 .. Len(text) : text[j] \in Symbol
  BY LenProperties, ElementOfSeq
<1>1. /\ s \in 0 .. n - 1 /\ l \in Seq(Half) /\ Len(l) = n - 1 - s
      /\ \A j \in 1 .. n - 1 - s : l[j] = text[s + j] /\ text[s + j] # NL
  BY LineIs
<1>2. IsEvent(l) /\ l[1].event.type = "result" /\ l[1].event.ok
  OBVIOUS
<1> HIDE DEF l, s
<1>3. Len(l) = 2 /\ l[1].event = l[2].event /\ l[1].half = 1 /\ l[2].half = 2
  BY <1>2 DEF IsEvent
<1>4. s \in Nat /\ n = s + 3 /\ 1 \in 1 .. n - 1 - s /\ 2 \in 1 .. n - 1 - s /\ (s + 1) + 1 = s + 2
  <2>1. n \in Nat /\ s \in Nat
    BY <1>0, <1>1
  <2>2. Len(l) = n - 1 - s /\ Len(l) = 2
    BY <1>1, <1>3
  <2>3. n - 1 - s = 2
    BY <2>2
  <2>4. n = s + 3
    BY <2>1, <2>3
  <2> QED  BY <2>1, <2>3, <2>4
<1>5. l[1] = text[s + 1] /\ l[2] = text[s + 2] /\ text[s + 1] # NL /\ text[s + 2] # NL
  BY <1>1, <1>4
<1>6. Len(e) = 2 /\ e[1] = text[s + 1] /\ e[2] = text[s + 2]
  <2>1. s + 1 \in Int /\ (s + 1) + 1 \in Int /\ \A j \in s + 1 .. (s + 1) + 1 : text[j] \in Symbol
    BY <1>0, <1>4
  <2>2. /\ Len(e) = IF s + 1 <= (s + 1) + 1 THEN ((s + 1) + 1) - (s + 1) + 1 ELSE 0
        /\ \A j \in 1 .. ((s + 1) + 1) - (s + 1) + 1 : e[j] = text[(s + 1) + j - 1]
    BY <2>1, SubSeqProperties
  <2>3. 1 \in 1 .. ((s + 1) + 1) - (s + 1) + 1 /\ 2 \in 1 .. ((s + 1) + 1) - (s + 1) + 1
    BY <1>4
  <2>4. (s + 1) + 1 - 1 = s + 1 /\ (s + 1) + 2 - 1 = s + 2
    BY <1>4
  <2> HIDE DEF e
  <2>5. Len(e) = 2
    BY <1>4, <2>2
  <2>6. e[1] = text[(s + 1) + 1 - 1] /\ e[2] = text[(s + 1) + 2 - 1]
    BY <2>2, <2>3
  <2> QED  BY <2>4, <2>5, <2>6
<1>7. IsEvent(e)
  BY <1>3, <1>5, <1>6 DEF IsEvent
<1>8. s + 1 \in 1 .. (n - 1) - 1
  BY <1>4
<1> QED  BY <1>2, <1>4, <1>5, <1>7, <1>8 DEF WholeResult

LEMMA SuccessIsWhole ==
  ASSUME NEW text \in Seq(Symbol)
  PROVE  /\ Succeeds(Drained(Unparsed, text)) => WholeResult(text, Len(text))
         /\ Succeeds(parseStreamJson(text)) => WholeResult(text, Len(text))
<1> DEFINE f == Folded(Unparsed, text)
           S == {n \in Nat : n <= Len(text) /\ Succeeds(f[n]) => WholeResult(text, n)}
<1>0. Len(text) \in Nat
  BY LenProperties
<1>1. /\ f \in [0 .. Len(text) -> Understood] /\ f[0] = Unparsed
      /\ \A i \in 1 .. Len(text) : f[i] = IF text[i] = NL THEN foldLine(f[i - 1], Line(text, i)) ELSE f[i - 1]
  BY UnparsedTyped, FoldedIs
<1> HIDE DEF f
<1>2. \A m, n \in Nat : m <= n /\ WholeResult(text, m) => WholeResult(text, n)
  BY DEF WholeResult
<1>3. ASSUME NEW q \in Understood, NEW n \in 1 .. Len(text) + 1, Succeeds(foldLine(q, Line(text, n)))
      PROVE  Succeeds(q) \/ WholeResult(text, n - 1)
  <2> DEFINE l == Line(text, n)
  <2>1. l \in Seq(Half)
    BY LineIs
  <2>2. Succeeds(q) \/ (IsEvent(l) /\ l[1].event.type = "result" /\ l[1].event.ok)
    BY <1>3, <2>1, FoldedLine
  <2> QED  BY <2>2, ResultLine
<1>4. 0 \in S
  <2>1. ~Succeeds(Unparsed) \/ WholeResult(text, 0)
    <3>1. ~(Absent = TRUE)
      BY AbsentAssumption
    <3> QED  BY <3>1 DEF Succeeds, Unparsed, NoTurn
  <2> QED  BY <1>1, <2>1
<1>5. ASSUME NEW n \in Nat, n \in S PROVE n + 1 \in S
  <2> SUFFICES ASSUME n + 1 <= Len(text), Succeeds(f[n + 1]) PROVE WholeResult(text, n + 1)
    OBVIOUS
  <2>1. n + 1 \in 1 .. Len(text) /\ (n + 1) - 1 = n /\ n + 1 \in 1 .. Len(text) + 1 /\ n \in 0 .. Len(text)
    BY <1>0
  <2>2. Succeeds(f[n]) => WholeResult(text, n)
    BY <1>5, <2>1
  <2>3. Succeeds(f[n]) \/ WholeResult(text, n)
    <3>1. f[n + 1] = IF text[n + 1] = NL THEN foldLine(f[n], Line(text, n + 1)) ELSE f[n]
      BY <1>1, <2>1
    <3>2. f[n] \in Understood
      BY <1>1, <2>1
    <3> QED  BY <1>3, <2>1, <3>1, <3>2
  <2> QED  BY <1>2, <2>2, <2>3
<1>6. Nat \subseteq S
  <2> HIDE DEF S
  <2> QED  BY <1>4, <1>5, AllNumbers
<1>7. Succeeds(f[Len(text)]) => WholeResult(text, Len(text))
  BY <1>0, <1>6
<1>8. Succeeds(parseStreamJson(text)) => WholeResult(text, Len(text))
  <2>1. f[Len(text)] \in Understood /\ Len(text) + 1 \in 1 .. Len(text) + 1 /\ (Len(text) + 1) - 1 = Len(text)
    BY <1>0, <1>1
  <2>2. parseStreamJson(text) = foldLine(f[Len(text)], Line(text, Len(text) + 1))
    BY DEF parseStreamJson, Drained, Rest, f
  <2> QED  BY <1>3, <1>7, <2>1, <2>2
<1> QED  BY <1>7, <1>8 DEF Drained, f

\* What was told earlier is the first part of what is told.
LEMMA FirstPart ==
  ASSUME NEW p \in Understood, NEW q \in Understood, Extends(p, q)
  PROVE  \E n \in 0 .. Len(q.interim) : p.interim = SubSeq(q.interim, 1, n)
<1>1. PICK more \in Seq(LiveEvent) : q.interim = p.interim \o more
  BY DEF Extends
<1> DEFINE s == p.interim
<1>2. s \in Seq(LiveEvent)
  BY DEF Understood
<1> HIDE DEF s
<1>3. Len(s) \in Nat /\ Len(more) \in Nat /\ Len(s \o more) = Len(s) + Len(more)
  BY <1>2, LenProperties, ConcatProperties
<1>4. SubSeq(s \o more, 1, Len(s)) = s
  <2>1. CASE Len(s) = 0
    <3>1. s = <<>>
      BY <1>2, <2>1, EmptySeq
    <3>2. SubSeq(s \o more, 1, 0) = <<>>
      BY SubSeqEmpty
    <3> QED  BY <2>1, <3>1, <3>2
  <2>2. CASE Len(s) # 0
    <3>1. 1 \in 1 .. Len(s) /\ Len(s) \in 1 .. Len(s)
      BY <1>3, <2>2
    <3>2. SubSeq(s \o more, 1, Len(s)) = SubSeq(s, 1, Len(s))
      BY <1>2, <3>1, SubSeqOfConcat1
    <3> QED  BY <1>2, <3>2, SubSeqFull
  <2> QED  BY <2>1, <2>2
<1>5. Len(s) \in 0 .. Len(s \o more)
  BY <1>3
<1> QED  BY <1>1, <1>4, <1>5 DEF s

\* What was read, and what is made of it.
ReadText == SubSeq(output, 1, read)
StreamInv ==
  /\ output \in Output /\ read \in 0 .. Len(output)
  /\ ~closed => parsed = Drained(Unparsed, ReadText) /\ buf = Rest(ReadText)
  /\ closed => parsed = parseStreamJson(ReadText)

LEMMA TextTyped ==
  ASSUME NEW o \in Output, NEW m \in Nat \ {0}, NEW n \in 0 .. Len(o)
  PROVE  /\ o \in Seq(Symbol) /\ Len(o) \in Nat /\ SubSeq(o, m, n) \in Seq(Symbol)
         /\ Len(SubSeq(o, m, n)) = IF m <= n THEN n - m + 1 ELSE 0
<1>1. o \in Seq(Symbol)
  BY OutputAssumption DEF Symbol
<1>2. Len(o) \in Nat /\ \A j \in 1 .. Len(o) : o[j] \in Symbol
  BY <1>1, LenProperties, ElementOfSeq
<1>3. m \in Int /\ n \in Int /\ \A j \in m .. n : o[j] \in Symbol
  BY <1>2
<1> QED  BY <1>1, <1>2, <1>3, SubSeqProperties

LEMMA StreamInitial == StreamInit => StreamInv
<1> SUFFICES ASSUME StreamInit PROVE StreamInv
  OBVIOUS
<1>1. output \in Output /\ read = 0 /\ buf = <<>> /\ parsed = Unparsed /\ closed = FALSE
  BY DEF StreamInit, Unread
<1>2. ReadText = <<>>
  BY <1>1, SubSeqEmpty DEF ReadText
<1>3. <<>> \in Seq(Symbol) /\ Len(<<>>) = 0
  BY EmptySeq
<1>4. Drained(Unparsed, <<>>) = Unparsed
  BY <1>3, UnparsedTyped, FoldedIs DEF Drained
<1>5. Rest(<<>>) = <<>>
  <2> DEFINE s == LineStart(<<>>, 1)
             l == Line(<<>>, 1)
  <2>0. 1 \in 1 .. Len(<<>>) + 1
    BY <1>3
  <2>1. s \in 0 .. 1 - 1 /\ l \in Seq(Half) /\ Len(l) = 1 - 1 - s
    BY <1>3, <2>0, LineIs
  <2>2. Rest(<<>>) = l
    BY <1>3 DEF Rest
  <2> HIDE DEF s, l
  <2>3. Len(l) = 0
    <3>1. s = 0
      BY <2>1
    <3>2. Len(l) = 1 - 1 - s
      BY <2>1
    <3> QED  BY <3>1, <3>2
  <2> QED  BY <2>1, <2>2, <2>3, EmptySeq
<1>6. read \in 0 .. Len(output)
  BY <1>1, TextTyped
<1> QED  BY <1>1, <1>2, <1>4, <1>5, <1>6 DEF StreamInv

LEMMA StreamStep == StreamInv /\ [StreamNext]_streamVars => StreamInv'
<1> SUFFICES ASSUME StreamInv, [StreamNext]_streamVars PROVE StreamInv'
  OBVIOUS
<1>0. output \in Output /\ read \in 0 .. Len(output)
  BY DEF StreamInv
<1>1. CASE Chunk
  <2>1. PICK n \in read + 1 .. Len(output) : Buffered(SubSeq(output, read + 1, n)) /\ read' = n
    BY <1>1 DEF Chunk
  <2> DEFINE c == SubSeq(output, read + 1, n)
             t == ReadText
  <2>2. ~closed /\ closed' = closed /\ output' = output
    BY <1>1 DEF Chunk
  <2>3. output \in Seq(Symbol) /\ Len(output) \in Nat
    BY <1>0, TextTyped
  <2>4. t \in Seq(Symbol) /\ c \in Seq(Symbol)
    <3>1. 1 \in Nat \ {0} /\ read + 1 \in Nat \ {0} /\ n \in 0 .. Len(output)
      BY <1>0, <2>3
    <3> QED  BY <1>0, <3>1, TextTyped DEF ReadText
  <2>5. ReadText' = t \o c
    <3>1. 1 \in 1 .. Len(output) + 1 /\ read \in 1 - 1 .. Len(output) /\ n \in read .. Len(output)
      BY <1>0, <2>3
    <3>2. SubSeq(output, 1, read) \o SubSeq(output, read + 1, n) = SubSeq(output, 1, n)
      BY <2>3, <3>1, ConcatAdjacentSubSeq
    <3> QED  BY <2>1, <2>2, <3>2 DEF ReadText
  <2>6. parsed = Drained(Unparsed, t) /\ buf = Rest(t)
    BY <2>2 DEF StreamInv
  <2>7. parsed' = Drained(parsed, buf \o c) /\ buf' = Rest(buf \o c)
    BY <2>1 DEF Buffered
  <2> HIDE DEF c, t
  <2>8. parsed' = Drained(Unparsed, t \o c) /\ buf' = Rest(t \o c)
    BY <2>4, <2>6, <2>7, UnparsedTyped, ReadInTwo
  <2>9. read' \in 0 .. Len(output)
    BY <1>0, <2>1, <2>3
  <2> QED  BY <1>0, <2>2, <2>5, <2>8, <2>9 DEF StreamInv
<1>2. CASE Close
  <2>1. ~closed /\ closed' = TRUE /\ parsed' = foldLine(parsed, buf) /\ UNCHANGED <<output, read>>
    BY <1>2 DEF Close
  <2>2. parsed = Drained(Unparsed, ReadText) /\ buf = Rest(ReadText) /\ ReadText' = ReadText
    BY <2>1 DEF StreamInv, ReadText
  <2> QED  BY <1>0, <2>1, <2>2 DEF StreamInv, parseStreamJson
<1>3. CASE UNCHANGED streamVars
  BY <1>3 DEF streamVars, StreamInv, ReadText
<1> QED  BY <1>1, <1>2, <1>3 DEF StreamNext

\* However the output of claude comes in pieces, and wherever it ends: what was
\* told while it came is the first part of what parseStreamJson makes of the
\* whole text, the turn at the end is that of the whole text, and it is a
\* success only by a whole result line.
THEOREM PiecesAreTheWhole == StreamSpec => []StreamIsTheBlob
<1>1. StreamInv => StreamIsTheBlob
  <2> SUFFICES ASSUME StreamInv PROVE StreamIsTheBlob
    OBVIOUS
  <2> DEFINE t == ReadText
             d == Drained(Unparsed, t)
             w == parseStreamJson(t)
  <2>1. t \in Seq(Symbol) /\ Len(t) \in Nat
    <3>1. output \in Output /\ read \in 0 .. Len(output) /\ 1 \in Nat \ {0}
      BY DEF StreamInv
    <3>2. t \in Seq(Symbol)
      BY <3>1, TextTyped DEF ReadText
    <3> QED  BY <3>2, LenProperties
  <2>2. (parsed = d \/ parsed = w) /\ (closed => parsed = w)
    BY DEF StreamInv
  <2> HIDE DEF t
  <2>3. d \in Understood
    BY <2>1, UnparsedTyped, FoldedIs DEF Drained
  <2>4. Rest(t) \in Seq(Half)
    <3>1. Len(t) + 1 \in 1 .. Len(t) + 1
      BY <2>1
    <3> QED  BY <2>1, <3>1, LineIs DEF Rest
  <2>5. w = foldLine(d, Rest(t))
    BY DEF parseStreamJson
  <2>6. w \in Understood /\ Extends(d, w) /\ Extends(w, w)
    <3> HIDE DEF d, w
    <3> QED  BY <2>3, <2>4, <2>5, FoldedLine, NothingTold
  <2>7. Succeeds(parsed) => WholeResult(t, Len(t))
    BY <2>1, <2>2, SuccessIsWhole
  <2> HIDE DEF d, w
  <2>8. \E n \in 0 .. Len(w.interim) : parsed.interim = SubSeq(w.interim, 1, n)
    BY <2>2, <2>3, <2>6, FirstPart
  <2> QED  BY <2>2, <2>7, <2>8 DEF StreamIsTheBlob, Succeeds, WholeResult, t, w, ReadText
<1> QED  BY <1>1, StreamInitial, StreamStep, PTL DEF StreamSpec

-----------------------------------------------------------------------------
(* SetUp: the parts of a turn's set-up.                                     *)

\* Induction up to a number.
LEMMA UpTo ==
  ASSUME NEW n \in Nat, NEW S, 0 \in S, \A i \in 1 .. n : i - 1 \in S => i \in S
  PROVE  \A i \in 0 .. n : i \in S
<1> DEFINE T == {m \in Nat : m <= n => m \in S}
<1>1. 0 \in T
  OBVIOUS
<1>2. ASSUME NEW m \in Nat, m \in T PROVE m + 1 \in T
  <2> SUFFICES ASSUME m + 1 <= n PROVE m + 1 \in S
    OBVIOUS
  <2>1. m + 1 \in 1 .. n /\ (m + 1) - 1 = m /\ m \in S
    BY <1>2
  <2> QED  BY <2>1
<1>3. Nat \subseteq T
  <2> HIDE DEF T
  <2> QED  BY <1>1, <1>2, AllNumbers
<1> QED  BY <1>3

\* The elements at the places of I, one by one.
Picks(f, s, I) ==
  /\ f[0] = <<>> /\ f[Len(s)] = Only(s, I)
  /\ \A i \in 1 .. Len(s) : f[i] = IF i \in I THEN Append(f[i - 1], s[i]) ELSE f[i - 1]

LEMMA OnlyIs ==
  ASSUME NEW S, NEW s \in Seq(S), NEW I
  PROVE  \E f \in [0 .. Len(s) -> Seq(S)] : Picks(f, s, I)
<1> DEFINE N == Len(s)
           Step(q, i) == IF i \in I THEN Append(q, s[i]) ELSE q
           X == Seq(S)
           F == [x \in X \X (1 .. N) |-> Step(x[1], x[2])]
           Body(g) == [i \in 0 .. N |-> IF i = 0 THEN <<>> ELSE Step(g[i - 1], i)]
           f == CHOOSE g : g = Body(g)
<1>0. N \in Nat /\ <<>> \in X
  BY LenProperties, EmptySeq
<1>1. ASSUME NEW q \in X, NEW i \in 1 .. N PROVE Step(q, i) \in X
  BY <1>0, ElementOfSeq, AppendProperties
<1>2. \A q \in X, i \in 1 .. N : F[<<q, i>>] = Step(q, i)
  <2> HIDE DEF Step, X, N
  <2> QED  OBVIOUS
<1>11. StepOf(F, X, N)
  <2> HIDE DEF Step, X, N
  <2> QED  BY <1>1 DEF StepOf
<1> HIDE DEF F, Step, N, X
<1>3. PICK g \in [0 .. N -> X] : g[0] = <<>> /\ \A i \in 1 .. N : g[i] = F[<<g[i - 1], i>>]
  <2> HIDE DEF Body, f
  <2>1. PICK h \in [0 .. N -> X] : Follows(h, <<>>, F, N)
    BY <1>0, <1>11, StepByStep
  <2> QED  BY <2>1 DEF Follows
<1>4. g = Body(g)
  <2>1. ASSUME NEW i \in 1 .. N PROVE g[i] = Step(g[i - 1], i)
    <3>1. i - 1 \in 0 .. N
      BY <1>0
    <3>2. g[i - 1] \in X
      BY <1>3, <3>1
    <3> QED  BY <1>2, <1>3, <3>2
  <2>2. \A i \in 0 .. N : g[i] = IF i = 0 THEN <<>> ELSE Step(g[i - 1], i)
    BY <1>0, <1>3, <2>1
  <2> QED  BY <1>3, <2>2
<1>5. f = Body(f)
  BY <1>4
<1>6. Only(s, I) = f[N]
  BY DEF Only, Step, N
<1> HIDE DEF f
<1>7. f[0] = <<>> /\ \A i \in 1 .. N : f[i] = Step(f[i - 1], i)
  BY <1>0, <1>5
<1>8. \A i \in 0 .. N : f[i] \in X
  <2> DEFINE T == {i \in 0 .. N : f[i] \in X}
  <2>1. 0 \in T
    BY <1>0, <1>7
  <2>2. ASSUME NEW i \in 1 .. N, i - 1 \in T PROVE i \in T
    BY <1>0, <1>1, <1>7, <2>2
  <2>3. \A i \in 0 .. N : i \in T
    <3> HIDE DEF T
    <3> QED  BY <1>0, <2>1, <2>2, UpTo
  <2> QED  BY <2>3
<1>9. f = [i \in 0 .. N |-> f[i]]
  BY <1>5
<1>10. f \in [0 .. N -> X]
  BY <1>8, <1>9
<1> QED  BY <1>6, <1>7, <1>10 DEF N, Step, X, Picks

LEMMA OnlyTyped ==
  ASSUME NEW S, NEW s \in Seq(S), NEW I
  PROVE  Only(s, I) \in Seq(S) /\ Len(Only(s, I)) \in 0 .. Len(s)
<1> DEFINE N == Len(s)
<1>2. N \in Nat /\ \A i \in 1 .. N : s[i] \in S
  BY LenProperties, ElementOfSeq
<1>0. PICK f \in [0 .. N -> Seq(S)] : Picks(f, s, I)
  BY OnlyIs
<1>1. /\ f[0] = <<>> /\ f[N] = Only(s, I)
      /\ \A i \in 1 .. N : f[i] = IF i \in I THEN Append(f[i - 1], s[i]) ELSE f[i - 1]
  BY <1>0 DEF Picks
<1> HIDE DEF N
<1> DEFINE T == {i \in 0 .. N : Len(f[i]) \in 0 .. i}
<1>3. 0 \in T
  BY <1>1, <1>2, EmptySeq
<1>4. ASSUME NEW i \in 1 .. N, i - 1 \in T PROVE i \in T
  <2>1. f[i - 1] \in Seq(S) /\ s[i] \in S /\ Len(f[i - 1]) \in 0 .. i - 1
    BY <1>1, <1>2, <1>4
  <2>2. Len(Append(f[i - 1], s[i])) = Len(f[i - 1]) + 1
    BY <2>1, AppendProperties
  <2>3. CASE i \in I
    <3>1. f[i] = Append(f[i - 1], s[i])
      BY <1>1, <2>3
    <3> QED  BY <1>2, <2>1, <2>2, <3>1
  <2>4. CASE i \notin I
    <3>1. f[i] = f[i - 1]
      BY <1>1, <2>4
    <3> QED  BY <1>2, <2>1, <3>1
  <2> QED  BY <2>3, <2>4
<1>5. \A i \in 0 .. N : i \in T
  <2> HIDE DEF T
  <2> QED  BY <1>2, <1>3, <1>4, UpTo
<1> QED  BY <1>1, <1>2, <1>5 DEF N

\* Each element was at such a place.
TakenFrom(q, s, I) == \A x \in 1 .. Len(q) : \E i \in 1 .. Len(s) : i \in I /\ q[x] = s[i]

LEMMA OnlyOf ==
  ASSUME NEW S, NEW s \in Seq(S), NEW I
  PROVE  Only(s, I) \in Seq(S) /\ TakenFrom(Only(s, I), s, I)
<1> DEFINE N == Len(s)
<1>2. N \in Nat /\ \A i \in 1 .. N : s[i] \in S
  BY LenProperties, ElementOfSeq
<1>0. PICK f \in [0 .. N -> Seq(S)] : Picks(f, s, I)
  BY OnlyIs
<1>1. /\ f[0] = <<>> /\ f[N] = Only(s, I)
      /\ \A i \in 1 .. N : f[i] = IF i \in I THEN Append(f[i - 1], s[i]) ELSE f[i - 1]
  BY <1>0 DEF Picks
<1> HIDE DEF N
<1> DEFINE From(q) == \A x \in 1 .. Len(q) : \E i \in 1 .. N : i \in I /\ q[x] = s[i]
           T == {i \in 0 .. N : From(f[i])}
<1>3. 0 \in T
  BY <1>1, <1>2, EmptySeq
<1>4. ASSUME NEW i \in 1 .. N, i - 1 \in T PROVE i \in T
  <2>1. f[i - 1] \in Seq(S) /\ s[i] \in S /\ From(f[i - 1])
    BY <1>1, <1>2, <1>4
  <2>2. CASE i \in I
    <3> DEFINE q == Append(f[i - 1], s[i])
    <3>1. Len(q) = Len(f[i - 1]) + 1 /\ q[Len(q)] = s[i] /\ \A x \in 1 .. Len(f[i - 1]) : q[x] = f[i - 1][x]
      BY <2>1, LenProperties, AppendProperties
    <3>2. From(q)
      <4> HIDE DEF q
      <4>1. Len(f[i - 1]) \in Nat
        BY <2>1, LenProperties
      <4> SUFFICES ASSUME NEW x \in 1 .. Len(q) PROVE \E j \in 1 .. N : j \in I /\ q[x] = s[j]
        OBVIOUS
      <4>2. CASE x = Len(q)
        BY <2>2, <3>1, <4>2
      <4>3. CASE x \in 1 .. Len(f[i - 1])
        BY <2>1, <3>1, <4>3
      <4> QED  BY <3>1, <4>1, <4>2, <4>3
    <3>3. f[i] = q
      BY <1>1, <2>2
    <3> HIDE DEF q, From
    <3> QED  BY <1>2, <3>2, <3>3
  <2>3. CASE i \notin I
    BY <1>1, <2>1, <2>3
  <2> QED  BY <2>2, <2>3
<1>5. \A i \in 0 .. N : i \in T
  <2> HIDE DEF T
  <2> QED  BY <1>2, <1>3, <1>4, UpTo
<1> QED  BY <1>1, <1>2, <1>5 DEF N, TakenFrom

LEMMA BeginsIs ==
  ASSUME NEW S, NEW p \in Seq(S), NEW s \in Seq(S)
  PROVE  Begins(p, s) <=> Len(p) <= Len(s) /\ \A i \in 1 .. Len(p) : p[i] = s[i]
<1> DEFINE t == SubSeq(s, 1, Len(p))
<1>1. Len(p) \in Nat /\ Len(s) \in Nat
  BY LenProperties
<1> SUFFICES ASSUME Len(p) <= Len(s) PROVE p = t <=> \A i \in 1 .. Len(p) : p[i] = s[i]
  BY DEF Begins
<1>2. \A i \in 1 .. Len(p) : s[i] \in S
  BY <1>1, ElementOfSeq
<1>3. t \in Seq(S) /\ Len(t) = Len(p) /\ \A i \in 1 .. Len(p) : t[i] = s[i]
  <2>1. /\ t \in Seq(S) /\ Len(t) = IF 1 <= Len(p) THEN Len(p) - 1 + 1 ELSE 0
        /\ \A i \in 1 .. Len(p) - 1 + 1 : t[i] = s[1 + i - 1]
    BY <1>1, <1>2, SubSeqProperties
  <2> QED  BY <1>1, <2>1
<1> HIDE DEF t
<1> QED  BY <1>3, SeqEqual

LEMMA BeginsBegins ==
  ASSUME NEW S, NEW p \in Seq(S), NEW q \in Seq(S), NEW s \in Seq(S), Begins(p, q), Begins(q, s)
  PROVE  Begins(p, s)
<1>1. Len(p) \in Nat /\ Len(q) \in Nat /\ Len(s) \in Nat
  BY LenProperties
<1>2. Len(p) <= Len(q) /\ \A i \in 1 .. Len(p) : p[i] = q[i]
  BY BeginsIs
<1>3. Len(q) <= Len(s) /\ \A i \in 1 .. Len(q) : q[i] = s[i]
  BY BeginsIs
<1>4. Len(p) <= Len(s) /\ \A i \in 1 .. Len(p) : p[i] = s[i]
  BY <1>1, <1>2, <1>3
<1> QED  BY <1>4, BeginsIs

\* More places, or a longer sequence: what there was comes first.
LEMMA OnlyGrows ==
  ASSUME NEW S, NEW s \in Seq(S), NEW I, NEW f \in [0 .. Len(s) -> Seq(S)], Picks(f, s, I), NEW n \in 0 .. Len(s)
  PROVE  Begins(f[n], f[Len(s)])
<1> DEFINE N == Len(s)
<1>0. N \in Nat /\ (\A i \in 1 .. N : s[i] \in S) /\ \A i \in 0 .. N : f[i] \in Seq(S)
  BY LenProperties, ElementOfSeq
<1>5. n \in 0 .. N /\ \A i \in 1 .. N : f[i] = IF i \in I THEN Append(f[i - 1], s[i]) ELSE f[i - 1]
  BY DEF Picks
<1> HIDE DEF N
<1> DEFINE T == {i \in 0 .. N : i >= n => Begins(f[n], f[i])}
<1>1. ASSUME NEW q \in Seq(S) PROVE Begins(q, q)
  <2>1. Len(q) \in Nat
    BY LenProperties
  <2> QED  BY <2>1, BeginsIs
<1>2. 0 \in T
  <2> SUFFICES ASSUME 0 >= n PROVE Begins(f[n], f[0])
    BY <1>0
  <2>1. n = 0 /\ f[0] \in Seq(S)
    BY <1>0, <1>5
  <2> QED  BY <1>1, <2>1
<1>3. ASSUME NEW i \in 1 .. N, i - 1 \in T PROVE i \in T
  <2> SUFFICES ASSUME i >= n PROVE Begins(f[n], f[i])
    BY <1>0
  <2>0. f[n] \in Seq(S) /\ f[i] \in Seq(S) /\ f[i - 1] \in Seq(S) /\ s[i] \in S
    <3>1. n \in 0 .. N /\ i \in 0 .. N /\ i - 1 \in 0 .. N
      BY <1>0, <1>5
    <3> QED  BY <1>0, <3>1
  <2>1. CASE i = n
    BY <1>1, <2>0, <2>1
  <2>2. CASE i # n
    <3>1. Begins(f[n], f[i - 1])
      BY <1>0, <1>3, <1>5, <2>2
    <3>2. Begins(f[i - 1], f[i])
      <4>1. CASE i \in I
        <5> DEFINE q == f[i - 1]
                   r == Append(q, s[i])
        <5>1. Len(r) = Len(q) + 1 /\ Len(q) \in Nat /\ r \in Seq(S) /\ \A x \in 1 .. Len(q) : r[x] = q[x]
          BY <2>0, LenProperties, AppendProperties
        <5>2. f[i] = r
          BY <1>5, <4>1
        <5> HIDE DEF q, r
        <5>3. q \in Seq(S)
          BY <2>0 DEF q
        <5>4. Len(q) <= Len(r)
          BY <5>1
        <5>5. Begins(q, r)
          BY <5>1, <5>3, <5>4, BeginsIs
        <5> QED  BY <5>2, <5>5 DEF q
      <4>2. CASE i \notin I
        BY <1>1, <1>5, <2>0, <4>2
      <4> QED  BY <4>1, <4>2
    <3> QED  BY <2>0, <3>1, <3>2, BeginsBegins
  <2> QED  BY <2>1, <2>2
<1>4. \A i \in 0 .. N : i \in T
  <2> HIDE DEF T
  <2> QED  BY <1>0, <1>2, <1>3, UpTo
<1> QED  BY <1>0, <1>4, <1>5 DEF N

LEMMA OnlyOfMore ==
  ASSUME NEW S, NEW s \in Seq(S), NEW t \in Seq(S), NEW I, NEW J, \A i \in 1 .. Len(s) : i \in I <=> i \in J
  PROVE  Begins(Only(s, I), Only(s \o t, J))
<1> DEFINE N == Len(s)
           u == s \o t
           M == Len(u)
<1>1. /\ N \in Nat /\ u \in Seq(S) /\ M \in Nat /\ N <= M
      /\ \A i \in 1 .. N : u[i] = s[i]
  BY LenProperties, ConcatProperties
<1>2. PICK f \in [0 .. N -> Seq(S)] : Picks(f, s, I)
  BY OnlyIs
<1>3. PICK g \in [0 .. M -> Seq(S)] : Picks(g, u, J)
  <2> HIDE DEF u
  <2> QED  BY <1>1, OnlyIs
<1>4. /\ f[0] = <<>> /\ f[N] = Only(s, I)
      /\ \A i \in 1 .. N : f[i] = IF i \in I THEN Append(f[i - 1], s[i]) ELSE f[i - 1]
  BY <1>2 DEF Picks
<1>5. /\ g[0] = <<>> /\ g[M] = Only(u, J)
      /\ \A i \in 1 .. M : g[i] = IF i \in J THEN Append(g[i - 1], u[i]) ELSE g[i - 1]
  BY <1>3 DEF Picks
<1>6. N \in 0 .. M
  BY <1>1
<1>7. Begins(g[N], g[M])
  <2> HIDE DEF u, N
  <2> QED  BY <1>1, <1>3, <1>6, OnlyGrows
<1>8. \A i \in 1 .. N : i \in I <=> i \in J
  OBVIOUS
<1> HIDE DEF N, u, M
<1> DEFINE T == {i \in 0 .. N : f[i] = g[i]}
<1>9. 0 \in T
  BY <1>1, <1>4, <1>5
<1>10. ASSUME NEW i \in 1 .. N, i - 1 \in T PROVE i \in T
  <2>1. i \in 1 .. M /\ f[i - 1] = g[i - 1] /\ u[i] = s[i]
    BY <1>1, <1>10
  <2>2. f[i] = g[i]
    BY <1>4, <1>5, <1>8, <2>1
  <2> QED  BY <1>1, <2>2
<1>11. \A i \in 0 .. N : i \in T
  <2> HIDE DEF T
  <2> QED  BY <1>1, <1>9, <1>10, UpTo
<1>12. f[N] = g[N]
  BY <1>1, <1>11
<1> QED  BY <1>4, <1>5, <1>7, <1>12 DEF u

\* What is taken as a whole at the start begins what is taken.
LEMMA OnlyAll ==
  ASSUME NEW S, NEW p \in Seq(S), NEW s \in Seq(S), NEW I, Begins(p, s), \A i \in 1 .. Len(p) : i \in I
  PROVE  Begins(p, Only(s, I))
<1> DEFINE N == Len(s)
           n == Len(p)
<1>1. n \in Nat /\ N \in Nat /\ n <= N /\ \A i \in 1 .. n : p[i] = s[i] /\ s[i] \in S
  BY BeginsIs, LenProperties, ElementOfSeq
<1>2. PICK f \in [0 .. N -> Seq(S)] : Picks(f, s, I)
  BY OnlyIs
<1>3. /\ f[0] = <<>> /\ f[N] = Only(s, I)
      /\ \A i \in 1 .. N : f[i] = IF i \in I THEN Append(f[i - 1], s[i]) ELSE f[i - 1]
  BY <1>2 DEF Picks
<1>4. Begins(f[n], f[N])
  <2>1. n \in 0 .. N
    BY <1>1
  <2> HIDE DEF n
  <2> QED  BY <1>2, <2>1, OnlyGrows
<1>5. \A i \in 1 .. n : i \in I
  OBVIOUS
<1> HIDE DEF N, n
<1> DEFINE T == {i \in 0 .. n : Len(f[i]) = i /\ \A x \in 1 .. i : f[i][x] = s[x]}
<1>6. 0 \in T
  BY <1>1, <1>3, EmptySeq
<1>7. ASSUME NEW i \in 1 .. n, i - 1 \in T PROVE i \in T
  <2> DEFINE q == f[i - 1]
             r == Append(q, s[i])
  <2>1. q \in Seq(S) /\ s[i] \in S /\ Len(q) = i - 1 /\ \A x \in 1 .. i - 1 : q[x] = s[x]
    <3>1. i - 1 \in 0 .. N
      BY <1>1
    <3> QED  BY <1>1, <1>2, <1>7, <3>1
  <2>2. f[i] = r
    <3>1. i \in 1 .. N /\ i \in I
      BY <1>1, <1>5
    <3> QED  BY <1>3, <3>1
  <2> HIDE DEF q
  <2>3. Len(r) = Len(q) + 1 /\ r[Len(q) + 1] = s[i] /\ \A x \in 1 .. Len(q) : r[x] = q[x]
    BY <2>1, AppendProperties
  <2> HIDE DEF r
  <2>4. ASSUME NEW x \in 1 .. i PROVE r[x] = s[x]
    <3>1. CASE x = i
      BY <2>1, <2>3, <3>1
    <3>2. CASE x \in 1 .. i - 1
      BY <2>1, <2>3, <3>2
    <3> QED  BY <1>1, <3>1, <3>2
  <2>5. Len(r) = i
    BY <1>1, <2>1, <2>3
  <2> QED  BY <1>1, <2>2, <2>4, <2>5
<1>8. \A i \in 0 .. n : i \in T
  <2> HIDE DEF T
  <2> QED  BY <1>1, <1>6, <1>7, UpTo
<1>9. p = f[n]
  <2>1. f[n] \in Seq(S) /\ Len(f[n]) = n /\ \A x \in 1 .. n : f[n][x] = p[x]
    <3>0. n \in 0 .. n /\ n \in 0 .. N
      BY <1>1
    <3>1. n \in T
      <4> HIDE DEF T
      <4> QED  BY <1>8, <3>0
    <3> QED  BY <1>1, <1>2, <3>0, <3>1
  <2> QED  BY <2>1, SeqEqual DEF n
<1> QED  BY <1>3, <1>4, <1>9

LEMMA FunctionIsSeq ==
  ASSUME NEW S, NEW n \in Nat, NEW f \in [1 .. n -> S]
  PROVE  f \in Seq(S) /\ Len(f) = n
OBVIOUS

\* Each element of a list is one of another's.
Among(p, s) == \A i \in 1 .. Len(p) : \E j \in 1 .. Len(s) : p[i] = s[j]

LEMMA AmongAmong ==
  ASSUME NEW p, NEW q, NEW s, Among(p, q), Among(q, s)
  PROVE  Among(p, s)
BY DEF Among

LEMMA WrittenIs ==
  ASSUME NEW es \in Seq(NoteEntry)
  PROVE  /\ Written(es) \in Seq(NoteEntry) /\ Among(Written(es), es)
         /\ \A i \in 1 .. Len(Written(es)) : Written(es)[i].bytes > 0
<1> DEFINE I == {i \in DOMAIN es : es[i].bytes > 0}
<1>1. Written(es) = Only(es, I)
  BY DEF Written
<1>2. \A i \in I : es[i].bytes > 0
  OBVIOUS
<1> HIDE DEF I
<1>3. Only(es, I) \in Seq(NoteEntry) /\ TakenFrom(Only(es, I), es, I)
  BY OnlyOf
<1> QED  BY <1>1, <1>2, <1>3 DEF Among, TakenFrom

LEMMA FirstIs ==
  ASSUME NEW es \in Seq(NoteEntry)
  PROVE  /\ FirstOfPath(es) \in Seq(NoteEntry) /\ Among(FirstOfPath(es), es)
         /\ Len(FirstOfPath(es)) \in 0 .. Len(es)
<1> DEFINE I == {i \in DOMAIN es : \A j \in 1 .. i - 1 : es[j].path # es[i].path}
<1>1. FirstOfPath(es) = Only(es, I)
  BY DEF FirstOfPath
<1> HIDE DEF I
<1>2. Only(es, I) \in Seq(NoteEntry) /\ Len(Only(es, I)) \in 0 .. Len(es)
  BY OnlyTyped
<1>3. TakenFrom(Only(es, I), es, I)
  BY OnlyOf
<1> QED  BY <1>1, <1>2, <1>3 DEF Among, TakenFrom

LEMMA FirstOfMore ==
  ASSUME NEW es \in Seq(NoteEntry), NEW more \in Seq(NoteEntry)
  PROVE  Begins(FirstOfPath(es), FirstOfPath(es \o more))
<1> DEFINE u == es \o more
           I == {i \in DOMAIN es : \A j \in 1 .. i - 1 : es[j].path # es[i].path}
           J == {i \in DOMAIN u : \A j \in 1 .. i - 1 : u[j].path # u[i].path}
<1>1. /\ Len(es) \in Nat /\ Len(u) \in Nat /\ Len(es) <= Len(u) /\ \A i \in 1 .. Len(es) : u[i] = es[i]
      /\ DOMAIN es = 1 .. Len(es) /\ DOMAIN u = 1 .. Len(u)
  BY LenProperties, ConcatProperties
<1> HIDE DEF u
<1>2. ASSUME NEW i \in 1 .. Len(es) PROVE i \in I <=> i \in J
  <2>1. i \in DOMAIN es /\ i \in DOMAIN u /\ u[i] = es[i] /\ \A j \in 1 .. i - 1 : u[j] = es[j]
    BY <1>1
  <2> QED  BY <2>1
<1>3. Begins(Only(es, I), Only(es \o more, J))
  <2> HIDE DEF I, J
  <2> QED  BY <1>2, OnlyOfMore
<1> QED  BY <1>3 DEF FirstOfPath, u

\* Of the loadout there is what has a note, as the note has it.
LEMMA LoadoutIs ==
  ASSUME NEW v \in Seq(DOMAIN noteBytes \cup {""})
  PROVE  LET l == readThreadLoadout(v) IN
         l \in Seq(NoteEntry) /\ \A i \in 1 .. Len(l) : l[i] = Entry(l[i].path)
<1> DEFINE A == DOMAIN noteBytes \cup {""}
           I == {i \in DOMAIN v : v[i] # ""}
           paths == parseLoadoutPaths(v)
           J == {i \in DOMAIN paths : noteBytes[paths[i]] # Unset}
           found == Only(paths, J)
<1>1. paths = Only(v, I) /\ (\A i \in I : v[i] # "")
  BY DEF parseLoadoutPaths
<1>0. v \in Seq(A)
  OBVIOUS
<1>4. \A x \in A : x # "" => x \in DOMAIN noteBytes
  OBVIOUS
<1> HIDE DEF A
<1>2. paths \in Seq(A) /\ \A k \in 1 .. Len(paths) : paths[k] # ""
  <2> HIDE DEF I, paths
  <2>1. Only(v, I) \in Seq(A) /\ TakenFrom(Only(v, I), v, I)
    BY <1>0, OnlyOf
  <2> QED  BY <1>1, <2>1 DEF TakenFrom
<1>3. \A i \in J : noteBytes[paths[i]] # Unset
  OBVIOUS
<1>5. readThreadLoadout(v) = [i \in DOMAIN found |-> Entry(found[i])]
  BY DEF readThreadLoadout
<1> HIDE DEF paths, J
<1>6. found \in Seq(A) /\ TakenFrom(found, paths, J)
  BY <1>2, OnlyOf
<1>7. Len(found) \in Nat /\ DOMAIN found = 1 .. Len(found)
  BY <1>6, LenProperties
<1> HIDE DEF found
<1>8. ASSUME NEW k \in 1 .. Len(found) PROVE Entry(found[k]) \in NoteEntry
  <2>1. found[k] \in A
    BY <1>6, ElementOfSeq
  <2>2. found[k] # "" /\ noteBytes[found[k]] # Unset
    BY <1>2, <1>3, <1>6 DEF TakenFrom
  <2>3. found[k] \in STRING /\ noteBytes[found[k]] \in Nat
    BY <1>4, <2>1, <2>2, SetUpAssumption
  <2> QED  BY <2>3 DEF Entry, NoteEntry
<1>9. readThreadLoadout(v) \in Seq(NoteEntry) /\ Len(readThreadLoadout(v)) = Len(found)
  <2>1. readThreadLoadout(v) \in [1 .. Len(found) -> NoteEntry]
    BY <1>5, <1>7, <1>8
  <2> QED  BY <1>7, <2>1, FunctionIsSeq
<1>10. ASSUME NEW k \in 1 .. Len(found) PROVE readThreadLoadout(v)[k] = Entry(readThreadLoadout(v)[k].path)
  <2>1. readThreadLoadout(v)[k] = Entry(found[k])
    BY <1>5, <1>7
  <2>2. Entry(found[k]).path = found[k]
    BY DEF Entry
  <2> QED  BY <2>1, <2>2
<1> QED  BY <1>9, <1>10

\* What is protected is written.
LEMMA ProtectedIs ==
  ASSUME NEW g \in PromptParts
  PROVE  /\ ProtectedEntries(g) \in Seq(NoteEntry)
         /\ \A i \in 1 .. Len(ProtectedEntries(g)) : ProtectedEntries(g)[i].bytes > 0
<1> DEFINE r == Written(g.roles)
           a == roleEntries(g)
           b == Written(g.self)
           c == readThreadContent(g)
           AllWritten(es) == \A i \in 1 .. Len(es) : es[i].bytes > 0
<1>1. r \in Seq(NoteEntry) /\ AllWritten(r) /\ b \in Seq(NoteEntry) /\ AllWritten(b)
      /\ c \in Seq(NoteEntry) /\ AllWritten(c)
  <2>1. g.roles \in Seq(NoteEntry) /\ g.self \in Seq(NoteEntry) /\ g.thread \in Seq(NoteEntry)
    BY DEF PromptParts
  <2> QED  BY <2>1, WrittenIs DEF readThreadContent
<1>2. a \in Seq(NoteEntry) /\ AllWritten(a)
  <2>1. a = FirstOfPath(r)
    BY DEF roleEntries
  <2> HIDE DEF a, r
  <2>2. FirstOfPath(r) \in Seq(NoteEntry) /\ Among(FirstOfPath(r), r)
    BY <1>1, FirstIs
  <2>3. AllWritten(FirstOfPath(r))
    BY <1>1, <2>2 DEF Among
  <2> QED  BY <2>1, <2>2, <2>3
<1>3. ASSUME NEW s \in Seq(NoteEntry), NEW t \in Seq(NoteEntry), AllWritten(s), AllWritten(t)
      PROVE  s \o t \in Seq(NoteEntry) /\ AllWritten(s \o t)
  <2> DEFINE u == s \o t
  <2>1. /\ u \in Seq(NoteEntry) /\ Len(u) = Len(s) + Len(t) /\ Len(s) \in Nat /\ Len(t) \in Nat
        /\ \A i \in 1 .. Len(s) + Len(t) : u[i] = IF i <= Len(s) THEN s[i] ELSE t[i - Len(s)]
    BY LenProperties, ConcatProperties
  <2> HIDE DEF u
  <2>2. ASSUME NEW i \in 1 .. Len(u) PROVE u[i].bytes > 0
    <3>1. CASE i <= Len(s)
      <4>1. i \in 1 .. Len(s) /\ u[i] = s[i]
        BY <2>1, <3>1
      <4> QED  BY <1>3, <4>1
    <3>2. CASE ~(i <= Len(s))
      <4>1. i - Len(s) \in 1 .. Len(t) /\ u[i] = t[i - Len(s)]
        BY <2>1, <3>2
      <4> QED  BY <1>3, <4>1
    <3> QED  BY <3>1, <3>2
  <2> QED  BY <2>1, <2>2 DEF u
<1>4. ProtectedEntries(g) = a \o b \o c
  BY DEF ProtectedEntries
<1> HIDE DEF a, b, c, AllWritten
<1>5. a \o b \in Seq(NoteEntry) /\ AllWritten(a \o b)
  BY <1>1, <1>2, <1>3
<1>6. a \o b \o c \in Seq(NoteEntry) /\ AllWritten(a \o b \o c)
  BY <1>1, <1>3, <1>5
<1> QED  BY <1>4, <1>6 DEF AllWritten

LEMMA BytesTyped == ASSUME NEW es \in Seq(NoteEntry) PROVE Bytes(es) \in Nat
<1> DEFINE N == Len(es)
           Step(q, i) == q + es[i].bytes
           F == [x \in Nat \X (1 .. N) |-> Step(x[1], x[2])]
           Body(g) == [i \in 0 .. N |-> IF i = 0 THEN 0 ELSE Step(g[i - 1], i)]
           f == CHOOSE g : g = Body(g)
<1>0. N \in Nat /\ \A i \in 1 .. N : es[i].bytes \in Nat
  <2>1. N \in Nat /\ \A i \in 1 .. N : es[i] \in NoteEntry
    BY LenProperties, ElementOfSeq
  <2> QED  BY <2>1 DEF NoteEntry
<1>1. ASSUME NEW q \in Nat, NEW i \in 1 .. N PROVE Step(q, i) \in Nat
  BY <1>0
<1>2. \A q \in Nat, i \in 1 .. N : F[<<q, i>>] = Step(q, i)
  <2> HIDE DEF Step, N
  <2> QED  OBVIOUS
<1>3. StepOf(F, Nat, N)
  <2> HIDE DEF Step, N
  <2> QED  BY <1>1 DEF StepOf
<1> HIDE DEF F, Step, N
<1>4. PICK g \in [0 .. N -> Nat] : Follows(g, 0, F, N)
  <2> HIDE DEF Body, f
  <2> QED  BY <1>0, <1>3, StepByStep
<1>5. g = Body(g)
  <2>1. ASSUME NEW i \in 1 .. N PROVE g[i] = Step(g[i - 1], i)
    <3>1. i - 1 \in 0 .. N
      BY <1>0
    <3>2. g[i - 1] \in Nat /\ g[i] = F[<<g[i - 1], i>>]
      BY <1>4, <3>1 DEF Follows
    <3> QED  BY <1>2, <3>2
  <2>2. \A i \in 0 .. N : g[i] = IF i = 0 THEN 0 ELSE Step(g[i - 1], i)
    BY <1>0, <1>4, <2>1 DEF Follows
  <2> QED  BY <1>4, <2>2
<1>6. f = Body(f)
  BY <1>5
<1>7. Bytes(es) = IF es = <<>> THEN 0 ELSE f[N] + Separator * (N - 1)
  BY DEF Bytes, Step, N
<1> HIDE DEF f
<1>8. f[0] = 0 /\ \A i \in 1 .. N : f[i] = Step(f[i - 1], i)
  BY <1>0, <1>6
<1> DEFINE T == {i \in 0 .. N : f[i] \in Nat}
<1>9. 0 \in T
  BY <1>0, <1>8
<1>10. ASSUME NEW i \in 1 .. N, i - 1 \in T PROVE i \in T
  <2>1. f[i - 1] \in Nat /\ f[i] = Step(f[i - 1], i)
    BY <1>8, <1>10
  <2>2. f[i] \in Nat
    BY <1>1, <2>1
  <2> QED  BY <1>0, <2>2
<1>11. \A i \in 0 .. N : i \in T
  <2> HIDE DEF T
  <2> QED  BY <1>0, <1>9, <1>10, UpTo
<1>12. ASSUME es # <<>> PROVE f[N] + Separator * (N - 1) \in Nat
  <2>1. f[N] \in Nat /\ N - 1 \in Nat /\ Separator \in Nat
    BY <1>0, <1>11, <1>12, EmptySeq, SetUpAssumption DEF N
  <2>2. Separator * (N - 1) \in Nat
    BY <2>1
  <2> QED  BY <2>1, <2>2
<1> QED  BY <1>7, <1>12

\* What a start has is had.
LEMMA BeginsAmong ==
  ASSUME NEW S, NEW p \in Seq(S), NEW s \in Seq(S), Begins(p, s)
  PROVE  Among(p, s)
<1>1. Len(p) \in Nat /\ Len(s) \in Nat /\ Len(p) <= Len(s) /\ \A i \in 1 .. Len(p) : p[i] = s[i]
  BY LenProperties, BeginsIs
<1> QED  BY <1>1 DEF Among

\* Nothing protected is shed, and of the rest the tail, for the budget only.
LEMMA ShedIsTheTail ==
  ASSUME NEW g \in PromptParts
  PROVE  PromptKeeps(g)
<1> DEFINE B == LOADOUT_BUDGET_BYTES
           p == ProtectedEntries(g)
           l == readThreadLoadout(g.loadout)
           es == p \o l
           fp == FirstOfPath(p)
           F == FirstOfPath(es)
           k == Written(F)
           protect == IF Len(p) < Len(k) THEN Len(p) ELSE Len(k)
           fits == {n \in protect .. Len(k) : n = protect \/ Bytes(SubSeq(k, 1, n)) <= B}
           m == CHOOSE n \in fits : \A x \in fits : x <= n
           P == Prompt(g)
<1>1. P = IF Bytes(k) <= B THEN k ELSE SubSeq(k, 1, m)
  BY DEF Prompt, composeSystemPrompt
<1>2. p \in Seq(NoteEntry) /\ \A i \in 1 .. Len(p) : p[i].bytes > 0
  BY ProtectedIs
<1>3. l \in Seq(NoteEntry) /\ \A i \in 1 .. Len(l) : l[i] = Entry(l[i].path)
  BY LoadoutIs DEF PromptParts
<1> HIDE DEF p, l, P
<1>4. es \in Seq(NoteEntry)
  BY <1>2, <1>3, ConcatProperties
<1>5. fp \in Seq(NoteEntry) /\ Among(fp, p) /\ Len(fp) \in 0 .. Len(p)
  BY <1>2, FirstIs
<1>6. Begins(fp, F)
  BY <1>2, <1>3, FirstOfMore
<1> HIDE DEF es, fp
<1>7. F \in Seq(NoteEntry) /\ Among(F, es)
  BY <1>4, FirstIs
<1> HIDE DEF F
<1>8. k \in Seq(NoteEntry) /\ Among(k, F)
  BY <1>7, WrittenIs
<1>9. Begins(fp, k)
  <2> DEFINE W == {i \in DOMAIN F : F[i].bytes > 0}
  <2>1. ASSUME NEW i \in 1 .. Len(fp) PROVE i \in W
    <3>1. /\ Len(fp) \in Nat /\ Len(F) \in Nat /\ DOMAIN F = 1 .. Len(F)
          /\ Len(fp) <= Len(F) /\ \A x \in 1 .. Len(fp) : fp[x] = F[x]
      BY <1>5, <1>6, <1>7, LenProperties, BeginsIs
    <3>2. fp[i].bytes > 0
      BY <1>2, <1>5 DEF Among
    <3> QED  BY <3>1, <3>2
  <2>2. Begins(fp, Only(F, W))
    <3> HIDE DEF W
    <3> QED  BY <1>5, <1>6, <1>7, <2>1, OnlyAll
  <2> QED  BY <2>2 DEF Written
<1> HIDE DEF k
<1>10. Len(p) \in Nat /\ Len(k) \in Nat /\ Len(fp) \in Nat /\ Len(fp) <= Len(k) /\ Len(fp) <= Len(p)
  <2>1. Len(p) \in Nat /\ Len(k) \in Nat
    BY <1>2, <1>8, LenProperties
  <2> QED  BY <1>5, <1>9, <2>1 DEF Begins
<1>11. protect \in Nat /\ protect <= Len(k) /\ Len(fp) <= protect
  BY <1>10
<1>12. ASSUME NEW n \in 0 .. Len(k)
       PROVE  LET s == SubSeq(k, 1, n) IN
              s \in Seq(NoteEntry) /\ Len(s) = n /\ Begins(s, k) /\ \A i \in 1 .. n : s[i] = k[i]
  <2> DEFINE s == SubSeq(k, 1, n)
  <2>1. \A i \in 1 .. n : k[i] \in NoteEntry
    BY <1>8, <1>10, ElementOfSeq
  <2>2. /\ s \in Seq(NoteEntry) /\ Len(s) = IF 1 <= n THEN n - 1 + 1 ELSE 0
        /\ \A i \in 1 .. n - 1 + 1 : s[i] = k[1 + i - 1]
    BY <2>1, SubSeqProperties
  <2>3. Len(s) = n /\ \A i \in 1 .. n : s[i] = k[i]
    BY <2>2
  <2> HIDE DEF s
  <2>4. Begins(s, k)
    BY <1>8, <1>10, <2>2, <2>3, BeginsIs
  <2> QED  BY <2>2, <2>3, <2>4 DEF s
<1>13. Bytes(k) \in Nat /\ B \in Nat
  BY <1>8, BytesTyped, SetUpAssumption
<1>14. ASSUME ~(Bytes(k) <= B)
       PROVE  m \in fits /\ m \in protect .. Len(k) /\ (m < Len(k) => m + 1 \notin fits)
  <2>1. protect \in fits /\ fits \in SUBSET (0 .. Len(k)) /\ fits \subseteq protect .. Len(k)
    BY <1>10, <1>11
  <2>2. \E n \in fits : \A x \in fits : x <= n
    <3> HIDE DEF fits
    <3> QED  BY <1>10, <2>1, Greatest
  <2>3. m \in fits /\ \A x \in fits : x <= m
    <3> HIDE DEF fits
    <3> QED  BY <2>2
  <2> HIDE DEF m, fits, protect
  <2> QED  BY <1>10, <1>11, <2>1, <2>3
<1> DEFINE X == SubSeq(k, 1, Len(P) + 1)
<1>15. /\ P \in Seq(NoteEntry) /\ Begins(P, k) /\ Begins(fp, P)
       /\ P # k => Bytes(X) > B
       /\ fp = p => Bytes(P) <= B \/ P = p
  <2>1. CASE Bytes(k) <= B
    <3>1. P = k
      BY <1>1, <2>1
    <3>2. Begins(k, k)
      BY <1>8, <1>10, BeginsIs
    <3> QED  BY <1>8, <1>9, <2>1, <3>1, <3>2
  <2>2. CASE ~(Bytes(k) <= B)
    <3>1. m \in fits /\ m \in protect .. Len(k) /\ (m < Len(k) => m + 1 \notin fits)
      BY <1>14, <2>2
    <3>2. P = SubSeq(k, 1, m)
      BY <1>1, <2>2
    <3> HIDE DEF m
    <3>3. m \in 0 .. Len(k)
      BY <1>11, <3>1
    <3>4. P \in Seq(NoteEntry) /\ Len(P) = m /\ Begins(P, k) /\ \A i \in 1 .. m : P[i] = k[i]
      BY <1>12, <3>2, <3>3
    <3>5. Begins(fp, P)
      <4>1. Len(fp) <= m
        BY <1>10, <1>11, <3>1
      <4>2. \A i \in 1 .. Len(fp) : fp[i] = k[i]
        BY <1>5, <1>8, <1>9, BeginsIs
      <4>3. \A i \in 1 .. Len(fp) : fp[i] = P[i]
        BY <1>10, <3>3, <3>4, <4>1, <4>2
      <4> QED  BY <1>5, <3>4, <4>1, <4>3, BeginsIs
    <3>6. ASSUME P # k PROVE Bytes(X) > B
      <4>1. m # Len(k)
        <5>1. SubSeq(k, 1, Len(k)) = k
          BY <1>8, SubSeqFull
        <5> QED  BY <3>2, <3>6, <5>1
      <4>2. m < Len(k) /\ m + 1 \in protect .. Len(k) /\ m + 1 \in 0 .. Len(k)
        BY <1>10, <1>11, <3>1, <3>3, <4>1
      <4>3. ~(Bytes(X) <= B)
        BY <3>1, <3>4, <4>2
      <4>4. Bytes(X) \in Nat
        <5>1. X \in Seq(NoteEntry)
          BY <1>12, <3>4, <4>2
        <5> HIDE DEF X
        <5> QED  BY <5>1, BytesTyped
      <4> QED  BY <1>13, <4>3, <4>4
    <3>7. ASSUME fp = p PROVE Bytes(P) <= B \/ P = p
      <4>1. protect = Len(p)
        BY <1>10, <3>7
      <4>2. CASE m = protect
        <5>1. \A i \in 1 .. Len(p) : p[i] = k[i]
          BY <1>5, <1>8, <1>9, <3>7, BeginsIs
        <5>2. Len(P) = Len(p) /\ \A i \in 1 .. Len(p) : P[i] = p[i]
          BY <3>4, <4>1, <4>2, <5>1
        <5>3. P = p
          BY <1>2, <3>4, <5>2, SeqEqual
        <5> QED  BY <5>3
      <4>3. CASE m # protect
        BY <3>1, <3>2, <4>3
      <4> QED  BY <4>2, <4>3
    <3> QED  BY <3>4, <3>5, <3>6, <3>7
  <2> QED  BY <2>1, <2>2
<1> HIDE DEF X
<1>16. ASSUME NEW e \in Range(P) \ Range(p) PROVE e = Entry(e.path)
  <2>1. Among(P, es)
    BY <1>7, <1>8, <1>15, BeginsAmong, AmongAmong
  <2>2. PICK i \in 1 .. Len(P) : e = P[i]
    BY <1>15, LenProperties DEF Range
  <2>3. PICK j \in 1 .. Len(es) : e = es[j]
    BY <2>1, <2>2 DEF Among
  <2>4. /\ Len(p) \in Nat /\ Len(l) \in Nat /\ Len(es) = Len(p) + Len(l)
        /\ es[j] = IF j <= Len(p) THEN p[j] ELSE l[j - Len(p)]
    BY <1>2, <1>3, <2>3, LenProperties, ConcatProperties DEF es
  <2>5. CASE j <= Len(p)
    <3>1. j \in 1 .. Len(p) /\ DOMAIN p = 1 .. Len(p)
      BY <1>2, <2>4, <2>5, LenProperties
    <3> QED  BY <2>3, <2>4, <2>5, <3>1 DEF Range
  <2>6. CASE ~(j <= Len(p))
    <3>1. j - Len(p) \in 1 .. Len(l) /\ e = l[j - Len(p)]
      BY <2>3, <2>4, <2>6
    <3> QED  BY <1>3, <3>1
  <2> QED  BY <2>5, <2>6
<1> QED  BY <1>15, <1>16 DEF PromptKeeps, p, l, es, fp, F, k, P, X

\* A name gets a number that makes it new.
LEMMA NumberedIsNew ==
  ASSUME NEW base \in Seq(Nat), NEW used \in SUBSET Seq(Nat), IsFiniteSet(used)
  PROVE  Numbered(base, used) \in Seq(Nat) \ used
<1> DEFINE c == Cardinality(used)
           free == {n \in 2 .. c + 2 : Append(base, n) \notin used}
           n0 == CHOOSE n \in free : \A m \in free : n <= m
<1>1. c \in Nat
  BY FS_CardinalityType
<1>2. CASE base \notin used
  BY <1>2 DEF Numbered
<1>3. CASE base \in used
  <2>1. free # {}
    <3> SUFFICES ASSUME free = {} PROVE FALSE
      OBVIOUS
    <3> DEFINE D == 2 .. c + 2
               f == [n \in D |-> Append(base, n)]
    <3>1. IsFiniteSet(D) /\ Cardinality(D) = c + 1
      <4>1. 2 \in Int /\ c + 2 \in Int
        BY <1>1
      <4>2. IsFiniteSet(2 .. c + 2) /\ Cardinality(2 .. c + 2) = IF 2 > c + 2 THEN 0 ELSE (c + 2) - 2 + 1
        BY <4>1, FS_Interval
      <4> QED  BY <1>1, <4>2
    <3>2. f \in [D -> used]
      OBVIOUS
    <3>3. c < c + 1
      BY <1>1
    <3>4. PICK x \in D, y \in D : x # y /\ f[x] = f[y]
      <4> HIDE DEF D, f
      <4> QED  BY <1>1, <3>1, <3>2, <3>3, FS_PigeonHole
    <3>5. Append(base, x) = Append(base, y) /\ x \in Nat /\ y \in Nat
      BY <3>4
    <3>6. x = y
      BY <3>5, AppendProperties
    <3> QED  BY <3>4, <3>6
  <2>2. free \in SUBSET Nat
    BY <1>1
  <2>3. \E n \in free : \A m \in free : n <= m
    <3> HIDE DEF free
    <3> QED  BY <2>1, <2>2, Least
  <2>4. n0 \in free
    <3> HIDE DEF free
    <3> QED  BY <2>3
  <2>5. Numbered(base, used) = Append(base, n0)
    BY <1>3 DEF Numbered
  <2> HIDE DEF n0
  <2>6. n0 \in Nat /\ Append(base, n0) \notin used
    BY <1>1, <2>4
  <2> QED  BY <2>5, <2>6, AppendProperties
<1> QED  BY <1>2, <1>3

\* The files that are staged have names of their own, at which they are.
Disks == UNION {[D -> Nat] : D \in SUBSET Seq(Nat)}
StagedFile == [name : Seq(Nat), content : Nat]
OnDisk(s) ==
  /\ \A i \in 1 .. Len(s.staged) :
       s.staged[i].name \in DOMAIN s.disk /\ s.disk[s.staged[i].name] = s.staged[i].content
  /\ \A i, j \in 1 .. Len(s.staged) : i # j => s.staged[i].name # s.staged[j].name
Staging == {s \in [staged : Seq(StagedFile), disk : Disks] : OnDisk(s)}
Came(a) == a.name # Unset /\ a.fetched

LEMMA StageKeeps ==
  ASSUME NEW s \in Staging, NEW a \in File
  PROVE  /\ Stage(s, a) \in Staging
         /\ ~Came(a) => Stage(s, a) = s
         /\ Came(a) => \E n \in Seq(Nat) :
              Stage(s, a).staged = Append(s.staged, [name |-> n, content |-> a.content])
<1>1. CASE ~Came(a)
  BY <1>1 DEF Stage, Came
<1>2. CASE Came(a)
  <2> DEFINE st == s.staged
             used == {x.name : x \in Range(st)}
             base == safeAttachmentBasename[a.name]
             n == Numbered(base, used)
             e == [name |-> n, content |-> a.content]
             d == s.disk
             dd == [x \in DOMAIN d \cup {n} |-> IF x = n THEN a.content ELSE d[x]]
             q == Append(st, e)
             t == [staged |-> q, disk |-> dd]
  <2>1. Stage(s, a) = t
    BY <1>2 DEF Stage, Came
  <2>2. st \in Seq(StagedFile) /\ d \in Disks /\ OnDisk(s)
    BY DEF Staging
  <2>3. Len(st) \in Nat /\ DOMAIN st = 1 .. Len(st) /\ \A i \in 1 .. Len(st) : st[i] \in StagedFile
    BY <2>2, LenProperties, ElementOfSeq
  <2>4. IsFiniteSet(used) /\ used \in SUBSET Seq(Nat) /\ \A i \in 1 .. Len(st) : st[i].name \in used
    <3> DEFINE f == [i \in 1 .. Len(st) |-> st[i].name]
    <3>1. IsFiniteSet(1 .. Len(st))
      <4>1. Len(st) \in Int
        BY <2>3
      <4> HIDE DEF st
      <4> QED  BY <4>1, FS_Interval
    <3>2. used = {f[i] : i \in 1 .. Len(st)}
      BY <2>3 DEF Range
    <3>3. IsFiniteSet({f[i] : i \in 1 .. Len(st)})
      <4> HIDE DEF f
      <4>1. f \in Surjection(1 .. Len(st), {f[i] : i \in 1 .. Len(st)})
        <5>1. f = [i \in 1 .. Len(st) |-> f[i]]
          BY DEF f
        <5> QED  BY <5>1 DEF Surjection
      <4> QED  BY <3>1, <4>1, FS_Surjection
    <3>4. \A i \in 1 .. Len(st) : st[i].name \in Seq(Nat)
      BY <2>3 DEF StagedFile
    <3>5. \A i \in 1 .. Len(st) : f[i] = st[i].name
      OBVIOUS
    <3> HIDE DEF f, st
    <3> QED  BY <3>2, <3>3, <3>4, <3>5
  <2>5. base \in Seq(Nat)
    <3>1. a.name \in DOMAIN safeAttachmentBasename
      BY <1>2 DEF Came, File
    <3> QED  BY <3>1, SetUpAssumption
  <2> HIDE DEF used, base, st, d
  <2>6. n \in Seq(Nat) \ used
    BY <2>4, <2>5, NumberedIsNew
  <2>7. a.content \in Nat
    BY DEF File
  <2> HIDE DEF n
  <2>8. e \in StagedFile
    BY <2>6, <2>7 DEF StagedFile
  <2>9. /\ q \in Seq(StagedFile) /\ Len(q) = Len(st) + 1
        /\ q[Len(st) + 1] = e /\ \A i \in 1 .. Len(st) : q[i] = st[i]
    <3> HIDE DEF e
    <3> QED  BY <2>2, <2>8, AppendProperties
  <2>10. dd \in Disks
    <3>1. PICK D \in SUBSET Seq(Nat) : d \in [D -> Nat]
      BY <2>2 DEF Disks
    <3>2. D \cup {n} \in SUBSET Seq(Nat) /\ DOMAIN d = D
      BY <2>6, <3>1
    <3>3. dd \in [D \cup {n} -> Nat]
      BY <2>7, <3>1, <3>2
    <3> QED  BY <3>2, <3>3 DEF Disks
  <2>11. dd[n] = a.content /\ n \in DOMAIN dd /\ \A x \in DOMAIN d : x \in DOMAIN dd /\ (x # n => dd[x] = d[x])
    OBVIOUS
  <2>12. e.name = n /\ e.content = a.content
    OBVIOUS
  <2> HIDE DEF dd, q, e
  <2>13. ASSUME NEW i \in 1 .. Len(q) PROVE q[i].name \in DOMAIN dd /\ dd[q[i].name] = q[i].content
    <3>1. CASE i = Len(st) + 1
      BY <2>9, <2>11, <2>12, <3>1
    <3>2. CASE i \in 1 .. Len(st)
      <4>1. q[i] = st[i] /\ st[i].name \in DOMAIN d /\ d[st[i].name] = st[i].content
        BY <2>2, <2>9, <3>2 DEF OnDisk, st, d
      <4>2. st[i].name # n
        BY <2>4, <2>6, <3>2
      <4> QED  BY <2>11, <4>1, <4>2
    <3> QED  BY <2>3, <2>9, <3>1, <3>2
  <2>14. ASSUME NEW i \in 1 .. Len(q), NEW j \in 1 .. Len(q), i # j PROVE q[i].name # q[j].name
    <3>1. ASSUME NEW x \in 1 .. Len(st) PROVE q[x].name # n /\ q[x].name = st[x].name
      BY <2>4, <2>6, <2>9
    <3>2. q[Len(st) + 1].name = n
      BY <2>9, <2>12
    <3>3. CASE i \in 1 .. Len(st) /\ j \in 1 .. Len(st)
      BY <2>2, <2>14, <3>1, <3>3 DEF OnDisk, st
    <3>4. CASE i = Len(st) + 1 /\ j \in 1 .. Len(st)
      BY <3>1, <3>2, <3>4
    <3>5. CASE j = Len(st) + 1 /\ i \in 1 .. Len(st)
      BY <3>1, <3>2, <3>5
    <3> QED  BY <2>3, <2>9, <2>14, <3>3, <3>4, <3>5
  <2>15. t \in [staged : Seq(StagedFile), disk : Disks] /\ t.staged = q /\ t.disk = dd
    BY <2>9, <2>10
  <2>16. OnDisk(t)
    <3> HIDE DEF t
    <3> QED  BY <2>13, <2>14, <2>15 DEF OnDisk
  <2>17. t \in Staging
    <3> HIDE DEF t
    <3> QED  BY <2>15, <2>16 DEF Staging
  <2>18. Stage(s, a).staged = Append(s.staged, [name |-> n, content |-> a.content])
    BY <2>1, <2>15 DEF q, e, st
  <2> QED  BY <1>2, <2>1, <2>6, <2>17, <2>18
<1> QED  BY <1>1, <1>2

LEMMA AllStagedIs ==
  ASSUME NEW atts \in Seq(File), NEW earlier \in Disks
  PROVE  LET f == AllStaged(atts, earlier) IN
         /\ f \in [0 .. Len(atts) -> Staging] /\ f[0] = [staged |-> <<>>, disk |-> earlier]
         /\ \A i \in 1 .. Len(atts) : f[i] = Stage(f[i - 1], atts[i])
<1> DEFINE N == Len(atts)
           b == [staged |-> <<>>, disk |-> earlier]
           Step(q, i) == Stage(q, atts[i])
           F == [x \in Staging \X (1 .. N) |-> Step(x[1], x[2])]
           Body(g) == [i \in 0 .. N |-> IF i = 0 THEN b ELSE Step(g[i - 1], i)]
           f == CHOOSE g : g = Body(g)
<1>0. N \in Nat /\ b \in Staging
  <2>1. <<>> \in Seq(StagedFile) /\ Len(<<>>) = 0
    BY EmptySeq
  <2>2. b \in [staged : Seq(StagedFile), disk : Disks] /\ b.staged = <<>>
    BY <2>1
  <2> HIDE DEF b
  <2>3. OnDisk(b)
    BY <2>1, <2>2 DEF OnDisk
  <2> QED  BY <2>2, <2>3, LenProperties DEF Staging
<1>1. ASSUME NEW q \in Staging, NEW i \in 1 .. N PROVE Step(q, i) \in Staging
  <2>1. atts[i] \in File
    BY ElementOfSeq
  <2> QED  BY <2>1, StageKeeps
<1>2. \A q \in Staging, i \in 1 .. N : F[<<q, i>>] = Step(q, i)
  <2> HIDE DEF Step, N
  <2> QED  OBVIOUS
<1>3. StepOf(F, Staging, N)
  <2> HIDE DEF Step, N
  <2> QED  BY <1>1 DEF StepOf
<1> HIDE DEF F, Step, N, b
<1>4. PICK g \in [0 .. N -> Staging] : Follows(g, b, F, N)
  <2> HIDE DEF Body, f
  <2> QED  BY <1>0, <1>3, StepByStep
<1>5. g = Body(g)
  <2>1. ASSUME NEW i \in 1 .. N PROVE g[i] = Step(g[i - 1], i)
    <3>1. i - 1 \in 0 .. N
      BY <1>0
    <3>2. g[i - 1] \in Staging /\ g[i] = F[<<g[i - 1], i>>]
      BY <1>4, <3>1 DEF Follows
    <3> QED  BY <1>2, <3>2
  <2>2. \A i \in 0 .. N : g[i] = IF i = 0 THEN b ELSE Step(g[i - 1], i)
    BY <1>0, <1>4, <2>1 DEF Follows
  <2> QED  BY <1>4, <2>2
<1>6. f = Body(f)
  BY <1>5
<1>7. AllStaged(atts, earlier) = f
  BY DEF AllStaged, Step, N, b
<1> HIDE DEF f
<1>8. f[0] = b /\ \A i \in 1 .. N : f[i] = Step(f[i - 1], i)
  BY <1>0, <1>6
<1> DEFINE T == {i \in 0 .. N : f[i] \in Staging}
<1>9. 0 \in T
  BY <1>0, <1>8
<1>10. ASSUME NEW i \in 1 .. N, i - 1 \in T PROVE i \in T
  <2>1. f[i - 1] \in Staging /\ f[i] = Step(f[i - 1], i)
    BY <1>8, <1>10
  <2>2. f[i] \in Staging
    BY <1>1, <2>1
  <2> QED  BY <1>0, <2>2
<1>11. \A i \in 0 .. N : i \in T
  <2> HIDE DEF T
  <2> QED  BY <1>0, <1>9, <1>10, UpTo
<1>12. f \in [0 .. N -> Staging]
  <2>1. f = [i \in 0 .. N |-> f[i]]
    BY <1>6
  <2> QED  BY <1>11, <2>1
<1> QED  BY <1>7, <1>8, <1>12 DEF N, Step, b

\* The files that came, in their order, each with its own content.
LEMMA StagedAsTheyCame ==
  ASSUME NEW atts \in Seq(File)
  PROVE  FilesAreTheirOwn(atts)
<1> DEFINE capped == Capped(atts)
           N == Len(capped)
           left0 == [n \in Range(safeAttachmentBasename) |-> 0]
           I == {i \in DOMAIN capped : capped[i].name # Unset /\ capped[i].fetched}
           came == Only(capped, I)
           f == AllStaged(capped, left0)
           s == stageAttachments(atts, left0)
<1>1. capped \in Seq(File)
  <2> DEFINE c == IF Len(atts) < ATTACHMENT_MAX_COUNT THEN Len(atts) ELSE ATTACHMENT_MAX_COUNT
  <2>1. c \in Nat /\ c <= Len(atts)
    BY LenProperties, SetUpAssumption
  <2>2. \A i \in 1 .. c : atts[i] \in File
    BY <2>1, LenProperties, ElementOfSeq
  <2>3. capped = SubSeq(atts, 1, c)
    BY DEF Capped
  <2> HIDE DEF c
  <2>4. SubSeq(atts, 1, c) \in Seq(File)
    BY <2>1, <2>2, SubSeqProperties
  <2> QED  BY <2>3, <2>4
<1>2. s = f[N]
  BY DEF stageAttachments
<1> HIDE DEF capped, s
<1>3. N \in Nat /\ (\A i \in 1 .. N : capped[i] \in File) /\ DOMAIN capped = 1 .. N
  BY <1>1, LenProperties, ElementOfSeq
<1>4. left0 \in Disks
  <2> DEFINE D == Range(safeAttachmentBasename)
  <2>1. D \in SUBSET Seq(Nat)
    BY SetUpAssumption DEF Range
  <2> HIDE DEF D
  <2>2. [n \in D |-> 0] \in [D -> Nat]
    OBVIOUS
  <2> QED  BY <2>1, <2>2 DEF Disks, D
<1> HIDE DEF left0
<1>5. /\ f \in [0 .. N -> Staging] /\ f[0] = [staged |-> <<>>, disk |-> left0]
      /\ \A i \in 1 .. N : f[i] = Stage(f[i - 1], capped[i])
  BY <1>1, <1>4, AllStagedIs
<1>6. \A i \in 1 .. N : i \in I <=> Came(capped[i])
  BY <1>3 DEF Came
<1> HIDE DEF I, N, f
<1>7. PICK h \in [0 .. N -> Seq(File)] : Picks(h, capped, I)
  BY <1>1, OnlyIs DEF N
<1>8. /\ h[0] = <<>> /\ h[N] = came
      /\ \A i \in 1 .. N : h[i] = IF i \in I THEN Append(h[i - 1], capped[i]) ELSE h[i - 1]
  BY <1>7 DEF Picks, N
<1> DEFINE Same(q, r) == Len(q) = Len(r) /\ \A x \in 1 .. Len(r) : q[x].content = r[x].content
           T == {i \in 0 .. N : Same(f[i].staged, h[i])}
<1>9. 0 \in T
  BY <1>3, <1>5, <1>8, EmptySeq
<1>10. ASSUME NEW i \in 1 .. N, i - 1 \in T PROVE i \in T
  <2> DEFINE q == f[i - 1].staged
             r == h[i - 1]
             a == capped[i]
  <2>1. f[i - 1] \in Staging /\ h[i - 1] \in Seq(File) /\ a \in File
    <3>1. i - 1 \in 0 .. N
      BY <1>3
    <3> QED  BY <1>3, <1>5, <1>7, <3>1
  <2>2. q \in Seq(StagedFile) /\ r \in Seq(File)
    BY <2>1 DEF Staging
  <2>3. Same(q, r)
    BY <1>10
  <2>4. f[i] = Stage(f[i - 1], a)
    BY <1>5
  <2>5. CASE ~Came(a)
    <3>1. f[i] = f[i - 1] /\ h[i] = h[i - 1]
      <4>1. i \notin I
        BY <1>6, <2>5
      <4> QED  BY <1>8, <2>1, <2>4, <2>5, <4>1, StageKeeps
    <3> QED  BY <1>3, <2>3, <3>1
  <2>6. CASE Came(a)
    <3>1. PICK n \in Seq(Nat) : f[i].staged = Append(q, [name |-> n, content |-> a.content])
      <4>1. PICK u \in Staging, b \in File : u = f[i - 1] /\ b = a
        BY <2>1
      <4>2. PICK n \in Seq(Nat) : Stage(u, b).staged = Append(u.staged, [name |-> n, content |-> b.content])
        BY <2>6, <4>1, StageKeeps
      <4> QED  BY <2>4, <4>1, <4>2
    <3>2. h[i] = Append(r, a)
      <4>1. i \in I
        BY <1>6, <2>6
      <4> QED  BY <1>8, <4>1
    <3> DEFINE e == [name |-> n, content |-> a.content]
               qq == Append(q, e)
               rr == Append(r, a)
    <3>3. e \in StagedFile /\ e.content = a.content
      BY <2>1 DEF StagedFile, File
    <3> HIDE DEF e, q, r, a
    <3>4. Len(qq) = Len(q) + 1 /\ qq[Len(q) + 1] = e /\ \A x \in 1 .. Len(q) : qq[x] = q[x]
      BY <2>2, <3>3, AppendProperties
    <3>5. Len(rr) = Len(r) + 1 /\ rr[Len(r) + 1] = a /\ (\A x \in 1 .. Len(r) : rr[x] = r[x]) /\ Len(r) \in Nat
      BY <2>1, <2>2, AppendProperties, LenProperties
    <3> HIDE DEF qq, rr
    <3>6. Same(qq, rr)
      <4>1. ASSUME NEW x \in 1 .. Len(rr) PROVE qq[x].content = rr[x].content
        <5>1. CASE x = Len(r) + 1
          BY <2>3, <3>3, <3>4, <3>5, <5>1
        <5>2. CASE x \in 1 .. Len(r)
          BY <2>3, <3>4, <3>5, <5>2
        <5> QED  BY <3>5, <5>1, <5>2
      <4> QED  BY <2>3, <3>4, <3>5, <4>1
    <3>7. Same(f[i].staged, h[i])
      <4> HIDE DEF Same
      <4> QED  BY <3>1, <3>2, <3>6 DEF qq, rr, e
    <3> QED  BY <1>3, <3>7
  <2> QED  BY <2>5, <2>6
<1>11. \A i \in 0 .. N : i \in T
  <2> HIDE DEF T
  <2> QED  BY <1>3, <1>9, <1>10, UpTo
<1>12. Same(s.staged, came) /\ s \in Staging /\ came \in Seq(File)
  <2>1. N \in 0 .. N
    BY <1>3
  <2>2. N \in T
    <3> HIDE DEF T
    <3> QED  BY <1>11, <2>1
  <2> QED  BY <1>2, <1>5, <1>7, <1>8, <2>1, <2>2
<1>13. ASSUME NEW x \in Range(s.staged) PROVE s.disk[x.name] = x.content
  <2>1. s.staged \in Seq(StagedFile) /\ OnDisk(s)
    BY <1>12 DEF Staging
  <2>2. PICK i \in 1 .. Len(s.staged) : x = s.staged[i]
    BY <2>1, LenProperties DEF Range
  <2> QED  BY <2>1, <2>2 DEF OnDisk
<1>14. DOMAIN came = 1 .. Len(came)
  <2> HIDE DEF came
  <2> QED  BY <1>12, LenProperties
<1>15. /\ Len(s.staged) = Len(came) /\ \A i \in DOMAIN came : s.staged[i].content = came[i].content
       /\ \A x \in Range(s.staged) : s.disk[x.name] = x.content
  <2> HIDE DEF came
  <2> QED  BY <1>12, <1>13, <1>14
<1> QED  BY <1>15 DEF FilesAreTheirOwn, s, came, I, capped, left0

WantedConn ==
  [kind : {"vault", "surface", "service", "mcp"}, target : STRING \cup {lower[x] : x \in STRING},
   inject : SUBSET STRING, access : STRING \cup {""}]

LEMMA WantIs == ASSUME NEW e \in Want, parseOneWant(e) # Malformed PROVE parseOneWant(e) \in WantedConn
<1> DEFINE T == STRING \cup {lower[x] : x \in STRING}
<1>1. ASSUME NEW k \in {"vault", "surface", "service", "mcp"}, NEW t \in T, NEW i \in SUBSET STRING,
             NEW a \in STRING \cup {""}
      PROVE  Connection(k, t, i, a) \in WantedConn
  BY DEF Connection, WantedConn
<1>2. e.name \in T /\ lower[e.name] \in T /\ e.prefix \in STRING /\ e.verb \in STRING
  BY DEF Want
<1>20. {} \in SUBSET STRING /\ {e.prefix} \in SUBSET STRING
  BY <1>2
<1> HIDE DEF T
<1>3. CASE e.prefix = "vault" /\ e.name \in Slugs /\ e.verb \in {"read", "write"}
  <2>1. parseOneWant(e) = Connection("vault", e.name, {}, e.verb)
    BY <1>3 DEF parseOneWant
  <2>2. Connection("vault", e.name, {}, e.verb) \in WantedConn
    BY <1>1, <1>2, <1>20
  <2> QED  BY <2>1, <2>2
<1>4. CASE e.prefix = "surface" /\ e.name \in Slugs /\ e.verb \in {"read", "write"}
  <2>1. parseOneWant(e) = Connection("surface", lower[e.name], {}, e.verb)
    BY <1>4 DEF parseOneWant
  <2>2. Connection("surface", lower[e.name], {}, e.verb) \in WantedConn
    BY <1>1, <1>2, <1>20
  <2> QED  BY <2>1, <2>2
<1>5. CASE e.prefix \in {"env", "mcp"}
  <2>1. parseOneWant(e) \in {Connection("service", e.name, {e.prefix}, ""), Connection("mcp", e.name, {}, ""), Malformed}
    BY <1>5 DEF parseOneWant
  <2>2. Connection("service", e.name, {e.prefix}, "") \in WantedConn
    BY <1>1, <1>2, <1>20
  <2>3. Connection("mcp", e.name, {}, "") \in WantedConn
    BY <1>1, <1>2, <1>20
  <2> QED  BY <2>1, <2>2, <2>3
<1>6. CASE ~(e.prefix = "vault" /\ e.name \in Slugs /\ e.verb \in {"read", "write"})
           /\ ~(e.prefix = "surface" /\ e.name \in Slugs /\ e.verb \in {"read", "write"})
           /\ e.prefix \notin {"env", "mcp"}
  BY <1>6 DEF parseOneWant
<1> QED  BY <1>3, <1>4, <1>5, <1>6

\* Which of the entries c a connection stands for, and how those up to n are in W.
Fits(x, y) == x = y \/ SameService(x, y)
MergedTo(c, n, W) ==
  /\ \A i \in 1 .. n : \E k \in 1 .. Len(W) : Fits(c[i], W[k])
  /\ \A k \in 1 .. Len(W) : \E i \in 1 .. n : Fits(c[i], W[k])
  /\ \A k \in 1 .. Len(W) : \A x : x \in W[k].inject <=> \E i \in 1 .. n : Fits(c[i], W[k]) /\ x \in c[i].inject
  /\ \A k, l \in 1 .. Len(W) : k < l =>
       ~SameService(W[k], W[l]) /\ \E a, b \in 1 .. n : a < b /\ Fits(c[a], W[k]) /\ Fits(c[b], W[l])

\* The modes do not matter to which service it is.
LEMMA FitsService ==
  ASSUME NEW x, NEW y, NEW z, SameService(y, z)
  PROVE  Fits(x, y) <=> Fits(x, z)
BY DEF Fits, SameService

LEMMA MergedKeeps ==
  ASSUME NEW N \in Nat, NEW c \in [1 .. N -> WantedConn], NEW n \in 1 .. N,
         NEW W \in Seq(WantedConn), MergedTo(c, n - 1, W)
  PROVE  Merged(W, c[n]) \in Seq(WantedConn) /\ MergedTo(c, n, Merged(W, c[n]))
<1> DEFINE d == c[n]
           V == Merged(W, d)
<1>1. /\ Len(W) \in Nat /\ DOMAIN W = 1 .. Len(W) /\ (\A k \in 1 .. Len(W) : W[k] \in WantedConn)
      /\ d \in WantedConn
  BY LenProperties, ElementOfSeq
<1>2. CASE \E k \in 1 .. Len(W) : SameService(W[k], d)
  <2>1. V = [k \in 1 .. Len(W) |->
               IF SameService(W[k], d) THEN [W[k] EXCEPT !.inject = @ \cup d.inject] ELSE W[k]]
    BY <1>1, <1>2 DEF Merged
  <2>2. ASSUME NEW k \in 1 .. Len(W), SameService(W[k], d)
        PROVE  /\ V[k] \in WantedConn /\ SameService(V[k], W[k]) /\ SameService(V[k], d)
               /\ V[k].inject = W[k].inject \cup d.inject
    <3> DEFINE w == W[k]
               v == V[k]
    <3>1. v = [w EXCEPT !.inject = @ \cup d.inject]
      BY <2>1, <2>2
    <3>2. w \in WantedConn /\ d \in WantedConn /\ SameService(w, d)
      BY <1>1, <2>2
    <3> HIDE DEF V, d, v, w
    <3>3. /\ v.kind = w.kind /\ v.target = w.target /\ v.access = w.access /\ v.inject = w.inject \cup d.inject
          /\ v = [kind |-> v.kind, target |-> v.target, inject |-> v.inject, access |-> v.access]
      BY <3>1, <3>2 DEF WantedConn
    <3>4. v.inject \in SUBSET STRING
      BY <3>2, <3>3 DEF WantedConn
    <3>5. v \in WantedConn
      BY <3>2, <3>3, <3>4 DEF WantedConn
    <3>6. SameService(v, w) /\ SameService(v, d)
      BY <3>2, <3>3 DEF SameService
    <3> QED  BY <3>3, <3>5, <3>6 DEF v, w
  <2>3. ASSUME NEW k \in 1 .. Len(W), ~SameService(W[k], d)
        PROVE  V[k] = W[k] /\ ~Fits(d, W[k])
    <3>1. d.kind = "service"
      BY <1>2 DEF SameService
    <3> QED  BY <2>1, <2>3, <3>1 DEF Fits, SameService
  <2>4. V \in [1 .. Len(W) -> WantedConn]
    <3>1. \A k \in 1 .. Len(W) : V[k] \in WantedConn
      BY <1>1, <2>2, <2>3
    <3> QED  BY <2>1, <3>1
  <2>5. V \in Seq(WantedConn) /\ Len(V) = Len(W)
    <3> HIDE DEF V
    <3> QED  BY <1>1, <2>4, FunctionIsSeq
  <2> HIDE DEF V
  <2>6. \A k \in 1 .. Len(W) : \A x : Fits(x, V[k]) <=> Fits(x, W[k])
    BY <2>2, <2>3, FitsService
  <2>7. \A k \in 1 .. Len(W) : Fits(d, V[k]) <=> SameService(W[k], d)
    <3>1. ASSUME NEW k \in 1 .. Len(W), SameService(W[k], d) PROVE Fits(d, V[k])
      BY <2>2, <3>1 DEF Fits, SameService
    <3>2. ASSUME NEW k \in 1 .. Len(W), ~SameService(W[k], d) PROVE ~Fits(d, V[k])
      BY <2>3, <3>2
    <3> QED  BY <3>1, <3>2
  <2>8. ASSUME NEW i \in 1 .. n PROVE \E k \in 1 .. Len(V) : Fits(c[i], V[k])
    <3>1. CASE i = n
      BY <1>2, <2>5, <2>7, <3>1
    <3>2. CASE i \in 1 .. n - 1
      BY <2>5, <2>6, <3>2 DEF MergedTo
    <3> QED  BY <3>1, <3>2
  <2>9. ASSUME NEW k \in 1 .. Len(V) PROVE \E i \in 1 .. n : Fits(c[i], V[k])
    <3>1. PICK i \in 1 .. n - 1 : Fits(c[i], W[k])
      BY <2>5 DEF MergedTo
    <3>2. i \in 1 .. n
      OBVIOUS
    <3> QED  BY <2>5, <2>6, <3>1, <3>2
  <2>10. ASSUME NEW k \in 1 .. Len(V), NEW x
         PROVE  x \in V[k].inject <=> \E i \in 1 .. n : Fits(c[i], V[k]) /\ x \in c[i].inject
    <3>1. x \in W[k].inject <=> \E i \in 1 .. n - 1 : Fits(c[i], W[k]) /\ x \in c[i].inject
      BY <2>5 DEF MergedTo
    <3>2. (\E i \in 1 .. n : Fits(c[i], V[k]) /\ x \in c[i].inject)
            <=> (\E i \in 1 .. n - 1 : Fits(c[i], V[k]) /\ x \in c[i].inject) \/ (Fits(d, V[k]) /\ x \in d.inject)
      <4>1. \A i \in 1 .. n : i = n \/ i \in 1 .. n - 1
        OBVIOUS
      <4>2. n \in 1 .. n /\ \A i \in 1 .. n - 1 : i \in 1 .. n
        OBVIOUS
      <4> QED  BY <4>1, <4>2
    <3>3. (\E i \in 1 .. n - 1 : Fits(c[i], V[k]) /\ x \in c[i].inject) <=> x \in W[k].inject
      BY <2>5, <2>6, <3>1
    <3>4. CASE SameService(W[k], d)
      BY <2>2, <2>5, <2>7, <3>2, <3>3, <3>4
    <3>5. CASE ~SameService(W[k], d)
      BY <2>3, <2>5, <2>7, <3>2, <3>3, <3>5
    <3> QED  BY <3>4, <3>5
  <2>11. ASSUME NEW k \in 1 .. Len(V), NEW l \in 1 .. Len(V), k < l
         PROVE  ~SameService(V[k], V[l]) /\ \E a, b \in 1 .. n : a < b /\ Fits(c[a], V[k]) /\ Fits(c[b], V[l])
    <3>1. ~SameService(W[k], W[l])
      BY <2>5, <2>11 DEF MergedTo
    <3>2. PICK a \in 1 .. n - 1, b \in 1 .. n - 1 : a < b /\ Fits(c[a], W[k]) /\ Fits(c[b], W[l])
      BY <2>5, <2>11 DEF MergedTo
    <3>3. ~SameService(V[k], V[l])
      <4>1. SameService(V[k], W[k]) \/ V[k] = W[k]
        BY <2>2, <2>3, <2>5
      <4>2. SameService(V[l], W[l]) \/ V[l] = W[l]
        BY <2>2, <2>3, <2>5
      <4> QED  BY <3>1, <4>1, <4>2 DEF SameService
    <3>4. a \in 1 .. n /\ b \in 1 .. n
      OBVIOUS
    <3> QED  BY <2>5, <2>6, <3>2, <3>3, <3>4
  <2> QED  BY <2>5, <2>8, <2>9, <2>10, <2>11 DEF MergedTo, V
<1>3. CASE ~\E k \in 1 .. Len(W) : SameService(W[k], d)
  <2>1. V = Append(W, d)
    BY <1>1, <1>3 DEF Merged
  <2>2. /\ V \in Seq(WantedConn) /\ Len(V) = Len(W) + 1
        /\ V[Len(W) + 1] = d /\ \A k \in 1 .. Len(W) : V[k] = W[k]
    BY <1>1, <2>1, AppendProperties
  <2> HIDE DEF V
  <2>3. n \in 1 .. n /\ (\A i \in 1 .. n - 1 : i \in 1 .. n) /\ \A i \in 1 .. n : i = n \/ i \in 1 .. n - 1
    OBVIOUS
  <2>4. /\ Len(V) \in 1 .. Len(V) /\ V[Len(V)] = d /\ (\A k \in 1 .. Len(W) : k \in 1 .. Len(V) /\ k < Len(V))
        /\ \A k \in 1 .. Len(V) : k = Len(V) \/ k \in 1 .. Len(W)
    BY <1>1, <2>2
  <2>5. Fits(d, d)
    BY DEF Fits
  <2>6. ASSUME NEW k \in 1 .. Len(W), Fits(d, W[k]) PROVE d = W[k]
    BY <1>3, <2>6 DEF Fits, SameService
  <2>7. ASSUME NEW i \in 1 .. n - 1, Fits(c[i], d) PROVE c[i] = d
    <3> SUFFICES ASSUME SameService(c[i], d) PROVE FALSE
      BY <2>7 DEF Fits
    <3>1. PICK k \in 1 .. Len(W) : Fits(c[i], W[k])
      BY DEF MergedTo
    <3> QED  BY <1>3, <3>1 DEF Fits, SameService
  <2>8. ASSUME NEW i \in 1 .. n PROVE \E k \in 1 .. Len(V) : Fits(c[i], V[k])
    <3>1. CASE i = n
      BY <2>4, <2>5, <3>1
    <3>2. CASE i \in 1 .. n - 1
      <4>1. PICK k \in 1 .. Len(W) : Fits(c[i], W[k])
        BY <3>2 DEF MergedTo
      <4> QED  BY <2>2, <2>4, <4>1
    <3> QED  BY <2>3, <3>1, <3>2
  <2>9. ASSUME NEW k \in 1 .. Len(V) PROVE \E i \in 1 .. n : Fits(c[i], V[k])
    <3>1. CASE k = Len(V)
      BY <2>3, <2>4, <2>5, <3>1
    <3>2. CASE k \in 1 .. Len(W)
      <4>1. PICK i \in 1 .. n - 1 : Fits(c[i], W[k])
        BY <3>2 DEF MergedTo
      <4> QED  BY <2>2, <2>3, <3>2, <4>1
    <3> QED  BY <2>4, <3>1, <3>2
  <2>10. ASSUME NEW k \in 1 .. Len(V), NEW x
         PROVE  x \in V[k].inject <=> \E i \in 1 .. n : Fits(c[i], V[k]) /\ x \in c[i].inject
    <3>1. CASE k = Len(V)
      <4>1. V[k] = d
        BY <2>4, <3>1
      <4>2. ASSUME NEW i \in 1 .. n, Fits(c[i], d) PROVE c[i] = d
        BY <2>3, <2>7, <4>2
      <4> QED  BY <2>3, <2>5, <4>1, <4>2
    <3>2. CASE k \in 1 .. Len(W)
      <4>1. V[k] = W[k]
        BY <2>2, <3>2
      <4>2. x \in W[k].inject <=> \E i \in 1 .. n - 1 : Fits(c[i], W[k]) /\ x \in c[i].inject
        BY <3>2 DEF MergedTo
      <4>3. Fits(d, W[k]) => d = W[k]
        BY <2>6, <3>2
      <4> QED  BY <2>3, <4>1, <4>2, <4>3
    <3> QED  BY <2>4, <3>1, <3>2
  <2>11. ASSUME NEW k \in 1 .. Len(V), NEW l \in 1 .. Len(V), k < l
         PROVE  ~SameService(V[k], V[l]) /\ \E a, b \in 1 .. n : a < b /\ Fits(c[a], V[k]) /\ Fits(c[b], V[l])
    <3>0. k \in 1 .. Len(W) /\ V[k] = W[k]
      BY <1>1, <2>2, <2>11
    <3>1. CASE l = Len(V)
      <4>1. PICK a \in 1 .. n - 1 : Fits(c[a], W[k])
        BY <3>0 DEF MergedTo
      <4>2. a < n /\ a \in 1 .. n
        OBVIOUS
      <4> QED  BY <1>3, <2>3, <2>4, <2>5, <3>0, <3>1, <4>1, <4>2
    <3>2. CASE l \in 1 .. Len(W)
      <4>1. V[l] = W[l]
        BY <2>2, <3>2
      <4>2. ~SameService(W[k], W[l])
        BY <2>11, <3>0, <3>2 DEF MergedTo
      <4>3. PICK a \in 1 .. n - 1, b \in 1 .. n - 1 : a < b /\ Fits(c[a], W[k]) /\ Fits(c[b], W[l])
        BY <2>11, <3>0, <3>2 DEF MergedTo
      <4> QED  BY <2>3, <3>0, <4>1, <4>2, <4>3
    <3> QED  BY <2>4, <3>1, <3>2
  <2> QED  BY <2>2, <2>8, <2>9, <2>10, <2>11 DEF MergedTo, V
<1> QED  BY <1>2, <1>3


LEMMA MergedTyped ==
  ASSUME NEW W \in Seq(WantedConn), NEW d \in WantedConn
  PROVE  Merged(W, d) \in Seq(WantedConn)
<1>1. Len(W) \in Nat /\ DOMAIN W = 1 .. Len(W) /\ \A k \in 1 .. Len(W) : W[k] \in WantedConn
  BY LenProperties, ElementOfSeq
<1>2. CASE \E k \in DOMAIN W : SameService(W[k], d)
  <2> DEFINE V == [k \in 1 .. Len(W) |->
                     IF SameService(W[k], d) THEN [W[k] EXCEPT !.inject = @ \cup d.inject] ELSE W[k]]
  <2>1. Merged(W, d) = V
    BY <1>1, <1>2 DEF Merged
  <2>2. ASSUME NEW k \in 1 .. Len(W) PROVE V[k] \in WantedConn
    BY <1>1 DEF WantedConn
  <2>3. V \in [1 .. Len(W) -> WantedConn]
    BY <2>2
  <2> HIDE DEF V
  <2> QED  BY <1>1, <2>1, <2>3, FunctionIsSeq
<1>3. CASE ~\E k \in DOMAIN W : SameService(W[k], d)
  BY <1>3, AppendProperties DEF Merged
<1> QED  BY <1>2, <1>3

\* The connections, one want after the other.
LEMMA AllMergedIs ==
  ASSUME NEW E \in Seq(Want), \A i \in 1 .. Len(E) : parseOneWant(E[i]) # Malformed
  PROVE  LET f == AllMerged(E) IN
         /\ f \in [0 .. Len(E) -> Seq(WantedConn)] /\ f[0] = <<>>
         /\ \A i \in 1 .. Len(E) : f[i] = Merged(f[i - 1], parseOneWant(E[i]))
<1> DEFINE N == Len(E)
           X == Seq(WantedConn)
           Step(q, i) == Merged(q, parseOneWant(E[i]))
           F == [x \in X \X (1 .. N) |-> Step(x[1], x[2])]
           Body(g) == [i \in 0 .. N |-> IF i = 0 THEN <<>> ELSE Step(g[i - 1], i)]
           f == CHOOSE g : g = Body(g)
<1>0. N \in Nat /\ <<>> \in X
  BY LenProperties, EmptySeq
<1>1. ASSUME NEW q \in X, NEW i \in 1 .. N PROVE Step(q, i) \in X
  <2>1. E[i] \in Want
    BY ElementOfSeq
  <2>2. parseOneWant(E[i]) \in WantedConn
    BY <2>1, WantIs
  <2> QED  BY <2>2, MergedTyped
<1>2. \A q \in X, i \in 1 .. N : F[<<q, i>>] = Step(q, i)
  <2> HIDE DEF Step, X, N
  <2> QED  OBVIOUS
<1>3. StepOf(F, X, N)
  <2> HIDE DEF Step, X, N
  <2> QED  BY <1>1 DEF StepOf
<1> HIDE DEF F, Step, N, X
<1>4. PICK g \in [0 .. N -> X] : Follows(g, <<>>, F, N)
  <2> HIDE DEF Body, f
  <2> QED  BY <1>0, <1>3, StepByStep
<1>5. g = Body(g)
  <2>1. ASSUME NEW i \in 1 .. N PROVE g[i] = Step(g[i - 1], i)
    <3>1. i - 1 \in 0 .. N
      BY <1>0
    <3>2. g[i - 1] \in X /\ g[i] = F[<<g[i - 1], i>>]
      BY <1>4, <3>1 DEF Follows
    <3> QED  BY <1>2, <3>2
  <2>2. \A i \in 0 .. N : g[i] = IF i = 0 THEN <<>> ELSE Step(g[i - 1], i)
    BY <1>0, <1>4, <2>1 DEF Follows
  <2> QED  BY <1>4, <2>2
<1>6. f = Body(f)
  BY <1>5
<1>7. AllMerged(E) = f
  BY DEF AllMerged, Step, N
<1> HIDE DEF f
<1>8. f[0] = <<>> /\ \A i \in 1 .. N : f[i] = Step(f[i - 1], i)
  BY <1>0, <1>6
<1> DEFINE T == {i \in 0 .. N : f[i] \in X}
<1>9. 0 \in T
  BY <1>0, <1>8
<1>10. ASSUME NEW i \in 1 .. N, i - 1 \in T PROVE i \in T
  <2>1. f[i - 1] \in X /\ f[i] = Step(f[i - 1], i)
    BY <1>8, <1>10
  <2>2. f[i] \in X
    BY <1>1, <2>1
  <2> QED  BY <1>0, <2>2
<1>11. \A i \in 0 .. N : i \in T
  <2> HIDE DEF T
  <2> QED  BY <1>0, <1>9, <1>10, UpTo
<1>12. f \in [0 .. N -> X]
  <2>1. f = [i \in 0 .. N |-> f[i]]
    BY <1>6
  <2> QED  BY <1>11, <2>1
<1> QED  BY <1>7, <1>8, <1>12 DEF N, Step, X

\* The wants of a note, read as it writes them.
LEMMA WantsAsWritten == ASSUME NEW E \in Seq(Want) PROVE WantsRead(E)
<1>0. Len(E) \in Nat /\ DOMAIN E = 1 .. Len(E)
  BY LenProperties
<1>1. CASE \E i \in DOMAIN E : parseOneWant(E[i]) = Malformed
  BY <1>1 DEF WantsRead, parseWants
<1>2. CASE ~\E i \in DOMAIN E : parseOneWant(E[i]) = Malformed
  <2> DEFINE N == Len(E)
             c == [i \in 1 .. N |-> parseOneWant(E[i])]
             f == AllMerged(E)
             W == f[N]
             of(d) == {i \in DOMAIN E : parseOneWant(E[i]) = d \/ SameService(parseOneWant(E[i]), d)}
             T == {i \in 0 .. N : MergedTo(c, i, f[i])}
  <2>1. c \in [1 .. N -> WantedConn]
    <3>1. ASSUME NEW i \in 1 .. N PROVE parseOneWant(E[i]) \in WantedConn
      <4>1. E[i] \in Want
        BY ElementOfSeq
      <4> QED  BY <1>0, <1>2, <4>1, WantIs
    <3> QED  BY <3>1
  <2>2. /\ f \in [0 .. N -> Seq(WantedConn)] /\ f[0] = <<>>
        /\ \A i \in 1 .. N : f[i] = Merged(f[i - 1], c[i])
    <3>1. /\ f \in [0 .. N -> Seq(WantedConn)] /\ f[0] = <<>>
          /\ \A i \in 1 .. N : f[i] = Merged(f[i - 1], parseOneWant(E[i]))
      <4> HIDE DEF f
      <4> QED  BY <1>0, <1>2, AllMergedIs DEF f
    <3> HIDE DEF f
    <3> QED  BY <3>1
  <2> HIDE DEF c, f
  <2>3. 0 \in T
    <3>1. Len(f[0]) = 0
      BY <2>2, EmptySeq
    <3> QED  BY <1>0, <3>1 DEF MergedTo
  <2>4. ASSUME NEW i \in 1 .. N, i - 1 \in T PROVE i \in T
    <3>1. i - 1 \in 0 .. N /\ i \in 0 .. N
      BY <1>0
    <3>2. f[i - 1] \in Seq(WantedConn) /\ MergedTo(c, i - 1, f[i - 1]) /\ f[i] = Merged(f[i - 1], c[i])
      BY <2>2, <2>4, <3>1
    <3>3. MergedTo(c, i, f[i])
      <4> HIDE DEF N
      <4> QED  BY <1>0, <2>1, <3>2, MergedKeeps DEF N
    <3> QED  BY <3>1, <3>3
  <2>5. \A i \in 0 .. N : i \in T
    <3> HIDE DEF T, N
    <3> QED  BY <1>0, <2>3, <2>4, UpTo DEF N
  <2>6. W \in Seq(WantedConn) /\ MergedTo(c, N, W)
    <3>1. N \in 0 .. N
      BY <1>0
    <3>2. N \in T
      <4> HIDE DEF T
      <4> QED  BY <2>5, <3>1
    <3> QED  BY <2>2, <3>1, <3>2
  <2>7. parseWants(E) = W
    BY <1>2 DEF parseWants, f
  <2> HIDE DEF W
  <2>8. DOMAIN W = 1 .. Len(W) /\ Len(W) \in Nat
    BY <2>6, LenProperties
  <2>9. \A d, i : i \in of(d) <=> i \in 1 .. N /\ Fits(c[i], d)
    BY <1>0 DEF Fits, c
  <2> HIDE DEF of
  <2>10. ASSUME NEW i \in DOMAIN E PROVE \E d \in Range(W) : i \in of(d)
    <3>1. PICK k \in 1 .. Len(W) : Fits(c[i], W[k])
      BY <1>0, <2>6 DEF MergedTo
    <3> QED  BY <1>0, <2>8, <2>9, <3>1 DEF Range
  <2>11. ASSUME NEW d \in Range(W) PROVE d.inject = UNION {parseOneWant(E[i]).inject : i \in of(d)}
    <3>1. PICK k \in 1 .. Len(W) : d = W[k]
      BY <2>8 DEF Range
    <3>2. \A x : x \in d.inject <=> \E i \in 1 .. N : Fits(c[i], d) /\ x \in c[i].inject
      BY <2>6, <3>1 DEF MergedTo
    <3>3. \A x : x \in d.inject <=> \E i \in of(d) : x \in c[i].inject
      BY <2>9, <3>2
    <3>4. \A i \in of(d) : c[i] = parseOneWant(E[i])
      BY <2>9 DEF c
    <3> QED  BY <3>3, <3>4
  <2>12. ASSUME NEW k \in DOMAIN W, NEW l \in DOMAIN W, k < l
         PROVE  ~SameService(W[k], W[l]) /\ \E a \in of(W[k]), b \in of(W[l]) : a < b
    BY <2>6, <2>8, <2>9, <2>12 DEF MergedTo
  <2> QED  BY <1>2, <2>7, <2>10, <2>11, <2>12 DEF WantsRead, of
<1> QED  BY <1>1, <1>2

\* The entries of a variable, by their layers.
LEMMA ToldOf ==
  ASSUME NEW g, NEW v \in Var
  PROVE  LET entries == describeChannelEnv(g.store) \cup approvedGrantEnvNames(g.connections) IN
         /\ \A e \in entries : e = [name |-> e.name, source |-> e.source] /\ e.source \in {"channel", "default", "grant"}
         /\ \A l \in Layer : [name |-> v, source |-> l] \in entries <=> g.store[l][v] # Unset
         /\ [name |-> v, source |-> "grant"] \in entries
              <=> \E c \in ApprovedIn(g.connections) : c.kind = "service" /\ serviceEnvVar[c.target] = v
<1> DEFINE entries == describeChannelEnv(g.store) \cup approvedGrantEnvNames(g.connections)
<1>1. \A e : e \in describeChannelEnv(g.store)
               <=> \E l \in Layer, u \in Var : g.store[l][u] # Unset /\ e = [name |-> u, source |-> l]
  BY DEF describeChannelEnv
<1>2. \A e : e \in approvedGrantEnvNames(g.connections)
               <=> \E c \in ApprovedIn(g.connections) :
                     c.kind = "service" /\ e = [name |-> serviceEnvVar[c.target], source |-> "grant"]
  BY DEF approvedGrantEnvNames
<1>3. Layer = {"default", "channel"}
  BY DEF Layer
<1>4. ASSUME NEW e \in entries
      PROVE  e = [name |-> e.name, source |-> e.source] /\ e.source \in {"channel", "default", "grant"}
  BY <1>1, <1>2, <1>3
<1>5. \A l \in Layer : [name |-> v, source |-> l] \in entries <=> g.store[l][v] # Unset
  BY <1>1, <1>2, <1>3
<1>6. [name |-> v, source |-> "grant"] \in entries
        <=> \E c \in ApprovedIn(g.connections) : c.kind = "service" /\ serviceEnvVar[c.target] = v
  BY <1>1, <1>2, <1>3
<1> QED  BY <1>4, <1>5, <1>6

\* The slot of a variable.
LEMMA SlotOf ==
  ASSUME NEW C, NEW v, \A c \in C : c.kind \in {"vault", "service", "surface", "mcp"}
  PROVE  Slot("env", v) \in UNION {Slots(Own, c) : c \in C}
           <=> \E c \in C : c.kind = "service" /\ "env" \in c.inject /\ serviceEnvVar[c.target] = v
<1> SUFFICES ASSUME NEW c \in C
             PROVE  Slot("env", v) \in Slots(Own, c)
                      <=> c.kind = "service" /\ "env" \in c.inject /\ serviceEnvVar[c.target] = v
  OBVIOUS
<1>1. c.kind \in {"vault", "service", "surface", "mcp"}
  OBVIOUS
<1>2. CASE c.kind = "service"
  <2>1. Slots(Own, c) =
          (IF "env" \in c.inject THEN {Slot("env", serviceEnvVar[c.target])} ELSE {})
             \cup (IF "mcp" \in c.inject /\ c.target \in KnownMcp THEN {Slot("mcp", <<"service", c.target>>)} ELSE {})
    BY <1>2 DEF Slots
  <2>2. Slot("env", v) # Slot("mcp", <<"service", c.target>>)
    BY DEF Slot
  <2>3. Slot("env", v) = Slot("env", serviceEnvVar[c.target]) <=> serviceEnvVar[c.target] = v
    BY DEF Slot
  <2> QED  BY <1>2, <2>1, <2>2, <2>3
<1>3. CASE c.kind \in {"vault", "surface", "mcp"}
  <2>1. \A x \in Slots(Own, c) : x.kind \in {"mcp", "git"}
    BY <1>3 DEF Slots, Slot
  <2>2. Slot("env", v).kind = "env"
    BY DEF Slot
  <2> QED  BY <1>3, <2>1, <2>2
<1> QED  BY <1>1, <1>2, <1>3

\* The operator is told what claude gets.
LEMMA ToldAsItIs ==
  ASSUME NEW g, \A c \in DOMAIN g.connections : c.kind \in {"vault", "service", "surface", "mcp"}
  PROVE  EnvShown(g)
<1> DEFINE C == ApprovedIn(g.connections)
           slots == UNION {Slots(Own, c) : c \in C}
           entries == describeChannelEnv(g.store) \cup approvedGrantEnvNames(g.connections)
           Gets(v) == ChildEnv("auth", ChannelOverDefault(g.store), [x \in slots |-> "grant"], v)
           Told(v) == {e.source : e \in {e \in composeEffectiveEnv(g) : e.name = v}}
           Given(l, v) == IF l = "grant" THEN "grant" ELSE g.store[l][v]
<1> SUFFICES ASSUME NEW v \in Var \ (PASSTHROUGH \cup DENYLISTED_ENV \cup AsServerOnly(g.connections))
             PROVE  IF Gets(v) = Unset THEN Told(v) = {}
                    ELSE \E l \in Told(v) : Told(v) = {l} /\ Given(l, v) = Gets(v)
  BY DEF EnvShown
<1> DEFINE granted == \E c \in C : c.kind = "service" /\ serviceEnvVar[c.target] = v
           has(l) == [name |-> v, source |-> l] \in entries
<1>1. Slot("env", v) \in slots <=> granted
  <2>1. \A c \in C : c.kind \in {"vault", "service", "surface", "mcp"}
    BY DEF ApprovedIn
  <2>2. Slot("env", v) \in slots
          <=> \E c \in C : c.kind = "service" /\ "env" \in c.inject /\ serviceEnvVar[c.target] = v
    <3> HIDE DEF C
    <3> QED  BY <2>1, SlotOf
  <2>3. \A c \in C : c.kind = "service" /\ serviceEnvVar[c.target] = v => "env" \in c.inject
    BY DEF AsServerOnly
  <2> HIDE DEF slots, C
  <2> QED  BY <2>2, <2>3
<1>2. Gets(v) = IF g.store["channel"][v] # Unset THEN g.store["channel"][v]
                ELSE IF g.store["default"][v] # Unset THEN g.store["default"][v]
                ELSE IF granted THEN "grant" ELSE Unset
  <2> HIDE DEF granted, slots
  <2>1. v # AUTH /\ v \notin PASSTHROUGH /\ v \notin DENYLISTED_ENV /\ v \in Var
    BY LaunchAssumption
  <2>2. ChannelOverDefault(g.store)[v] =
          IF g.store["channel"][v] # Unset THEN g.store["channel"][v] ELSE g.store["default"][v]
    BY <2>1 DEF ChannelOverDefault
  <2>3. Gets(v) = LET stored == ChannelOverDefault(g.store) s == [x \in slots |-> "grant"] IN
                  IF stored[v] # Unset THEN stored[v]
                  ELSE IF Slot("env", v) \in DOMAIN s THEN s[Slot("env", v)] ELSE Unset
    BY <2>1 DEF ChildEnv
  <2> QED  BY <1>1, <2>2, <2>3
<1> HIDE DEF Gets
<1>3. /\ \A e \in entries : e = [name |-> e.name, source |-> e.source] /\ e.source \in {"channel", "default", "grant"}
      /\ has("channel") <=> g.store["channel"][v] # Unset
      /\ has("default") <=> g.store["default"][v] # Unset
      /\ has("grant") <=> granted
  <2> HIDE DEF granted, entries
  <2> QED  BY ToldOf DEF Layer, entries, granted
<1>4. composeEffectiveEnv(g) = {e \in entries : \A f \in entries : f.name = e.name => rank(f.source) <= rank(e.source)}
  BY DEF composeEffectiveEnv
<1> HIDE DEF entries
<1>5. \A l : l \in Told(v) <=> has(l) /\ \A m \in {"channel", "default", "grant"} : has(m) => rank(m) <= rank(l)
  <2>1. ASSUME NEW l, l \in Told(v)
        PROVE  has(l) /\ \A m \in {"channel", "default", "grant"} : has(m) => rank(m) <= rank(l)
    <3>1. PICK e \in composeEffectiveEnv(g) : e.name = v /\ l = e.source
      BY <2>1
    <3>2. e \in entries /\ e = [name |-> v, source |-> l]
      BY <1>3, <1>4, <3>1
    <3>3. ASSUME NEW m \in {"channel", "default", "grant"}, has(m) PROVE rank(m) <= rank(l)
      <4>1. [name |-> v, source |-> m].name = v /\ [name |-> v, source |-> m].source = m
        OBVIOUS
      <4> QED  BY <1>4, <3>1, <3>3, <4>1
    <3> QED  BY <3>2, <3>3
  <2>2. ASSUME NEW l, has(l), \A m \in {"channel", "default", "grant"} : has(m) => rank(m) <= rank(l)
        PROVE  l \in Told(v)
    <3> DEFINE e == [name |-> v, source |-> l]
    <3>1. e \in entries /\ e.name = v /\ e.source = l
      BY <2>2
    <3>2. ASSUME NEW f \in entries, f.name = e.name PROVE rank(f.source) <= rank(e.source)
      BY <1>3, <2>2, <3>1, <3>2
    <3>3. e \in composeEffectiveEnv(g)
      <4> HIDE DEF e
      <4> QED  BY <1>4, <3>1, <3>2
    <3> QED  BY <3>1, <3>3
  <2> HIDE DEF Told, has
  <2> QED  BY <2>1, <2>2
<1>6. rank("channel") = 3 /\ rank("default") = 2 /\ rank("grant") = 1
  BY DEF rank
<1>7. \A l : has(l) => l \in {"channel", "default", "grant"}
  <2> SUFFICES ASSUME NEW l, has(l) PROVE l \in {"channel", "default", "grant"}
    OBVIOUS
  <2>1. [name |-> v, source |-> l].source = l
    OBVIOUS
  <2> QED  BY <1>3, <2>1
<1> HIDE DEF has, Told, granted
<1>8. CASE has("channel")
  <2>1. Told(v) = {"channel"}
    <3>1. "channel" \in Told(v)
      BY <1>5, <1>6, <1>8
    <3>2. \A l \in Told(v) : l = "channel"
      BY <1>5, <1>6, <1>7, <1>8
    <3> QED  BY <3>1, <3>2
  <2> QED  BY <1>2, <1>3, <1>8, <2>1
<1>9. CASE ~has("channel") /\ has("default")
  <2>1. Told(v) = {"default"}
    <3>1. "default" \in Told(v)
      BY <1>5, <1>6, <1>9
    <3>2. \A l \in Told(v) : l = "default"
      BY <1>5, <1>6, <1>7, <1>9
    <3> QED  BY <3>1, <3>2
  <2> QED  BY <1>2, <1>3, <1>9, <2>1
<1>10. CASE ~has("channel") /\ ~has("default") /\ has("grant")
  <2>1. Told(v) = {"grant"}
    <3>1. "grant" \in Told(v)
      BY <1>5, <1>6, <1>10
    <3>2. \A l \in Told(v) : l = "grant"
      BY <1>5, <1>6, <1>7, <1>10
    <3> QED  BY <3>1, <3>2
  <2>2. Gets(v) = "grant" /\ Unset # "grant"
    BY <1>2, <1>3, <1>10, SetUpAssumption
  <2> QED  BY <2>1, <2>2
<1>11. CASE ~has("channel") /\ ~has("default") /\ ~has("grant")
  <2>1. Told(v) = {}
    BY <1>5, <1>7, <1>11
  <2>2. Gets(v) = Unset
    BY <1>2, <1>3, <1>11
  <2> QED  BY <2>1, <2>2
<1> QED  BY <1>8, <1>9, <1>10, <1>11

\* What a field of a choice may come to.
LEMMA ChoiceIs ==
  ASSUME NEW raw, NEW S, NEW default
  PROVE  Choice(raw, Itself(S), default) = IF raw = Nobody THEN default ELSE IF raw \in S THEN raw ELSE Malformed
BY DEF Choice, Itself

\* A field read from what was read of it.
LEMMA ChoiceAgain ==
  ASSUME NEW raw, NEW S, Choice(raw, Itself(S), Nobody) # Malformed
  PROVE  Choice(Choice(raw, Itself(S), Nobody), Itself(S), Nobody) = Choice(raw, Itself(S), Nobody)
BY ChoiceIs

LEMMA BackendIs ==
  ASSUME NEW raw
  PROVE  parseBackendField(raw) =
           IF raw = Nobody \/ raw = "programmatic" THEN "programmatic"
           ELSE IF raw \in {"attached", "channel"} THEN "attached" ELSE Malformed
BY DEF parseBackendField, Choice

LEMMA ModeIs ==
  ASSUME NEW raw
  PROVE  parseModeField(raw) =
           IF raw = Nobody \/ raw \in {"single-threaded", "resident"} THEN "single-threaded"
           ELSE IF raw \in {"multi-threaded", "one-shot", "per-thread"} THEN "multi-threaded" ELSE Malformed
BY DEF parseModeField, Choice

\* A note's agent, field by field.
Common(n, name) ==
  [workspace |-> Choice(n.meta.workspace, Itself(AbsolutePaths), Nobody),
   filesystem |-> Choice(n.meta.filesystem, Itself({"workspace", "full"}), Nobody),
   network |-> Choice(n.meta.network, Itself({"open", "restricted"}), Nobody),
   egress |-> n.meta.egress, mounts |-> parseMounts(n.meta.mounts),
   name |-> IF name \in Slugs THEN name ELSE Malformed,
   noteId |-> IF n.id = Nobody THEN Malformed ELSE n.id,
   definitionPath |-> n.path,
   backend |-> parseBackendField(n.meta.backend), mode |-> parseModeField(n.meta.mode),
   model |-> Choice(n.meta.model, Itself(ModelNames), Nobody), wants |-> n.meta.wants]
Defined(n) ==
  Joined(Common(n, n.meta.name),
    [definition |-> n.id, systemPrompt |-> n.body,
     systemPromptMode |-> IF n.body = Nobody THEN Nobody
                          ELSE Choice(n.meta.systemPromptMode, Itself({"append", "replace"}), Nobody)])
Threaded(n) ==
  Joined(Common(n, n.meta.agent),
    [definition |-> IF n.meta.definition = Nobody THEN n.id ELSE n.meta.definition,
     systemPrompt |-> Nobody, systemPromptMode |-> Nobody,
     agentStatus |-> IF n.meta.agent_status = "disabled" THEN "disabled" ELSE "enabled"])

LEMMA EitherIs == \A n, name : OfEither(n, name) = Common(n, name)
  BY DEF OfEither, Common, parseSandboxKnobs, parseModelField, Joined

LEMMA NotesAre == \A n : parseAgentDef(n) = Whole(Defined(n)) /\ parseThreadSpec(n) = Whole(Threaded(n))
  BY EitherIs DEF parseAgentDef, parseThreadSpec, Defined, Threaded

CommonField ==
  {"workspace", "filesystem", "network", "egress", "mounts", "name", "noteId", "definitionPath", "backend", "mode",
   "model", "wants"}
LEMMA DefinedIs ==
  ASSUME NEW n
  PROVE  LET d == Defined(n) c == Common(n, n.meta.name) IN
         /\ DOMAIN d = SpecField /\ DOMAIN c = CommonField /\ d = [x \in SpecField |-> d[x]]
         /\ \A x \in CommonField : d[x] = c[x]
         /\ d.definition = n.id /\ d.systemPrompt = n.body
         /\ d.systemPromptMode = IF n.body = Nobody THEN Nobody
                                 ELSE Choice(n.meta.systemPromptMode, Itself({"append", "replace"}), Nobody)
<1> DEFINE c == Common(n, n.meta.name)
           e == [definition |-> n.id, systemPrompt |-> n.body,
                 systemPromptMode |-> IF n.body = Nobody THEN Nobody
                                      ELSE Choice(n.meta.systemPromptMode, Itself({"append", "replace"}), Nobody)]
<1>1. DOMAIN c = CommonField
  BY DEF Common, CommonField
<1>2. Defined(n) = Joined(c, e)
  BY DEF Defined
<1>3. DOMAIN e = {"definition", "systemPrompt", "systemPromptMode"}
  OBVIOUS
<1>4. /\ e.definition = n.id /\ e.systemPrompt = n.body
      /\ e.systemPromptMode = IF n.body = Nobody THEN Nobody
                              ELSE Choice(n.meta.systemPromptMode, Itself({"append", "replace"}), Nobody)
  OBVIOUS
<1> HIDE DEF c, e
<1>5. SpecField = CommonField \cup {"definition", "systemPrompt", "systemPromptMode"}
  BY DEF SpecField, CommonField
<1>6. {"definition", "systemPrompt", "systemPromptMode"} \cap CommonField = {}
  BY DEF CommonField
<1> DEFINE d == Defined(n)
<1>7. /\ DOMAIN d = SpecField /\ d = [x \in SpecField |-> d[x]]
      /\ \A x \in SpecField : d[x] = IF x \in CommonField THEN c[x] ELSE e[x]
  BY <1>1, <1>2, <1>3, <1>5 DEF Joined
<1> HIDE DEF d
<1>8. d.definition = e.definition /\ d.systemPrompt = e.systemPrompt /\ d.systemPromptMode = e.systemPromptMode
  BY <1>5, <1>6, <1>7
<1> QED  BY <1>1, <1>4, <1>5, <1>7, <1>8 DEF c, d

ThreadField == SpecField \cup {"agentStatus"}
LEMMA ThreadedIs ==
  ASSUME NEW n
  PROVE  LET t == Threaded(n) c == Common(n, n.meta.agent) IN
         /\ DOMAIN t = ThreadField /\ DOMAIN c = CommonField /\ t = [x \in ThreadField |-> t[x]]
         /\ \A x \in CommonField : t[x] = c[x]
         /\ t.definition = IF n.meta.definition = Nobody THEN n.id ELSE n.meta.definition
         /\ t.systemPrompt = Nobody /\ t.systemPromptMode = Nobody
         /\ t.agentStatus = IF n.meta.agent_status = "disabled" THEN "disabled" ELSE "enabled"
<1> DEFINE c == Common(n, n.meta.agent)
           e == [definition |-> IF n.meta.definition = Nobody THEN n.id ELSE n.meta.definition,
                 systemPrompt |-> Nobody, systemPromptMode |-> Nobody,
                 agentStatus |-> IF n.meta.agent_status = "disabled" THEN "disabled" ELSE "enabled"]
           E == {"definition", "systemPrompt", "systemPromptMode", "agentStatus"}
<1>1. DOMAIN c = CommonField
  BY DEF Common, CommonField
<1>2. Threaded(n) = Joined(c, e)
  BY DEF Threaded
<1>3. DOMAIN e = E
  OBVIOUS
<1>4. /\ e.definition = IF n.meta.definition = Nobody THEN n.id ELSE n.meta.definition
      /\ e.systemPrompt = Nobody /\ e.systemPromptMode = Nobody
      /\ e.agentStatus = IF n.meta.agent_status = "disabled" THEN "disabled" ELSE "enabled"
  OBVIOUS
<1> HIDE DEF c, e
<1>5. ThreadField = CommonField \cup E
  BY DEF ThreadField, SpecField, CommonField
<1>6. E \cap CommonField = {}
  BY DEF CommonField
<1> DEFINE t == Threaded(n)
<1>7. /\ DOMAIN t = ThreadField /\ t = [x \in ThreadField |-> t[x]]
      /\ \A x \in ThreadField : t[x] = IF x \in CommonField THEN c[x] ELSE e[x]
  BY <1>1, <1>2, <1>3, <1>5 DEF Joined
<1> HIDE DEF t
<1>8. /\ t.definition = e.definition /\ t.systemPrompt = e.systemPrompt /\ t.systemPromptMode = e.systemPromptMode
      /\ t.agentStatus = e.agentStatus
  BY <1>5, <1>6, <1>7
<1> QED  BY <1>1, <1>4, <1>5, <1>7, <1>8 DEF c, t

FieldValue == Text \cup Literal \cup {Malformed} \cup (SUBSET Word) \cup (SUBSET Mount) \cup ParsedWants

LEMMA ChoiceTyped ==
  ASSUME NEW raw \in Text, NEW S PROVE Choice(raw, Itself(S), Nobody) \in FieldValue
BY ChoiceIs DEF FieldValue, Text

LEMMA CommonTyped ==
  ASSUME NEW n \in Note, NEW name \in Text, NEW x \in CommonField
  PROVE  Common(n, name)[x] \in FieldValue
<1> DEFINE c == Common(n, name)
<1>1. /\ n.id \in Text /\ n.path \in Text /\ n.meta.backend \in Text /\ n.meta.mode \in Text /\ n.meta.model \in Text
      /\ n.meta.workspace \in Text /\ n.meta.filesystem \in Text /\ n.meta.network \in Text
      /\ n.meta.egress \in SUBSET Word /\ n.meta.mounts \in SUBSET Mount /\ n.meta.wants \in ParsedWants
  BY DEF Note
<1>2. /\ c.workspace = Choice(n.meta.workspace, Itself(AbsolutePaths), Nobody)
      /\ c.filesystem = Choice(n.meta.filesystem, Itself({"workspace", "full"}), Nobody)
      /\ c.network = Choice(n.meta.network, Itself({"open", "restricted"}), Nobody)
      /\ c.model = Choice(n.meta.model, Itself(ModelNames), Nobody)
      /\ c.egress = n.meta.egress /\ c.mounts = parseMounts(n.meta.mounts)
      /\ c.name \in {name, Malformed} /\ c.noteId \in {n.id, Malformed} /\ c.definitionPath = n.path
      /\ c.backend = parseBackendField(n.meta.backend) /\ c.mode = parseModeField(n.meta.mode)
      /\ c.wants = n.meta.wants
  BY DEF Common
<1> HIDE DEF c
<1>3. c.workspace \in FieldValue /\ c.filesystem \in FieldValue /\ c.network \in FieldValue /\ c.model \in FieldValue
  BY <1>1, <1>2, ChoiceTyped
<1>4. c.backend \in FieldValue /\ c.mode \in FieldValue
  <2>1. c.backend \in Literal \cup {Malformed}
    BY <1>2, BackendIs DEF Literal
  <2>2. c.mode \in Literal \cup {Malformed}
    BY <1>2, ModeIs DEF Literal
  <2> QED  BY <2>1, <2>2 DEF FieldValue
<1>5. c.mounts \in SUBSET Mount
  BY <1>1, <1>2 DEF parseMounts
<1>6. /\ c.egress \in FieldValue /\ c.mounts \in FieldValue /\ c.wants \in FieldValue
      /\ c.name \in FieldValue /\ c.noteId \in FieldValue /\ c.definitionPath \in FieldValue
  BY <1>1, <1>2, <1>5 DEF FieldValue
<1> QED  BY <1>3, <1>4, <1>6 DEF CommonField, c

\* An agent is one, or malformed in one of its fields.
LEMMA DefinedWhole ==
  ASSUME NEW n \in Note
  PROVE  LET d == Defined(n) IN
         /\ d # Malformed
         /\ Whole(d) = IF \E x \in SpecField : d[x] = Malformed THEN Malformed ELSE d
<1> DEFINE d == Defined(n)
<1>1. /\ DOMAIN d = SpecField /\ d = [x \in SpecField |-> d[x]]
      /\ \A x \in CommonField : d[x] = Common(n, n.meta.name)[x]
      /\ d.definition = n.id /\ d.systemPrompt = n.body
      /\ d.systemPromptMode = IF n.body = Nobody THEN Nobody
                              ELSE Choice(n.meta.systemPromptMode, Itself({"append", "replace"}), Nobody)
  BY DefinedIs
<1> HIDE DEF d
<1>2. n.id \in Text /\ n.body \in Text /\ n.meta.name \in Text /\ n.meta.systemPromptMode \in Text /\ Nobody \in Text
  BY DEF Note, Text
<1>3. \A x \in CommonField : d[x] \in FieldValue
  BY <1>1, <1>2, CommonTyped
<1>4. d.definition \in FieldValue /\ d.systemPrompt \in FieldValue /\ d.systemPromptMode \in FieldValue
  <2>1. Text \subseteq FieldValue
    BY DEF FieldValue
  <2> QED  BY <1>1, <1>2, <2>1, ChoiceTyped
<1>5. SpecField = CommonField \cup {"definition", "systemPrompt", "systemPromptMode"}
  BY DEF SpecField, CommonField
<1>6. d \in [SpecField -> FieldValue]
  BY <1>1, <1>3, <1>4, <1>5
<1>7. d # Malformed
  BY <1>6, NoteAssumption DEF FieldValue
<1>8. Malformed \in Range(d) <=> \E x \in SpecField : d[x] = Malformed
  BY <1>1 DEF Range
<1> QED  BY <1>7, <1>8 DEF Whole, d

LEMMA ThreadedWhole ==
  ASSUME NEW n \in Note
  PROVE  LET t == Threaded(n) IN
         /\ t # Malformed
         /\ Whole(t) = IF \E x \in CommonField : t[x] = Malformed THEN Malformed ELSE t
<1> DEFINE t == Threaded(n)
<1>1. /\ DOMAIN t = ThreadField /\ t = [x \in ThreadField |-> t[x]]
      /\ \A x \in CommonField : t[x] = Common(n, n.meta.agent)[x]
      /\ t.definition = IF n.meta.definition = Nobody THEN n.id ELSE n.meta.definition
      /\ t.systemPrompt = Nobody /\ t.systemPromptMode = Nobody
      /\ t.agentStatus = IF n.meta.agent_status = "disabled" THEN "disabled" ELSE "enabled"
  BY ThreadedIs
<1> HIDE DEF t
<1>2. n.id \in Text /\ n.meta.agent \in Text /\ n.meta.definition \in Text /\ Nobody \in Text
  BY DEF Note, Text
<1>3. \A x \in CommonField : t[x] \in FieldValue
  BY <1>1, <1>2, CommonTyped
<1>4. t.definition \in Text /\ t.systemPrompt \in Text /\ t.systemPromptMode \in Text /\ t.agentStatus \in Literal
  BY <1>1, <1>2 DEF Literal
<1>5. ThreadField = CommonField \cup {"definition", "systemPrompt", "systemPromptMode", "agentStatus"}
  BY DEF ThreadField, SpecField, CommonField
<1>6. t \in [ThreadField -> FieldValue]
  <2>1. \A x \in ThreadField : t[x] \in FieldValue
    BY <1>3, <1>4, <1>5 DEF FieldValue
  <2> QED  BY <1>1, <2>1
<1>7. t # Malformed
  BY <1>6, NoteAssumption DEF FieldValue, ThreadField
<1>8. Malformed \notin Text \cup Literal
  BY NoteAssumption DEF Text
<1>9. Malformed \in Range(t) <=> \E x \in CommonField : t[x] = Malformed
  <2>1. Malformed \in Range(t) <=> \E x \in ThreadField : t[x] = Malformed
    BY <1>1 DEF Range
  <2> QED  BY <1>4, <1>5, <1>8, <2>1
<1> QED  BY <1>7, <1>9 DEF Whole, t

\* Both kinds of notes give the same agent.
LEMMA KindsAgree == ASSUME NEW n \in Note PROVE BothAgree(n)
<1> DEFINE m == [n EXCEPT !.meta.agent = n.meta.name]
           d == Defined(n)
           t == Threaded(m)
<1>1. m \in Note
  BY DEF Note
<1>2. /\ m.id = n.id /\ m.path = n.path /\ m.meta.agent = n.meta.name
      /\ m.meta.workspace = n.meta.workspace /\ m.meta.filesystem = n.meta.filesystem /\ m.meta.network = n.meta.network
      /\ m.meta.egress = n.meta.egress /\ m.meta.mounts = n.meta.mounts /\ m.meta.backend = n.meta.backend
      /\ m.meta.mode = n.meta.mode /\ m.meta.model = n.meta.model /\ m.meta.wants = n.meta.wants
  BY DEF Note
<1> HIDE DEF m
<1>3. Common(m, m.meta.agent) = Common(n, n.meta.name)
  BY <1>2 DEF Common
<1>4. \A x \in CommonField : d[x] = t[x]
  BY <1>3, DefinedIs, ThreadedIs
<1>5. parseAgentDef(n) = IF \E x \in SpecField : d[x] = Malformed THEN Malformed ELSE d
  BY NotesAre, DefinedWhole
<1>6. parseThreadSpec(m) = IF \E x \in CommonField : t[x] = Malformed THEN Malformed ELSE t
  BY <1>1, NotesAre, ThreadedWhole
<1>7. d # Malformed /\ t # Malformed
  BY <1>1, DefinedWhole, ThreadedWhole
<1>8. SpecField = CommonField \cup {"definition", "systemPrompt", "systemPromptMode"}
  BY DEF SpecField, CommonField
<1>9. /\ d.definition = n.id /\ d.systemPrompt = n.body
      /\ d.systemPromptMode = IF n.body = Nobody THEN Nobody
                              ELSE Choice(n.meta.systemPromptMode, Itself({"append", "replace"}), Nobody)
  BY DefinedIs
<1>10. Malformed \notin Text /\ n.id \in Text /\ n.body \in Text /\ Nobody \in Text
  BY NoteAssumption DEF Note, Text
<1> HIDE DEF d, t
<1>11. CASE \E x \in CommonField : d[x] = Malformed
  <2>1. parseAgentDef(n) = Malformed /\ parseThreadSpec(m) = Malformed
    BY <1>4, <1>5, <1>6, <1>8, <1>11
  <2> QED  BY <2>1 DEF BothAgree, m
<1>12. CASE ~(\E x \in CommonField : d[x] = Malformed) /\ d.systemPromptMode = Malformed
  <2>1. parseAgentDef(n) = Malformed
    BY <1>5, <1>8, <1>12
  <2>2. n.body # Nobody /\ n.meta.systemPromptMode \notin {Nobody, "append", "replace"}
    <3>1. n.body # Nobody /\ Choice(n.meta.systemPromptMode, Itself({"append", "replace"}), Nobody) = Malformed
      BY <1>9, <1>10, <1>12
    <3>2. "append" # Malformed /\ "replace" # Malformed /\ Nobody # Malformed
      BY NoteAssumption DEF Literal
    <3> QED  BY <3>1, <3>2, ChoiceIs
  <2> QED  BY <2>1, <2>2 DEF BothAgree
<1>13. CASE ~(\E x \in CommonField : d[x] = Malformed) /\ d.systemPromptMode # Malformed
  <2>1. parseAgentDef(n) = d
    BY <1>5, <1>8, <1>9, <1>10, <1>13
  <2>2. parseThreadSpec(m) = t
    BY <1>4, <1>6, <1>13
  <2>3. Settings(d) = Settings(t)
    BY <1>4 DEF Settings, CommonField
  <2> QED  BY <1>7, <2>1, <2>2, <2>3 DEF BothAgree, m
<1> QED  BY <1>11, <1>12, <1>13

\* What a thread's note gives, if it is an agent.
LEMMA ThreadGives ==
  ASSUME NEW n \in Note, parseThreadSpec(n) # Malformed
  PROVE  /\ parseThreadSpec(n) = Threaded(n)
         /\ \A x \in CommonField : Threaded(n)[x] = Common(n, n.meta.agent)[x] /\ Threaded(n)[x] # Malformed
<1>1. \A x \in CommonField : Threaded(n)[x] = Common(n, n.meta.agent)[x]
  BY ThreadedIs
<1> QED  BY <1>1, NotesAre, ThreadedWhole

\* The sandbox is as wide as the note says.
LEMMA SandboxFits == ASSUME NEW n \in Note PROVE SandboxAsSaid(n)
<1> SUFFICES ASSUME parseThreadSpec(n) # Malformed PROVE SandboxAsSaid(n)
  BY DEF SandboxAsSaid
<1> DEFINE s == parseThreadSpec(n)
           view == composeFilesystemView(s, "private")
<1>1. \A x \in CommonField : s[x] = Common(n, n.meta.agent)[x] /\ s[x] # Malformed
  BY ThreadGives
<1> HIDE DEF s
<1>2. /\ s.workspace = Choice(n.meta.workspace, Itself(AbsolutePaths), Nobody) /\ s.workspace # Malformed
      /\ s.filesystem = Choice(n.meta.filesystem, Itself({"workspace", "full"}), Nobody) /\ s.filesystem # Malformed
      /\ s.network = Choice(n.meta.network, Itself({"open", "restricted"}), Nobody) /\ s.network # Malformed
      /\ s.mounts = parseMounts(n.meta.mounts)
  BY <1>1 DEF Common, CommonField
<1>3. view.denyRead = {} <=> n.meta.filesystem = "full"
  <2>1. view.denyRead = {} <=> s.filesystem = "full"
    BY DEF composeFilesystemView
  <2> QED  BY <1>2, <2>1, ChoiceIs
<1>4. s.network = "restricted" <=> n.meta.network = "restricted"
  BY <1>2, ChoiceIs
<1>5. view.allowWrite =
        {"private"} \cup WorkingRoot(s) \cup {m.hostPath : m \in {x \in s.mounts : x.mode = "rw"}}
  BY DEF composeFilesystemView
<1>6. WorkingRoot(s) \subseteq {n.meta.workspace} \cap AbsolutePaths
  BY <1>2, ChoiceIs DEF WorkingRoot
<1>7. \A m \in s.mounts : m \in n.meta.mounts /\ m.hostPath \in AbsolutePaths
  BY <1>2 DEF parseMounts
<1> HIDE DEF view
<1>8. view.allowWrite \subseteq
        {"private", n.meta.workspace} \cup {m.hostPath : m \in {m \in n.meta.mounts : m.mode = "rw"}}
  BY <1>5, <1>6, <1>7
<1>9. view.allowWrite \ {"private"} \subseteq AbsolutePaths
  BY <1>5, <1>6, <1>7
<1> QED  BY <1>3, <1>4, <1>8, <1>9 DEF SandboxAsSaid, s, view

\* What is written back: the fields that the agent has, and the others as they were.
MetaField ==
  {"name", "agent", "backend", "mode", "model", "workspace", "filesystem", "network", "egress", "mounts", "wants",
   "systemPromptMode", "definition", "agent_status"}
LEMMA WrittenBackIs ==
  ASSUME NEW n \in Note, NEW s, DOMAIN s = ThreadField
  PROVE  LET m == WrittenBack(n, s) IN
         /\ m.id = n.id /\ m.path = n.path
         /\ m.meta.agent = n.meta.agent /\ m.meta.agent_status = n.meta.agent_status
         /\ \A f \in MetaField \ {"agent", "agent_status"} : m.meta[f] = s[f]
<1> DEFINE m == WrittenBack(n, s)
           r == [f \in DOMAIN n.meta \cap DOMAIN s |-> s[f]]
<1>1. DOMAIN n.meta = MetaField
  BY DEF Note, MetaField
<1>2. m.id = n.id /\ m.path = n.path /\ m.meta = Joined(r, n.meta)
  <2>1. m = [n EXCEPT !.meta = Joined(r, n.meta)]
    BY DEF WrittenBack
  <2>2. DOMAIN n = {"id", "path", "body", "meta"}
    BY DEF Note
  <2> HIDE DEF m, r
  <2> QED  BY <2>1, <2>2
<1>3. DOMAIN r = MetaField \ {"agent", "agent_status"}
  BY <1>1 DEF MetaField, ThreadField, SpecField
<1>4. \A f \in DOMAIN r : r[f] = s[f]
  OBVIOUS
<1> HIDE DEF m, r
<1>5. \A f \in MetaField : m.meta[f] = IF f \in DOMAIN r THEN r[f] ELSE n.meta[f]
  BY <1>1, <1>2, <1>3 DEF Joined
<1>6. m.meta["agent"] = n.meta["agent"] /\ m.meta["agent_status"] = n.meta["agent_status"]
  BY <1>3, <1>5 DEF MetaField
<1>7. \A f \in MetaField \ {"agent", "agent_status"} : m.meta[f] = s[f]
  BY <1>3, <1>4, <1>5
<1> QED  BY <1>2, <1>6, <1>7 DEF m

\* What was read may be written back: it reads the same.
LEMMA ReadsBack == ASSUME NEW n \in Note PROVE ReadsTheSame(n)
<1> SUFFICES ASSUME parseThreadSpec(n) # Malformed PROVE ReadsTheSame(n)
  BY DEF ReadsTheSame
<1> DEFINE t == Threaded(n)
           m == WrittenBack(n, t)
           u == Threaded(m)
<1>1. /\ parseThreadSpec(n) = t
      /\ \A x \in CommonField : t[x] = Common(n, n.meta.agent)[x] /\ t[x] # Malformed
  BY ThreadGives
<1>2. /\ DOMAIN t = ThreadField /\ t = [x \in ThreadField |-> t[x]]
      /\ t.definition = IF n.meta.definition = Nobody THEN n.id ELSE n.meta.definition
      /\ t.systemPrompt = Nobody /\ t.systemPromptMode = Nobody
      /\ t.agentStatus = IF n.meta.agent_status = "disabled" THEN "disabled" ELSE "enabled"
  BY ThreadedIs
<1>3. /\ DOMAIN u = ThreadField /\ u = [x \in ThreadField |-> u[x]]
      /\ \A x \in CommonField : u[x] = Common(m, m.meta.agent)[x]
      /\ u.definition = IF m.meta.definition = Nobody THEN m.id ELSE m.meta.definition
      /\ u.systemPrompt = Nobody /\ u.systemPromptMode = Nobody
      /\ u.agentStatus = IF m.meta.agent_status = "disabled" THEN "disabled" ELSE "enabled"
  BY ThreadedIs
<1> HIDE DEF t, u
<1>4. /\ m.id = n.id /\ m.path = n.path
      /\ m.meta.agent = n.meta.agent /\ m.meta.agent_status = n.meta.agent_status
      /\ \A f \in MetaField \ {"agent", "agent_status"} : m.meta[f] = t[f]
  BY <1>2, WrittenBackIs
<1> HIDE DEF m
<1>5. /\ m.meta.workspace = t.workspace /\ m.meta.filesystem = t.filesystem /\ m.meta.network = t.network
      /\ m.meta.egress = t.egress /\ m.meta.mounts = t.mounts /\ m.meta.backend = t.backend
      /\ m.meta.mode = t.mode /\ m.meta.model = t.model /\ m.meta.wants = t.wants
      /\ m.meta.definition = t.definition
  BY <1>4 DEF MetaField
<1>6. /\ t.workspace = Choice(n.meta.workspace, Itself(AbsolutePaths), Nobody) /\ t.workspace # Malformed
      /\ t.filesystem = Choice(n.meta.filesystem, Itself({"workspace", "full"}), Nobody) /\ t.filesystem # Malformed
      /\ t.network = Choice(n.meta.network, Itself({"open", "restricted"}), Nobody) /\ t.network # Malformed
      /\ t.model = Choice(n.meta.model, Itself(ModelNames), Nobody) /\ t.model # Malformed
      /\ t.egress = n.meta.egress /\ t.mounts = parseMounts(n.meta.mounts)
      /\ t.name = (IF n.meta.agent \in Slugs THEN n.meta.agent ELSE Malformed)
      /\ t.noteId = (IF n.id = Nobody THEN Malformed ELSE n.id) /\ t.noteId # Malformed
      /\ t.definitionPath = n.path
      /\ t.backend = parseBackendField(n.meta.backend) /\ t.backend # Malformed
      /\ t.mode = parseModeField(n.meta.mode) /\ t.mode # Malformed
      /\ t.wants = n.meta.wants
  BY <1>1 DEF Common, CommonField
<1>7. /\ u.workspace = Choice(m.meta.workspace, Itself(AbsolutePaths), Nobody)
      /\ u.filesystem = Choice(m.meta.filesystem, Itself({"workspace", "full"}), Nobody)
      /\ u.network = Choice(m.meta.network, Itself({"open", "restricted"}), Nobody)
      /\ u.model = Choice(m.meta.model, Itself(ModelNames), Nobody)
      /\ u.egress = m.meta.egress /\ u.mounts = parseMounts(m.meta.mounts)
      /\ u.name = (IF m.meta.agent \in Slugs THEN m.meta.agent ELSE Malformed)
      /\ u.noteId = (IF m.id = Nobody THEN Malformed ELSE m.id)
      /\ u.definitionPath = m.path
      /\ u.backend = parseBackendField(m.meta.backend) /\ u.mode = parseModeField(m.meta.mode)
      /\ u.wants = m.meta.wants
  BY <1>3 DEF Common, CommonField
<1>8. u.workspace = t.workspace /\ u.filesystem = t.filesystem /\ u.network = t.network /\ u.model = t.model
  BY <1>5, <1>6, <1>7, ChoiceAgain
<1>9. u.mounts = t.mounts
  BY <1>5, <1>6, <1>7 DEF parseMounts
<1>10. u.backend = t.backend
  <2>1. t.backend \in {"programmatic", "attached"}
    BY <1>6, BackendIs
  <2>2. "attached" # Nobody
    BY NoteAssumption DEF Literal
  <2> QED  BY <1>5, <1>7, <2>1, <2>2, BackendIs
<1>11. u.mode = t.mode
  <2>1. t.mode \in {"single-threaded", "multi-threaded"}
    BY <1>6, ModeIs
  <2>2. "multi-threaded" # Nobody
    BY NoteAssumption DEF Literal
  <2> QED  BY <1>5, <1>7, <2>1, <2>2, ModeIs
<1>12. u.definition = t.definition /\ u.agentStatus = t.agentStatus
  BY <1>2, <1>3, <1>4, <1>5
<1>13. u.egress = t.egress /\ u.name = t.name /\ u.noteId = t.noteId /\ u.definitionPath = t.definitionPath /\ u.wants = t.wants
  BY <1>4, <1>5, <1>6, <1>7
<1>14. \A x \in ThreadField : u[x] = t[x]
  BY <1>2, <1>3, <1>8, <1>9, <1>10, <1>11, <1>12, <1>13 DEF ThreadField, SpecField
<1>15. u = t
  BY <1>2, <1>3, <1>14
<1>16. parseThreadSpec(m) = Whole(t)
  BY <1>15, NotesAre DEF u
<1>17. Whole(t) = t
  BY <1>1, NotesAre DEF t
<1> QED  BY <1>1, <1>16, <1>17 DEF ReadsTheSame, m

LEMMA NotesRead == ASSUME NEW n \in Note PROVE NoteRead(n)
BY KindsAgree, SandboxFits, ReadsBack DEF NoteRead

(* A turn is set up as its notes ask (SetUpExact): parseWants,             *)
(* composeSystemPrompt, stageAttachments, composeEffectiveEnv and the two  *)
(* parsers of notes, for lists of any length and any bytes, names and      *)
(* variables.  Nothing runs here, so the invariant is that of the input.   *)
THEOREM SetUpIsExact == SetUpSpec => []SetUpExact
<1>1. SetUpInit => SetUpExact
  <2> SUFFICES ASSUME input \in Inputs PROVE SetUpExact
    BY DEF SetUpInit
  <2>1. CASE input.kind = "wants" /\ input.of \in Seq(Want)
    BY <2>1, WantsAsWritten DEF SetUpExact
  <2>2. CASE input.kind = "prompt" /\ input.of \in PromptParts
    BY <2>2, ShedIsTheTail DEF SetUpExact
  <2>3. CASE input.kind = "files" /\ input.of \in Seq(File)
    BY <2>3, StagedAsTheyCame DEF SetUpExact
  <2>4. CASE /\ input.kind = "env"
             /\ \A c \in DOMAIN input.of.connections : c.kind \in {"vault", "service", "surface", "mcp"}
    BY <2>4, ToldAsItIs DEF SetUpExact
  <2>5. CASE input.kind = "note" /\ input.of \in Note
    BY <2>5, NotesRead DEF SetUpExact
  <2>6. CASE input.kind = "none"
    BY <2>6 DEF SetUpExact
  <2> QED  BY <2>1, <2>2, <2>3, <2>4, <2>5, <2>6, InputsAssumption
<1>2. SetUpExact /\ [FALSE]_input => SetUpExact'
  <2> SUFFICES ASSUME SetUpExact, input' = input PROVE SetUpExact'
    OBVIOUS
  <2> QED  BY DEF SetUpExact
<1> QED  BY <1>1, <1>2, PTL DEF SetUpSpec
=============================================================================
