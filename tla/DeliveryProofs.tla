--------------------------- MODULE DeliveryProofs ---------------------------
(***************************************************************************)
(* Theorems about what carries a message to its reader: Push (the streams, *)
(* the sessions and the marks), Inbound (the inbound webhook and its filter *)
(* of repeated posts), Channels (the poll loops of the telegram transports, *)
(* the file of channels and the map of transports) and Delegation (requests *)
(* between agents and their callbacks), for any number of channels, bridges,*)
(* sessions, frames, notes, requests, updates, transports, agents, turns    *)
(* and restarts.                                                            *)
(***************************************************************************)
EXTENDS Inbound, Channels, Delegation, FiniteSetTheorems, SequenceTheorems, TLAPS

(* Push: nobody is told a frame twice, late or of another channel.          *)

\* The first k frames, those of x's channel, in the order of routing.
Fits(frames, x, k) ==
  /\ frames \in Seq(Frame)
  /\ Rising(frames)
  /\ \A i \in DOMAIN frames : frames[i].at <= k /\ frames[i].channel = Listens[x]

\* What a bridge was told and what it has still to read are one such stream.
PushInv ==
  /\ routed \in Nat
  /\ lines \in [Bridge -> 0 .. 2]
  /\ told \in [Bridge -> Seq(Frame)] /\ pipe \in [Bridge -> Seq(Frame)]
  /\ heard \in [Session -> Seq(Frame)]
  /\ \A b \in Bridge : Fits(told[b] \o pipe[b], b, routed)
  /\ \A s \in Session : Fits(heard[s], s, routed)

-----------------------------------------------------------------------------
(* Sequences of frames.                                                     *)

LEMMA FramesTyped ==
  ASSUME NEW s \in Seq(Frame), NEW i \in DOMAIN s
  PROVE  s[i] \in Frame /\ s[i].at \in Nat
<1>1. s[i] \in Frame
  OBVIOUS
<1> QED
  BY <1>1 DEF Frame

LEMMA AppendFits ==
  ASSUME NEW k \in Nat, NEW x, NEW s, Fits(s, x, k),
         NEW f \in Frame, f.at = k + 1, f.channel = Listens[x]
  PROVE  Fits(Append(s, f), x, k + 1)
<1> DEFINE r == Append(s, f)
<1>1. s \in Seq(Frame) /\ r \in Seq(Frame) /\ Len(r) = Len(s) + 1
  BY DEF Fits
<1>2. r[Len(s) + 1] = f /\ \A i \in DOMAIN s : r[i] = s[i]
  BY <1>1
<1>3. DOMAIN r = DOMAIN s \cup {Len(s) + 1} /\ DOMAIN s = 1 .. Len(s)
  BY <1>1
<1> HIDE DEF r
<1>4. \A i \in DOMAIN r : r[i].at <= k + 1 /\ r[i].channel = Listens[x]
  BY <1>1, <1>2, <1>3, FramesTyped DEF Fits
<1>5. Rising(r)
  <2> SUFFICES ASSUME NEW i \in DOMAIN r, NEW j \in DOMAIN r, i < j PROVE r[i].at < r[j].at
    BY DEF Rising
  <2>1. i \in DOMAIN s
    BY <1>1, <1>3
  <2>2. r[i].at <= k /\ r[i].at \in Nat /\ r[i] = s[i]
    BY <1>1, <1>2, <2>1, FramesTyped DEF Fits
  <2>3. CASE j \in DOMAIN s
    BY <1>2, <2>1, <2>3 DEF Fits, Rising
  <2>4. CASE j = Len(s) + 1
    BY <1>2, <2>2, <2>4
  <2> QED  BY <1>3, <2>3, <2>4
<1> QED
  BY <1>1, <1>4, <1>5 DEF Fits, r

LEMMA LaterFits ==
  ASSUME NEW k \in Nat, NEW x, NEW s, Fits(s, x, k)
  PROVE  Fits(s, x, k + 1)
BY FramesTyped DEF Fits

LEMMA FrontFits ==
  ASSUME NEW x, NEW k, NEW s \in Seq(Frame), NEW t \in Seq(Frame), Fits(s \o t, x, k)
  PROVE  Fits(s \o <<>>, x, k)
<1>1. s \o <<>> = s
  OBVIOUS
<1>2. \A i \in DOMAIN s : i \in DOMAIN (s \o t) /\ (s \o t)[i] = s[i]
  OBVIOUS
<1> QED
  BY <1>1, <1>2 DEF Fits, Rising

\* A stream from which the first frame that was not read is dropped.
LEMMA DroppedFits ==
  ASSUME NEW x, NEW k, NEW s \in Seq(Frame), NEW t \in Seq(Frame), t # <<>>, Fits(s \o t, x, k)
  PROVE  Fits(s \o Tail(t), x, k)
<1> DEFINE r == s \o Tail(t)
           from == [i \in 1 .. Len(s) + Len(t) - 1 |-> IF i <= Len(s) THEN i ELSE i + 1]
<1>0. Len(t) \in Nat /\ Len(t) >= 1 /\ Len(s) \in Nat
  OBVIOUS
<1>1. r \in Seq(Frame) /\ Len(r) = Len(s) + Len(t) - 1 /\ DOMAIN r = 1 .. Len(s) + Len(t) - 1
  BY <1>0
<1>2. ASSUME NEW i \in DOMAIN r
      PROVE  from[i] \in DOMAIN (s \o t) /\ r[i] = (s \o t)[from[i]]
  <2>1. CASE i <= Len(s)
    BY <1>0, <1>1, <1>2, <2>1
  <2>2. CASE i > Len(s)
    <3>1. from[i] = i + 1 /\ i - Len(s) \in 1 .. Len(t) - 1
      BY <1>0, <1>1, <1>2, <2>2
    <3>2. r[i] = Tail(t)[i - Len(s)]
      BY <1>0, <1>1, <1>2, <2>2
    <3>3. Tail(t)[i - Len(s)] = t[i - Len(s) + 1]
      BY <1>0, <3>1
    <3>4. (s \o t)[i + 1] = t[i + 1 - Len(s)] /\ i + 1 \in DOMAIN (s \o t)
      BY <1>0, <1>1, <1>2, <2>2
    <3> QED  BY <3>1, <3>2, <3>3, <3>4
  <2> QED  BY <1>0, <1>1, <2>1, <2>2
<1>3. \A i, j \in DOMAIN r : i < j => from[i] < from[j]
  BY <1>0, <1>1
<1> HIDE DEF r, from
<1>4. Fits(r, x, k)
  <2>1. ASSUME NEW i \in DOMAIN r, NEW j \in DOMAIN r, i < j PROVE r[i].at < r[j].at
    <3>1. from[i] < from[j] /\ from[i] \in DOMAIN (s \o t) /\ from[j] \in DOMAIN (s \o t)
      BY <1>2, <1>3, <2>1
    <3>2. (s \o t)[from[i]].at < (s \o t)[from[j]].at
      BY <3>1 DEF Fits, Rising
    <3> QED  BY <1>2, <3>2
  <2>2. ASSUME NEW i \in DOMAIN r PROVE r[i].at <= k /\ r[i].channel = Listens[x]
    BY <1>2 DEF Fits
  <2> QED  BY <1>1, <2>1, <2>2 DEF Fits, Rising
<1> QED
  BY <1>4 DEF r

-----------------------------------------------------------------------------
(* Steps.                                                                   *)

\* What a chunk does to a stream: at most the first frame is dropped.
LEMMA ChunkRead ==
  ASSUME NEW s \in Seq(Frame), NEW t \in Seq(Frame), NEW l \in 0 .. 2,
         NEW n \in 1 .. 3 * Len(t) - l
  PROVE  LET whole == (l + n) \div 3
             first == IF l = 0 THEN 1 ELSE 2
             read == s \o SubSeq(t, first, whole)
             rest == SubSeq(t, whole + 1, Len(t)) IN
           /\ read \in Seq(Frame) /\ rest \in Seq(Frame) /\ (l + n) % 3 \in 0 .. 2
           /\ read \o rest = s \o t \/ (t # <<>> /\ read \o rest = s \o Tail(t))
<1> DEFINE whole == (l + n) \div 3
           first == IF l = 0 THEN 1 ELSE 2
           read == s \o SubSeq(t, first, whole)
           rest == SubSeq(t, whole + 1, Len(t))
<1>1. whole \in Nat /\ whole <= Len(t) /\ (l + n) % 3 \in 0 .. 2 /\ Len(t) \in Nat
  OBVIOUS
<1> HIDE DEF whole
<1>2. SubSeq(t, first, whole) \in Seq(Frame) /\ rest \in Seq(Frame)
  BY <1>1
<1>3. read \o rest = s \o (SubSeq(t, first, whole) \o rest) /\ read \in Seq(Frame)
  <2> DEFINE part == SubSeq(t, first, whole)
  <2>1. s \in Seq(Frame) /\ part \in Seq(Frame) /\ rest \in Seq(Frame)
    BY <1>2
  <2> HIDE DEF part, rest
  <2>2. (s \o part) \o rest = s \o (part \o rest)
    BY <2>1
  <2>3. s \o part \in Seq(Frame)
    BY <2>1
  <2> QED  BY <2>2, <2>3 DEF part, rest
<1>4. CASE first = 1
  <2>1. SubSeq(t, 1, whole) \o SubSeq(t, whole + 1, Len(t)) = SubSeq(t, 1, Len(t))
    <3>1. t \in Seq(Frame) /\ 1 \in 1 .. Len(t) + 1 /\ whole \in 1 - 1 .. Len(t) /\ Len(t) \in whole .. Len(t)
      BY <1>1
    <3> QED  BY ONLY <3>1, ConcatAdjacentSubSeq, Zenon
  <2>2. SubSeq(t, 1, Len(t)) = t
    BY SubSeqFull
  <2> QED  BY <1>1, <1>2, <1>3, <1>4, <2>1, <2>2 DEF whole
<1>5. CASE first = 2 /\ whole = 0
  <2>1. SubSeq(t, first, whole) = <<>> /\ rest = t
    BY <1>1, <1>5, SubSeqEmpty, SubSeqFull
  <2>2. <<>> \o t = t
    BY ConcatEmptySeq
  <2> QED  BY <1>1, <1>2, <1>3, <2>1, <2>2 DEF whole
<1>6. CASE first = 2 /\ whole > 0
  <2>1. SubSeq(t, 2, whole) \o SubSeq(t, whole + 1, Len(t)) = SubSeq(t, 2, Len(t))
    <3>1. t \in Seq(Frame) /\ 2 \in 1 .. Len(t) + 1 /\ whole \in 2 - 1 .. Len(t) /\ Len(t) \in whole .. Len(t)
      BY <1>1, <1>6
    <3> QED  BY ONLY <3>1, ConcatAdjacentSubSeq, Zenon
  <2>2. t # <<>> /\ SubSeq(t, 2, Len(t)) = Tail(t)
    BY <1>1, <1>6, TailIsSubSeq
  <2> QED  BY <1>1, <1>2, <1>3, <1>6, <2>1, <2>2 DEF whole
<1>7. first \in {1, 2} /\ (whole = 0 \/ whole > 0)
  BY <1>1
<1> HIDE DEF first
<1> QED
  BY <1>4, <1>5, <1>6, <1>7

\* A frame reaches the streams of its channel, and the others stay.
LEMMA RouteFits ==
  ASSUME PushInv, NEW c \in Channel, NEW kind \in {"message", "permission_verdict"},
         NEW taken, Route(c, kind, taken)
  PROVE  PushInv'
<1> DEFINE frame == [kind |-> kind, channel |-> c, at |-> routed + 1]
<1>1. routed \in Nat /\ routed' = routed + 1 /\ frame \in Frame /\ UNCHANGED <<lines, told>>
  BY DEF PushInv, Route, Frame
<1>2. frame.at = routed + 1 /\ frame.channel = c
  OBVIOUS
<1>3. /\ pipe' = [b \in Bridge |-> IF b \in On(client, c) THEN Append(pipe[b], frame) ELSE pipe[b]]
      /\ heard' = [s \in Session |-> IF s \in On(Session, c) /\ session[s] = "live"
                                    THEN Append(heard[s], frame) ELSE heard[s]]
  BY DEF Route, Fanned
<1> HIDE DEF frame
<1>4. pipe' \in [Bridge -> Seq(Frame)] /\ heard' \in [Session -> Seq(Frame)]
  BY <1>1, <1>3 DEF PushInv
<1>5. ASSUME NEW b \in Bridge PROVE Fits(told'[b] \o pipe'[b], b, routed')
  <2>1. Fits(told[b] \o pipe[b], b, routed) /\ told[b] \in Seq(Frame) /\ pipe[b] \in Seq(Frame) /\ told'[b] = told[b]
    BY <1>1 DEF PushInv
  <2>2. CASE b \in On(client, c)
    <3>1. pipe'[b] = Append(pipe[b], frame) /\ c = Listens[b]
      BY <1>3, <2>2 DEF On
    <3>2. told'[b] \o pipe'[b] = Append(told[b] \o pipe[b], frame)
      <4> DEFINE q == told[b]
                 r == pipe[b]
                 f == <<frame>>
      <4>1. q \in Seq(Frame) /\ r \in Seq(Frame) /\ f \in Seq(Frame) /\ q \o r \in Seq(Frame)
            /\ frame \in Frame
        BY <1>1, <2>1
      <4> HIDE DEF q, r
      <4>2. Append(r, frame) = r \o f /\ Append(q \o r, frame) = (q \o r) \o f
        BY ONLY <4>1, AppendIsConcat, Zenon
      <4> HIDE DEF f
      <4>3. (q \o r) \o f = q \o (r \o f)
        BY <4>1
      <4> QED  BY <2>1, <3>1, <4>2, <4>3 DEF q, r
    <3> QED  BY <1>1, <1>2, <2>1, <3>1, <3>2, AppendFits
  <2>3. CASE b \notin On(client, c)
    BY <1>1, <1>3, <2>1, <2>3, LaterFits
  <2> QED  BY <2>2, <2>3
<1>6. ASSUME NEW s \in Session PROVE Fits(heard'[s], s, routed')
  <2>1. Fits(heard[s], s, routed)
    BY DEF PushInv
  <2>2. CASE s \in On(Session, c) /\ session[s] = "live"
    BY <1>1, <1>2, <1>3, <2>1, <2>2, AppendFits DEF On
  <2>3. CASE ~(s \in On(Session, c) /\ session[s] = "live")
    BY <1>1, <1>3, <2>1, <2>3, LaterFits
  <2> QED  BY <2>2, <2>3
<1> QED
  BY <1>1, <1>4, <1>5, <1>6 DEF PushInv

\* A step that routes nothing and leaves the sessions what they heard.
LEMMA NothingRouted ==
  ASSUME PushInv, UNCHANGED <<routed, heard>>,
         lines' \in [Bridge -> 0 .. 2], told' \in [Bridge -> Seq(Frame)], pipe' \in [Bridge -> Seq(Frame)],
         \A b \in Bridge : Fits(told'[b] \o pipe'[b], b, routed)
  PROVE  PushInv'
BY DEF PushInv

THEOREM StreamsFit == PushSpec => []PushInv
<1>1. PushInit => PushInv
  <2> SUFFICES ASSUME PushInit PROVE PushInv
    OBVIOUS
  <2>1. \A x : Fits(<<>>, x, 0)
    BY DEF Fits, Rising
  <2>2. <<>> \o <<>> = <<>> /\ <<>> \in Seq(Frame)
    OBVIOUS
  <2> QED  BY <2>1, <2>2 DEF PushInit, PushInv
<1>2. PushInv /\ [PushNext]_pushVars => PushInv'
  <2> SUFFICES ASSUME PushInv, [PushNext]_pushVars PROVE PushInv'
    OBVIOUS
  <2>i. /\ routed \in Nat /\ lines \in [Bridge -> 0 .. 2]
        /\ told \in [Bridge -> Seq(Frame)] /\ pipe \in [Bridge -> Seq(Frame)]
        /\ \A b \in Bridge : Fits(told[b] \o pipe[b], b, routed)
    BY DEF PushInv
  <2>1. ASSUME NEW c \in Channel, PushVerdict(c) \/ \E ts \in Time : PushMessage(c, ts) PROVE PushInv'
    BY <2>1, RouteFits DEF PushVerdict, PushMessage
  <2>2. ASSUME NEW b \in Bridge, Connect(b) \/ Cancel(b) PROVE PushInv'
    BY <2>2 DEF Connect, Cancel, PushInv
  <2>3. ASSUME NEW b \in Bridge, Break(b) PROVE PushInv'
    <3>1. /\ UNCHANGED <<routed, heard, told>>
          /\ pipe' = [pipe EXCEPT ![b] = <<>>] /\ lines' = [lines EXCEPT ![b] = 0]
      BY <2>3 DEF Break
    <3>2. pipe' \in [Bridge -> Seq(Frame)] /\ lines' \in [Bridge -> 0 .. 2]
      BY <3>1, <2>i
    <3>3. ASSUME NEW a \in Bridge PROVE Fits(told'[a] \o pipe'[a], a, routed)
      BY <3>1, <2>i, FrontFits
    <3> QED  BY <3>1, <3>2, <3>3, <2>i, NothingRouted
  <2>4. ASSUME NEW b \in Bridge, NEW n \in 1 .. 3 * MaxFrames, Read(b, n) PROVE PushInv'
    <3> DEFINE whole == (lines[b] + n) \div 3
               first == IF lines[b] = 0 THEN 1 ELSE 2
               read == told[b] \o SubSeq(pipe[b], first, whole)
               rest == SubSeq(pipe[b], whole + 1, Len(pipe[b]))
    <3>1. /\ UNCHANGED <<routed, heard>> /\ n \in 1 .. 3 * Len(pipe[b]) - lines[b]
          /\ told' = [told EXCEPT ![b] = read] /\ pipe' = [pipe EXCEPT ![b] = rest]
          /\ lines' = [lines EXCEPT ![b] = (lines[b] + n) % 3]
      BY <2>4, <2>i DEF Read
    <3>2. told[b] \in Seq(Frame) /\ pipe[b] \in Seq(Frame) /\ lines[b] \in 0 .. 2
      BY <2>i
    <3>3. /\ read \in Seq(Frame) /\ rest \in Seq(Frame) /\ (lines[b] + n) % 3 \in 0 .. 2
          /\ \/ read \o rest = told[b] \o pipe[b]
             \/ pipe[b] # <<>> /\ read \o rest = told[b] \o Tail(pipe[b])
      BY <3>1, <3>2, ChunkRead
    <3>4. Fits(read \o rest, b, routed)
      BY <3>2, <3>3, <2>i, DroppedFits
    <3> HIDE DEF read, rest
    <3>5. told' \in [Bridge -> Seq(Frame)] /\ pipe' \in [Bridge -> Seq(Frame)] /\ lines' \in [Bridge -> 0 .. 2]
      BY <3>1, <3>3, <2>i
    <3>6. ASSUME NEW a \in Bridge PROVE Fits(told'[a] \o pipe'[a], a, routed)
      BY <3>1, <3>4, <2>i
    <3> QED  BY <3>1, <3>5, <3>6, NothingRouted
  <2>5. ASSUME NEW s \in Session, SessionMoves(s) PROVE PushInv'
    BY <2>5 DEF SessionMoves, SessionStep, PushInv
  <2>6. ASSUME NEW t, PushRestart(t) PROVE PushInv'
    <3>1. /\ UNCHANGED <<routed, heard, told>>
          /\ pipe' = [b \in Bridge |-> <<>>] /\ lines' = [b \in Bridge |-> 0]
      BY <2>6 DEF PushRestart
    <3>2. pipe' \in [Bridge -> Seq(Frame)] /\ lines' \in [Bridge -> 0 .. 2]
      BY <3>1
    <3>3. ASSUME NEW a \in Bridge PROVE Fits(told'[a] \o pipe'[a], a, routed)
      BY <3>1, <2>i, FrontFits
    <3> QED  BY <3>1, <3>2, <3>3, <2>i, NothingRouted
  <2>7. CASE UNCHANGED pushVars
    BY <2>7 DEF pushVars, PushInv
  <2> QED
    BY <2>1, <2>2, <2>3, <2>4, <2>5, <2>6, <2>7 DEF PushNext
<1> QED
  BY <1>1, <1>2, PTL DEF PushSpec

\* What a bridge tells its Claude session and what an MCP session hears, over
\* all of their connections, is of their channel, in the order of routing, and
\* no frame comes twice.
THEOREM TellsInOrder == PushSpec => []ToldInOrder
<1>1. ASSUME PushInv PROVE ToldInOrder
  <2>1. ASSUME NEW b \in Bridge
        PROVE  Rising(told[b] \o pipe[b]) /\ \A i \in DOMAIN told[b] : told[b][i].channel = Listens[b]
    <3>1. told[b] \in Seq(Frame) /\ pipe[b] \in Seq(Frame) /\ Fits(told[b] \o pipe[b], b, routed)
      BY <1>1 DEF PushInv
    <3>2. Fits(told[b] \o <<>>, b, routed) /\ told[b] \o <<>> = told[b]
      BY <3>1, FrontFits
    <3> QED  BY <3>1, <3>2 DEF Fits
  <2>2. \A s \in Session : Rising(heard[s]) /\ \A i \in DOMAIN heard[s] : heard[s][i].channel = Listens[s]
    BY <1>1 DEF PushInv, Fits
  <2> QED  BY <2>1, <2>2 DEF ToldInOrder
<1> QED
  BY <1>1, StreamsFit, PTL

-----------------------------------------------------------------------------
(* The filter of repeated notes, which Inbound and Delegation share.          *)

\* The filter holds the newest of the marks, each note once.
Remembers ==
  /\ Len(seen) = IF Len(marked) < SEEN_INBOUND_CAP THEN Len(marked) ELSE SEEN_INBOUND_CAP
  /\ \A i \in DOMAIN seen : seen[i] = marked[Len(marked) - Len(seen) + i]
  /\ \A i, j \in DOMAIN seen : seen[i] = seen[j] => i = j

LEMMA ImageIsFinite ==
  ASSUME NEW f, NEW a \in Int, NEW b \in Int
  PROVE  IsFiniteSet({f[k] : k \in a .. b})
<1> DEFINE T == {f[k] : k \in a .. b}
           g == [k \in a .. b |-> f[k]]
<1>1. g \in Surjection(a .. b, T)
  BY DEF Surjection
<1>2. IsFiniteSet(a .. b)
  BY FS_Interval
<1> HIDE DEF T, g
<1>3. IsFiniteSet(T)
  BY <1>1, <1>2, FS_Surjection
<1> QED
  BY <1>3 DEF T

LEMMA DistinctCount ==
  ASSUME NEW S, NEW s \in Seq(S), NEW T, IsFiniteSet(T),
         \A i \in DOMAIN s : s[i] \in T,
         \A i, j \in DOMAIN s : s[i] = s[j] => i = j
  PROVE  Cardinality(T) \in Nat /\ Cardinality(T) >= Len(s)
<1>1. s \in [1 .. Len(s) -> T] /\ Len(s) \in Nat
  BY LenProperties
<1>2. s \in Injection(1 .. Len(s), T)
  BY <1>1 DEF Injection, IsInjective
<1>3. Cardinality(1 .. Len(s)) = Len(s) /\ IsFiniteSet(1 .. Len(s))
  <2>1. 1 \in Int /\ Len(s) \in Int
    BY <1>1
  <2>2. IsFiniteSet(1 .. Len(s)) /\ Cardinality(1 .. Len(s)) = IF 1 > Len(s) THEN 0 ELSE Len(s) - 1 + 1
    BY <2>1, FS_Interval
  <2> QED  BY <1>1, <2>2
<1>4. Cardinality(1 .. Len(s)) <= Cardinality(T)
  BY <1>2, FS_Injection
<1> QED
  BY <1>3, <1>4, FS_CardinalityType

LEMMA MarkRemembers ==
  ASSUME NEW S, seen \in Seq(S), marked \in Seq(S), Remembers,
         NEW n \in S, ~Seen(n), MarkSeen(n)
  PROVE  /\ seen' \in Seq(S) /\ marked' \in Seq(S)
         /\ Remembers'
         /\ \A m \in S : Seen(m)' => Seen(m) \/ m = n
<1> DEFINE C == SEEN_INBOUND_CAP
           L == Len(marked)
           s == Append(seen, n)
           r == Append(marked, n)
<1>0. /\ seen \in Seq(S) /\ marked \in Seq(S) /\ L \in Nat /\ Len(seen) \in Nat
      /\ C \in Nat /\ C > 0
  BY FilterAssumption
<1>1. /\ r \in Seq(S) /\ Len(r) = L + 1 /\ r[L + 1] = n /\ \A i \in 1 .. L : r[i] = marked[i]
      /\ s \in Seq(S) /\ Len(s) = Len(seen) + 1 /\ s[Len(seen) + 1] = n
      /\ \A i \in 1 .. Len(seen) : s[i] = seen[i]
  BY <1>0
<1>2. /\ Len(seen) = IF L < C THEN L ELSE C
      /\ \A i \in 1 .. Len(seen) : seen[i] = marked[L - Len(seen) + i] /\ seen[i] # n
      /\ \A i, j \in 1 .. Len(seen) : seen[i] = seen[j] => i = j
  <2>1. /\ Len(seen) = (IF L < C THEN L ELSE C) /\ DOMAIN seen = 1 .. Len(seen)
        /\ \A i \in DOMAIN seen : seen[i] = marked[L - Len(seen) + i]
        /\ \A i, j \in DOMAIN seen : seen[i] = seen[j] => i = j
    BY <1>0 DEF Remembers
  <2>2. \A i \in DOMAIN seen : seen[i] # n
    BY DEF Seen
  <2> QED  BY <2>1, <2>2
<1>3. marked' = r /\ seen' = IF Len(s) > C THEN Tail(s) ELSE s
  BY DEF MarkSeen, Evicted
<1> HIDE DEF C, L, s, r
<1>4. CASE L < C
  <2>1. seen' = s /\ Len(seen) = L
    BY <1>0, <1>1, <1>2, <1>3, <1>4
  <2>2. Remembers'
    <3>1. Len(seen') = L + 1 /\ Len(marked') = L + 1 /\ DOMAIN seen' = 1 .. L + 1
      BY <1>0, <1>1, <1>3, <2>1
    <3>2. \A i \in 1 .. L + 1 : seen'[i] = marked'[i] /\ seen'[i] = IF i = L + 1 THEN n ELSE seen[i]
      <4> SUFFICES ASSUME NEW i \in 1 .. L + 1
                   PROVE  s[i] = r[i] /\ s[i] = IF i = L + 1 THEN n ELSE seen[i]
        BY <1>3, <2>1
      <4>1. CASE i = L + 1
        BY <1>1, <2>1, <4>1
      <4>2. CASE i # L + 1
        <5>1. i \in 1 .. L /\ i \in 1 .. Len(seen) /\ L - Len(seen) + i = i
          BY <1>0, <2>1, <4>2
        <5> QED  BY <1>1, <1>2, <4>2, <5>1
      <4> QED  BY <4>1, <4>2
    <3>3. \A i, j \in 1 .. L + 1 : seen'[i] = seen'[j] => i = j
      <4> TAKE i, j \in 1 .. L + 1
      <4>1. CASE i = L + 1 \/ j = L + 1
        <5>1. \A k \in 1 .. L + 1 : k # L + 1 => k \in 1 .. Len(seen)
          BY <1>0, <2>1
        <5> QED  BY <1>2, <3>2, <4>1, <5>1
      <4>2. CASE i # L + 1 /\ j # L + 1
        <5>1. i \in 1 .. Len(seen) /\ j \in 1 .. Len(seen)
          BY <1>0, <2>1, <4>2
        <5> QED  BY <1>2, <3>2, <4>2, <5>1
      <4> QED  BY <4>1, <4>2
    <3>4. \A i \in 1 .. L + 1 : Len(marked') - Len(seen') + i = i
      BY <1>0, <3>1
    <3>5. L + 1 <= C
      BY <1>0, <1>4
    <3> QED  BY <1>0, <3>1, <3>2, <3>3, <3>4, <3>5 DEF Remembers, C
  <2>3. \A m \in S : Seen(m)' => Seen(m) \/ m = n
    <3>1. \A m \in S : (\E i \in DOMAIN seen' : seen'[i] = m) <=> Seen(m)'
      BY DEF Seen
    <3>2. DOMAIN s = 1 .. L + 1 /\ DOMAIN seen = 1 .. L /\ \A i \in 1 .. L + 1 : i # L + 1 => i \in 1 .. L
      BY <1>0, <1>1, <2>1
    <3>3. \A i \in DOMAIN seen' : seen'[i] = n \/ \E j \in DOMAIN seen : seen'[i] = seen[j]
      BY <1>1, <2>1, <3>2
    <3> QED  BY <3>1, <3>3 DEF Seen
  <2> QED  BY <1>1, <1>3, <2>1, <2>2, <2>3
<1>5. CASE L >= C
  <2>1. Len(seen) = C /\ seen' = Tail(s) /\ s # <<>>
    BY <1>0, <1>1, <1>2, <1>3, <1>5
  <2>2. /\ seen' \in Seq(S) /\ Len(seen') = C
        /\ \A i \in 1 .. C : seen'[i] = s[i + 1]
    BY <1>0, <1>1, <2>1, HeadTailProperties
  <2>3. \A i \in 1 .. C : seen'[i] = IF i = C THEN n ELSE seen[i + 1]
    BY <1>0, <1>1, <2>1, <2>2
  <2>4. \A i \in 1 .. C : seen'[i] = marked'[L + 1 - C + i]
    <3> TAKE i \in 1 .. C
    <3>1. CASE i = C
      BY <1>0, <1>1, <1>3, <2>3, <3>1
    <3>2. CASE i # C
      <4>1. i + 1 \in 1 .. Len(seen) /\ L - C + (i + 1) = L + 1 - C + i /\ L + 1 - C + i \in 1 .. L
        BY <1>0, <1>5, <2>1, <3>2
      <4>2. seen[i + 1] = marked[L - C + (i + 1)]
        BY <1>2, <2>1, <4>1
      <4> QED  BY <1>1, <1>3, <2>3, <3>2, <4>1, <4>2
    <3> QED  BY <3>1, <3>2
  <2>5. \A i, j \in 1 .. C : seen'[i] = seen'[j] => i = j
    <3>1. \A i \in 1 .. C : i # C => i + 1 \in 1 .. Len(seen)
      BY <1>0, <2>1
    <3> TAKE i, j \in 1 .. C
    <3>2. CASE i = C \/ j = C
      <4>1. \A k \in 1 .. C : k # C => seen'[k] # n
        BY <1>2, <2>3, <3>1
      <4>2. seen'[C] = n
        BY <1>0, <2>3
      <4> QED  BY <3>2, <4>1, <4>2
    <3>3. CASE i # C /\ j # C
      <4>1. i + 1 \in 1 .. Len(seen) /\ j + 1 \in 1 .. Len(seen) /\ (i + 1 = j + 1 => i = j)
        BY <1>0, <3>1, <3>3
      <4> QED  BY <1>2, <2>3, <3>3, <4>1
    <3> QED  BY <3>2, <3>3
  <2>6. Remembers'
    <3>1. Len(marked') = L + 1 /\ DOMAIN seen' = 1 .. C /\ ~(Len(marked') < C)
      BY <1>0, <1>1, <1>3, <1>5, <2>2
    <3>2. \A i \in DOMAIN seen' : seen'[i] = marked'[Len(marked') - Len(seen') + i]
      <4> TAKE i \in DOMAIN seen'
      <4>1. i \in 1 .. C
        BY <3>1
      <4>2. Len(marked') - Len(seen') + i = L + 1 - C + i
        BY <1>0, <2>2, <3>1, <4>1
      <4> QED  BY <2>4, <4>1, <4>2
    <3> QED  BY <2>2, <2>5, <3>1, <3>2 DEF Remembers, C
  <2>7. \A m \in S : Seen(m)' => Seen(m) \/ m = n
    BY <1>0, <2>1, <2>2, <2>3 DEF Seen
  <2> QED  BY <1>1, <1>3, <2>2, <2>6, <2>7
<1> QED
  BY <1>0, <1>4, <1>5

\* The filter's promise, of any history.
Spaced(history) ==
  \A i, j \in DOMAIN history :
    i < j /\ history[i] = history[j] =>
      Cardinality({history[k] : k \in i + 1 .. j - 1}) >= SEEN_INBOUND_CAP

LEMMA MarkSpaced ==
  ASSUME NEW S, seen \in Seq(S), marked \in Seq(S), Remembers, OnceWithinTheCap,
         NEW n \in S, ~Seen(n), MarkSeen(n)
  PROVE  OnceWithinTheCap'
<1> DEFINE C == SEEN_INBOUND_CAP
           L == Len(marked)
           r == Append(marked, n)
<1>0. /\ seen \in Seq(S) /\ marked \in Seq(S) /\ L \in Nat /\ Len(seen) \in Nat
      /\ C \in Nat /\ C > 0 /\ DOMAIN marked = 1 .. L /\ DOMAIN seen = 1 .. Len(seen)
  BY FilterAssumption
<1>1. /\ marked' = r /\ Len(r) = L + 1 /\ r[L + 1] = n /\ \A i \in 1 .. L : r[i] = marked[i]
      /\ DOMAIN r = 1 .. L + 1
  BY <1>0 DEF MarkSeen
<1>2. /\ Len(seen) = IF L < C THEN L ELSE C
      /\ \A i \in 1 .. Len(seen) : seen[i] = marked[L - Len(seen) + i] /\ seen[i] # n
      /\ \A i, j \in 1 .. Len(seen) : seen[i] = seen[j] => i = j
  BY <1>0 DEF Remembers, Seen
<1> HIDE DEF C, L, r
<1>9. OnceWithinTheCap' <=> Spaced(r)
  <2>1. OnceWithinTheCap' <=> Spaced(marked')
    BY DEF OnceWithinTheCap, Spaced
  <2> QED  BY <1>1, <2>1
<1>3. SUFFICES ASSUME NEW i \in 1 .. L + 1, NEW j \in 1 .. L + 1, i < j, r[i] = r[j]
               PROVE  Cardinality({r[k] : k \in i + 1 .. j - 1}) >= C
  BY <1>1, <1>9 DEF Spaced, C
<1>4. i \in 1 .. L /\ i + 1 \in Int /\ j - 1 \in Int
  BY <1>0, <1>3
<1>5. CASE j <= L
  <2>1. {r[k] : k \in i + 1 .. j - 1} = {marked[k] : k \in i + 1 .. j - 1}
    <3>1. \A k \in i + 1 .. j - 1 : k \in 1 .. L
      BY <1>0, <1>4, <1>5
    <3>2. \A k \in i + 1 .. j - 1 : r[k] = marked[k]
      BY <1>1, <3>1
    <3> QED  BY <3>2
  <2>2. marked[i] = marked[j] /\ i \in DOMAIN marked /\ j \in DOMAIN marked
    BY <1>0, <1>1, <1>3, <1>4, <1>5
  <2> QED  BY <1>3, <2>1, <2>2 DEF OnceWithinTheCap, C
<1>6. CASE j = L + 1
  <2>1. marked[i] = n
    BY <1>1, <1>3, <1>4, <1>6
  <2>2. ~(i > L - Len(seen))
    <3> SUFFICES ASSUME i > L - Len(seen) PROVE FALSE
      OBVIOUS
    <3>1. i - (L - Len(seen)) \in 1 .. Len(seen) /\ L - Len(seen) + (i - (L - Len(seen))) = i
      BY <1>0, <1>4
    <3> QED  BY <1>2, <2>1, <3>1
  <2>3. Len(seen) = C
    BY <1>0, <1>2, <1>4, <2>2
  <2> DEFINE T == {r[k] : k \in i + 1 .. j - 1}
  <2>4. \A x \in DOMAIN seen : seen[x] \in T
    <3> SUFFICES ASSUME NEW x \in 1 .. Len(seen) PROVE seen[x] \in T
      BY <1>0
    <3>1. L - Len(seen) + x \in i + 1 .. j - 1 /\ L - Len(seen) + x \in 1 .. L
      BY <1>0, <1>4, <1>6, <2>2
    <3>2. seen[x] = r[L - Len(seen) + x]
      BY <1>1, <1>2, <3>1
    <3> QED  BY <3>1, <3>2
  <2>5. IsFiniteSet(T)
    BY <1>4, ImageIsFinite
  <2> HIDE DEF T
  <2>6. Cardinality(T) >= Len(seen)
    BY <1>0, <1>2, <2>4, <2>5, DistinctCount
  <2> QED  BY <2>3, <2>6 DEF T
<1> QED
  BY <1>0, <1>3, <1>5, <1>6

\* An empty filter remembers all that is marked, and is not answerable for any.
LEMMA NothingMarkedYet == FilterInit => Remembers /\ OnceWithinTheCap
  BY FilterAssumption DEF FilterInit, Remembers, OnceWithinTheCap

LEMMA NothingMarked ==
  ASSUME seen' = <<>>, marked' = <<>>  PROVE  Remembers' /\ OnceWithinTheCap'
  BY FilterAssumption DEF Remembers, OnceWithinTheCap

-----------------------------------------------------------------------------
(* Inbound: an acknowledged note is handed on, once.                        *)

\* A note that is remembered would be acknowledged, so it keeps the promise of
\* one that was.
Promised == \A n \in Note : n \in acked \/ Seen(n) => handed[n] > 0 \/ BeingHandled(n) \/ n \in cut

InboundTypes ==
  /\ handler \in [Request -> Handler] /\ handed \in [Note -> Nat]
  /\ seen \in Seq(Note) /\ marked \in Seq(Note)
  /\ acked \subseteq Note /\ cut \subseteq Note

InboundInv == InboundTypes /\ Remembers /\ OnceWithinTheCap /\ Promised

-----------------------------------------------------------------------------
(* Steps of the webhook.                                                    *)

\* The answer is the handler's last word.
LEMMA AnswerTypes ==
  ASSUME InboundTypes, NEW r \in Request, NEW n \in Note, Answer200(r, n)
  PROVE  /\ handler' \in [Request -> Handler]
         /\ acked' \subseteq acked \cup {n}
         /\ \A m \in Note : m # n /\ BeingHandled(m) /\ handler[r].note = n => BeingHandled(m)'
BY DEF InboundTypes, Answer200, Handler, Idle, BeingHandled

\* What a step other than a restart has to do to keep the promise.
LEMMA PromiseKept ==
  ASSUME Promised, NEW n,
         acked' \subseteq acked \cup {n}, cut \subseteq cut',
         \A m \in Note : Seen(m)' => Seen(m) \/ m = n,
         \A m \in Note : handed[m] > 0 => handed'[m] > 0,
         \A m \in Note : m # n /\ BeingHandled(m) => BeingHandled(m)',
         n \in Note => handed'[n] > 0 \/ BeingHandled(n)' \/ n \in cut'
  PROVE  Promised'
BY DEF Promised
\* A step of a handler that marks nothing and hands nothing on.
LEMMA Waiting ==
  ASSUME InboundInv, UNCHANGED <<seen, marked, handed, acked, cut>>,
         handler' \in [Request -> Handler],
         \A m \in Note : BeingHandled(m) => BeingHandled(m)'
  PROVE  InboundInv'
<1>1. InboundTypes'
  BY DEF InboundInv, InboundTypes
<1>2. Remembers' /\ OnceWithinTheCap' /\ \A m : Seen(m)' <=> Seen(m)
  BY DEF InboundInv, Remembers, OnceWithinTheCap, Seen
<1>3. Promised'
  BY <1>2 DEF InboundInv, Promised
<1> QED
  BY <1>1, <1>2, <1>3 DEF InboundInv

LEMMA InboundStep == InboundInv /\ [InboundNext]_<<pushVars, filterVars, inboundVars>> => InboundInv'
<1> SUFFICES ASSUME InboundInv, [InboundNext]_<<pushVars, filterVars, inboundVars>> PROVE InboundInv'
  OBVIOUS
<1>t. InboundTypes /\ Remembers /\ OnceWithinTheCap /\ Promised
  BY DEF InboundInv
<1>s. seen \in Seq(Note) /\ marked \in Seq(Note)
  BY <1>t DEF InboundTypes
<1>h. /\ handler \in [Request -> Handler] /\ Idle.pc = "idle" /\ Idle \in Handler
      /\ handed \in [Note -> Nat] /\ acked \subseteq Note /\ cut \subseteq Note
      /\ \A r \in Request : handler[r].pc \in {"auth", "files", "thread"} =>
            handler[r] \in [pc : {"auth", "files", "thread"}, note : Note, live : BOOLEAN]
  BY <1>t DEF InboundTypes, Handler, Idle
<1>1. ASSUME NEW r \in Request, NEW n \in Note, Post(r, n) PROVE InboundInv'
  <2>1. handler' = [handler EXCEPT ![r] = [pc |-> "auth", note |-> n, live |-> NoteChannel[n] \in open]]
    BY <1>1 DEF Post
  <2>2. handler' \in [Request -> Handler]
    BY <1>h, <2>1 DEF Handler
  <2>3. \A m \in Note : BeingHandled(m) => BeingHandled(m)'
    BY <1>1, <1>h, <2>1 DEF BeingHandled, Post, Idle
  <2> QED  BY <1>1, <2>2, <2>3, Waiting DEF Post, filterVars
<1>2. ASSUME NEW r \in Request, Refuse(r) \/ UnknownThread(r) PROVE InboundInv'
  <2>1. handler' = [handler EXCEPT ![r] = Idle] /\ handler[r].pc # "files"
    BY <1>2 DEF Refuse, UnknownThread
  <2>2. handler' \in [Request -> Handler]
    BY <1>h, <2>1
  <2>3. \A m \in Note : BeingHandled(m) => BeingHandled(m)'
    BY <1>h, <2>1 DEF BeingHandled
  <2> QED  BY <1>2, <2>2, <2>3, Waiting DEF Refuse, UnknownThread, filterVars
<1>3. ASSUME NEW r \in Request, AskThread(r) PROVE InboundInv'
  <2>1. handler' = [handler EXCEPT ![r].pc = "thread"] /\ handler[r].pc = "auth"
    BY <1>3 DEF AskThread
  <2>2. handler' \in [Request -> Handler]
    BY <1>h, <2>1 DEF Handler
  <2>3. \A m \in Note : BeingHandled(m) => BeingHandled(m)'
    BY <1>h, <2>1 DEF BeingHandled
  <2> QED  BY <1>3, <2>2, <2>3, Waiting DEF AskThread, filterVars
<1>4. ASSUME NEW r \in Request, Ingest(r) PROVE InboundInv'
  <2> DEFINE n == handler[r].note
  <2>1. /\ n \in Note /\ handler[r].pc = "auth" /\ cut' = cut
        /\ handler[r] \in [pc : {"auth", "files", "thread"}, note : Note, live : BOOLEAN]
    BY <1>4, <1>h DEF Ingest
  <2>2. \/ Seen(n) /\ Answer200(r, n) /\ UNCHANGED <<seen, marked, handed>>
        \/ /\ ~Seen(n) /\ MarkSeen(n) /\ handler' = [handler EXCEPT ![r].pc = "files"]
           /\ UNCHANGED <<acked, handed>>
        \/ ~Seen(n) /\ MarkSeen(n) /\ Emit(n) /\ Answer200(r, n)
    BY <1>4 DEF Ingest, filterVars
  <2>3. CASE Seen(n) /\ Answer200(r, n) /\ UNCHANGED <<seen, marked, handed>>
    <3>1. handler' \in [Request -> Handler] /\ acked' \subseteq acked \cup {n}
      BY <1>t, <2>1, <2>3, AnswerTypes
    <3>2. \A m \in Note : BeingHandled(m) => BeingHandled(m)'
      BY <1>h, <2>1, <2>3 DEF BeingHandled, Answer200
    <3>3. Remembers' /\ OnceWithinTheCap' /\ \A m : Seen(m)' <=> Seen(m)
      BY <1>t, <2>3 DEF Remembers, OnceWithinTheCap, Seen
    <3>4. Promised'
      BY <1>t, <2>1, <2>3, <3>1, <3>2, <3>3, PromiseKept DEF Promised
    <3> QED  BY <1>t, <2>1, <2>3, <3>1, <3>3, <3>4 DEF InboundInv, InboundTypes
  <2>4. CASE /\ ~Seen(n) /\ MarkSeen(n) /\ handler' = [handler EXCEPT ![r].pc = "files"]
             /\ UNCHANGED <<acked, handed>>
    <3>1. handler' \in [Request -> Handler]
      BY <1>h, <2>1, <2>4 DEF Handler
    <3>2. \A m \in Note : BeingHandled(m) => BeingHandled(m)'
      BY <1>h, <2>1, <2>4 DEF BeingHandled
    <3>3. BeingHandled(n)'
      BY <1>h, <2>1, <2>4 DEF BeingHandled
    <3>4. /\ seen' \in Seq(Note) /\ marked' \in Seq(Note) /\ Remembers'
          /\ \A m \in Note : Seen(m)' => Seen(m) \/ m = n
      BY <1>t, <1>s, <2>1, <2>4, MarkRemembers
    <3>5. OnceWithinTheCap'
      BY <1>t, <1>s, <2>1, <2>4, MarkSpaced
    <3>6. Promised'
      BY <1>t, <2>1, <2>4, <3>2, <3>3, <3>4, PromiseKept
    <3> QED  BY <1>t, <2>1, <2>4, <3>1, <3>4, <3>5, <3>6 DEF InboundInv, InboundTypes
  <2>5. CASE ~Seen(n) /\ MarkSeen(n) /\ Emit(n) /\ Answer200(r, n)
    <3>1. handler' \in [Request -> Handler] /\ acked' \subseteq acked \cup {n}
      BY <1>t, <2>1, <2>5, AnswerTypes
    <3>2. \A m \in Note : BeingHandled(m) => BeingHandled(m)'
      BY <1>h, <2>1, <2>5 DEF BeingHandled, Answer200
    <3>3. handed' = [handed EXCEPT ![n] = @ + 1]
      BY <2>5 DEF Emit
    <3>4. /\ seen' \in Seq(Note) /\ marked' \in Seq(Note) /\ Remembers'
          /\ \A m \in Note : Seen(m)' => Seen(m) \/ m = n
      BY <1>t, <1>s, <2>1, <2>5, MarkRemembers
    <3>5. OnceWithinTheCap'
      BY <1>t, <1>s, <2>1, <2>5, MarkSpaced
    <3>6. handed' \in [Note -> Nat] /\ handed'[n] > 0 /\ \A m \in Note : handed[m] > 0 => handed'[m] > 0
      BY <1>h, <2>1, <3>3
    <3>7. Promised'
      BY <1>t, <2>1, <3>1, <3>2, <3>4, <3>6, PromiseKept
    <3> QED  BY <1>t, <2>1, <3>1, <3>4, <3>5, <3>6, <3>7 DEF InboundInv, InboundTypes
  <2> QED  BY <2>2, <2>3, <2>4, <2>5
<1>5. ASSUME NEW r \in Request, FilesFetched(r) PROVE InboundInv'
  <2> DEFINE n == handler[r].note
  <2>1. n \in Note /\ handler[r].pc = "files" /\ Emit(n) /\ Answer200(r, n) /\ UNCHANGED <<seen, marked, cut>>
    BY <1>5, <1>h DEF FilesFetched, filterVars
  <2>2. /\ handler' \in [Request -> Handler] /\ acked' \subseteq acked \cup {n}
        /\ \A m \in Note : m # n /\ BeingHandled(m) => BeingHandled(m)'
    BY <1>t, <2>1, AnswerTypes
  <2>3. handed' = [handed EXCEPT ![n] = @ + 1]
    BY <2>1 DEF Emit
  <2>4. handed' \in [Note -> Nat] /\ handed'[n] > 0 /\ \A m \in Note : handed[m] > 0 => handed'[m] > 0
    BY <1>h, <2>1, <2>3
  <2>5. Remembers' /\ OnceWithinTheCap' /\ \A m : Seen(m)' <=> Seen(m)
    BY <1>t, <2>1 DEF Remembers, OnceWithinTheCap, Seen
  <2>6. Promised'
    BY <1>t, <2>1, <2>2, <2>4, <2>5, PromiseKept
  <2> QED  BY <1>t, <2>1, <2>2, <2>4, <2>5, <2>6 DEF InboundInv, InboundTypes
<1>6. ASSUME NEW r \in Request, OwnForThread(r) PROVE InboundInv'
  <2> DEFINE n == handler[r].note
  <2>1. /\ n \in Note /\ handler[r].pc = "thread" /\ Answer200(r, n) /\ UNCHANGED cut
        /\ \/ Seen(n) /\ UNCHANGED <<seen, marked, handed>>
           \/ ~Seen(n) /\ MarkSeen(n) /\ handed' = [handed EXCEPT ![n] = @ + 1]
    BY <1>6, <1>h DEF OwnForThread, filterVars
  <2>2. handler' \in [Request -> Handler] /\ acked' \subseteq acked \cup {n}
    BY <1>t, <2>1, AnswerTypes
  <2>3. \A m \in Note : BeingHandled(m) => BeingHandled(m)'
    BY <1>h, <2>1 DEF BeingHandled, Answer200
  <2>4. CASE Seen(n) /\ UNCHANGED <<seen, marked, handed>>
    <3>0. seen' = seen /\ marked' = marked
      BY <2>4
    <3>1. Remembers' /\ OnceWithinTheCap' /\ \A m : Seen(m)' <=> Seen(m)
      BY <1>t, <3>0 DEF Remembers, OnceWithinTheCap, Seen
    <3>2. Promised'
      BY <1>t, <2>1, <2>2, <2>3, <2>4, <3>1, PromiseKept DEF Promised
    <3> QED  BY <1>t, <2>1, <2>2, <2>4, <3>1, <3>2 DEF InboundInv, InboundTypes
  <2>5. CASE ~Seen(n) /\ MarkSeen(n) /\ handed' = [handed EXCEPT ![n] = @ + 1]
    <3>4. /\ seen' \in Seq(Note) /\ marked' \in Seq(Note) /\ Remembers'
          /\ \A m \in Note : Seen(m)' => Seen(m) \/ m = n
      BY <1>t, <1>s, <2>1, <2>5, MarkRemembers
    <3>5. OnceWithinTheCap'
      BY <1>t, <1>s, <2>1, <2>5, MarkSpaced
    <3>6. handed' \in [Note -> Nat] /\ handed'[n] > 0 /\ \A m \in Note : handed[m] > 0 => handed'[m] > 0
      BY <1>h, <2>1, <2>5
    <3>7. Promised'
      BY <1>t, <2>1, <2>2, <2>3, <3>4, <3>6, PromiseKept
    <3> QED  BY <1>t, <2>1, <2>2, <3>4, <3>5, <3>6, <3>7 DEF InboundInv, InboundTypes
  <2> QED  BY <2>1, <2>4, <2>5
<1>7. ASSUME InboundRestart PROVE InboundInv'
  <2>1. /\ handler' = [r \in Request |-> Idle] /\ seen' = <<>> /\ marked' = <<>>
        /\ UNCHANGED <<acked, handed>>
        /\ cut' = cut \cup {n \in Note : \E r \in Request : handler[r].pc = "files" /\ handler[r].note = n}
    BY <1>7 DEF InboundRestart, FilterEmptied
  <2>2. InboundTypes'
    BY <1>t, <1>h, <2>1 DEF InboundTypes
  <2>3. Remembers' /\ OnceWithinTheCap' /\ \A m : ~Seen(m)'
    <3>1. Len(marked') = 0 /\ Len(seen') = 0 /\ DOMAIN seen' = {} /\ DOMAIN marked' = {}
      BY <2>1
    <3> QED  BY <3>1, FilterAssumption DEF Remembers, OnceWithinTheCap, Seen
  <2>4. Promised'
    BY <1>t, <2>1, <2>3 DEF Promised, BeingHandled
  <2> QED  BY <2>2, <2>3, <2>4 DEF InboundInv
<1>8. ASSUME NEW c, ChannelChanges(c) PROVE InboundInv'
  BY <1>8, <1>h, Waiting DEF ChannelChanges, BeingHandled, filterVars
<1>9. CASE UNCHANGED <<pushVars, filterVars, inboundVars>>
  BY <1>9, <1>h, Waiting DEF inboundVars, filterVars, BeingHandled
<1> QED
  BY <1>1, <1>2, <1>3, <1>4, <1>5, <1>6, <1>7, <1>8, <1>9 DEF InboundNext, HandlerNext

\* Whatever requests overlap, channels change and restarts come in between, a
\* note that was acknowledged is handed on, or was cut off by a restart while
\* its files were fetched, and the filter lets it pass twice only when as many
\* others came between as it remembers.
THEOREM AcknowledgedIsHandedOn == InboundSpec => []AckedMeansHandedOnce
<1>1. PushInit /\ InboundInit => InboundInv
  <2> SUFFICES ASSUME InboundInit PROVE InboundInv
    OBVIOUS
  <2>1. /\ handler = [r \in Request |-> Idle] /\ seen = <<>> /\ marked = <<>>
        /\ acked = {} /\ cut = {} /\ handed = [n \in Note |-> 0]
    BY DEF InboundInit, FilterInit
  <2>2. Len(marked) = 0 /\ Len(seen) = 0 /\ DOMAIN seen = {} /\ DOMAIN marked = {}
    BY <2>1
  <2>3. InboundTypes
    BY <2>1 DEF InboundTypes, Handler, Idle
  <2>4. Remembers /\ OnceWithinTheCap /\ Promised
    BY <2>1, <2>2, FilterAssumption DEF Remembers, OnceWithinTheCap, Promised, Seen
  <2> QED  BY <2>3, <2>4 DEF InboundInv
<1>2. InboundInv => AckedMeansHandedOnce
  BY DEF InboundInv, InboundTypes, Promised, AckedMeansHandedOnce, NoSilentLoss
<1> QED
  BY <1>1, <1>2, InboundStep, PTL DEF InboundSpec

-----------------------------------------------------------------------------
(* Channels: no update is skipped, and the configuration is what is served. *)

\* The record of a poll loop, or of none.
PollLoop == [pc : {"none", "ask", "wait", "handle", "busy", "sleep"}, on : BOOLEAN,
             name : Name \cup {NoPoller.name}, offset : 0 .. Updates + 1, batch : Seq(Update)]
Deed == [by : Transport, update : Update]
ChannelCall == {NoCall} \cup [pc : {"adding", "removing"}, name : Name]

\* Update u of channel n was handled, or its handler threw.
Dealt(n, u) == u \in failed[n] \/ \E i \in DOMAIN done[n] : done[n][i].update = u

\* The first update that loop p has not got behind it: a busy loop has moved its
\* offset over the update at hand.
Frontier(p) == IF p.pc = "busy" THEN p.offset - 1 ELSE p.offset

\* A loop has dealt with all that lies before its frontier, and its batch goes on
\* from there without a gap.
Sound(g, p) ==
  /\ p.pc # "none" =>
       /\ g <= made /\ p.name \in Name
       /\ \A u \in Update : u < Frontier(p) => Dealt(p.name, u)
  /\ p.pc \in {"handle", "busy"} => \A i \in DOMAIN p.batch : p.batch[i] = p.batch[1] + i - 1
  /\ p.pc = "handle" /\ p.batch # <<>> =>
       /\ p.offset <= p.batch[1]
       /\ \A u \in Update : u < p.batch[1] => Dealt(p.name, u)
  /\ p.pc = "busy" => p.batch # <<>> /\ p.offset = p.batch[1] + 1

\* What transport g did lies before the frontier of its loop.
Past(g, p) ==
  \A n \in Name : \A i \in DOMAIN done[n] :
    done[n][i].by = g => g <= made /\ (p.pc # "none" => done[n][i].update < Frontier(p))

ChannelsTypes ==
  /\ made \in 0 .. Transports /\ live \in [Name -> 0 .. Transports]
  /\ poller \in [Transport -> PollLoop]
  /\ call \in [Call -> ChannelCall]
  /\ sent \in [Name -> 0 .. Updates] /\ confirmed \in [Name -> 0 .. Updates]
  /\ done \in [Name -> Seq(Deed)]
  /\ failed \in [Name -> SUBSET Update]

TelegramInv ==
  /\ ChannelsTypes
  /\ \A g \in Transport : Sound(g, poller[g]) /\ Past(g, poller[g])
  /\ \A n \in Name : \A u \in Update : u <= confirmed[n] => Dealt(n, u)
  /\ RisingPerPoller

LEMMA NoPollerIs ==
  /\ NoPoller \in PollLoop
  /\ NoPoller.pc = "none" /\ NoPoller.on = FALSE /\ NoPoller.offset = 0 /\ NoPoller.batch = <<>>
BY ChannelsAssumption DEF NoPoller, PollLoop

LEMMA FreshPoller ==
  ASSUME NEW n \in Name, NEW p, p = [NoPoller EXCEPT !.pc = "ask", !.on = TRUE, !.name = n]
  PROVE  /\ p \in PollLoop
         /\ p.pc = "ask" /\ p.on /\ p.name = n /\ p.offset = 0
BY NoPollerIs DEF PollLoop

\* A step that handles nothing: loops move their frontiers forward or end, and
\* the next transport may begin.
LEMMA NothingDealt ==
  ASSUME TelegramInv, UNCHANGED <<done, failed>>,
         made' \in 0 .. Transports, made <= made', ChannelsTypes',
         \A n \in Name : \A u \in Update : u <= confirmed'[n] => Dealt(n, u),
         \A g \in Transport :
           /\ Sound(g, poller[g])'
           /\ \/ poller'[g].pc = "none"
              \/ g > made
              \/ poller[g].pc # "none" /\ Frontier(poller[g]) <= Frontier(poller[g])'
  PROVE  TelegramInv'
<1>1. \A n, u : Dealt(n, u)' <=> Dealt(n, u)
  BY DEF Dealt
<1>2. ASSUME NEW g \in Transport PROVE Past(g, poller[g])'
  <2> SUFFICES ASSUME NEW n \in Name, NEW i \in DOMAIN done[n], done[n][i].by = g
               PROVE  g <= made' /\ (poller'[g].pc # "none" => done[n][i].update < Frontier(poller[g])')
    BY DEF Past
  <2>1. g <= made /\ (poller[g].pc # "none" => done[n][i].update < Frontier(poller[g]))
    BY DEF TelegramInv, Past
  <2>2. /\ done[n][i] \in Deed
        /\ g \in Nat /\ made \in Nat /\ made' \in Nat
    <3>1. /\ done \in [Name -> Seq(Deed)] /\ Transports \in Nat
          /\ made \in 0 .. Transports
      BY ChannelsAssumption DEF TelegramInv, ChannelsTypes
    <3>2. done[n] \in Seq(Deed)
      BY <3>1
    <3>3. done[n][i] \in Deed
      BY <3>2
    <3>4. made' \in Nat /\ made \in Nat
      BY <3>1
    <3> QED  BY <3>1, <3>3, <3>4 DEF Transport
  <2>3. done[n][i].update \in Int /\ Frontier(poller[g]) \in Int /\ Frontier(poller[g])' \in Int
    <3>1. done[n][i].update \in Int
      BY <2>2 DEF Deed, Update
    <3>2. poller[g] \in PollLoop /\ poller'[g] \in PollLoop /\ Updates \in Nat
      BY ChannelsAssumption DEF TelegramInv, ChannelsTypes, PollLoop
    <3>3. poller[g].offset \in Int /\ poller'[g].offset \in Int
      BY <3>2 DEF PollLoop
    <3> QED  BY <3>1, <3>3 DEF Frontier
  <2> HIDE DEF Frontier
  <2> QED  BY <2>1, <2>2, <2>3
<1>3. RisingPerPoller'
  BY DEF TelegramInv, RisingPerPoller
<1> QED
  BY <1>1, <1>2, <1>3 DEF TelegramInv

LEMMA HeadIsFirst ==
  ASSUME NEW b \in Seq(Update), b # <<>>
  PROVE  Head(b) = b[1] /\ b[1] \in Update /\ b[1] \in Nat
<1>1. Head(b) = b[1] /\ b[1] \in Update
  OBVIOUS
<1> QED
  BY <1>1 DEF Update

-----------------------------------------------------------------------------
(* Steps of a poll loop.                                                    *)

\* A step of one loop that handles nothing.
LEMMA LoopMoves ==
  ASSUME TelegramInv, NEW g \in Transport, NEW q, q \in PollLoop,
         poller' = [poller EXCEPT ![g] = q],
         UNCHANGED <<made, live, call, sent, done, failed>>,
         confirmed' \in [Name -> 0 .. Updates],
         \A n \in Name : \A u \in Update : u <= confirmed'[n] => Dealt(n, u),
         Sound(g, q),
         q.pc = "none" \/ (poller[g].pc # "none" /\ Frontier(poller[g]) <= Frontier(q))
  PROVE  TelegramInv'
<1>1. ChannelsTypes'
  BY DEF TelegramInv, ChannelsTypes
<1>2. made' = made /\ \A n, u : Dealt(n, u)' <=> Dealt(n, u)
  BY DEF Dealt
<1>3. poller'[g] = q /\ \A h \in Transport : h # g => poller'[h] = poller[h]
  BY DEF TelegramInv, ChannelsTypes
<1>4. ASSUME NEW h \in Transport
      PROVE  /\ Sound(h, poller[h])'
             /\ \/ poller'[h].pc = "none" \/ h > made
                \/ poller[h].pc # "none" /\ Frontier(poller[h]) <= Frontier(poller[h])'
  <2>1. CASE h = g
    BY <1>2, <1>3, <2>1 DEF Sound, Frontier
  <2>2. CASE h # g
    <3>1. Frontier(poller[h]) \in Int
      <4>1. poller[h] \in PollLoop /\ Updates \in Nat
        BY ChannelsAssumption DEF TelegramInv, ChannelsTypes
      <4>2. poller[h].offset \in Int
        BY <4>1 DEF PollLoop
      <4> QED  BY <4>2 DEF Frontier
    <3>2. poller'[h] = poller[h] /\ Sound(h, poller[h])
      BY <1>3, <2>2 DEF TelegramInv
    <3>3. Sound(h, poller[h])' /\ Frontier(poller[h])' = Frontier(poller[h])
      BY <1>2, <3>2 DEF Sound, Frontier
    <3>4. poller[h].pc = "none" \/ poller[h].pc # "none"
      OBVIOUS
    <3> QED  BY <3>1, <3>2, <3>3, <3>4
  <2> QED  BY <2>1, <2>2
<1>5. made' \in 0 .. Transports /\ made <= made'
  BY ChannelsAssumption DEF TelegramInv, ChannelsTypes
<1> QED
  BY <1>1, <1>4, <1>5, NothingDealt

LEMMA LoopStarts ==
  ASSUME TelegramInv, NEW g \in Transport, Ask(g) \/ PollFails(g) \/ Slept(g)
  PROVE  TelegramInv'
<1> DEFINE p == poller[g]
<1>0. /\ p \in PollLoop /\ Sound(g, p) /\ Updates \in Nat
      /\ confirmed \in [Name -> 0 .. Updates] /\ poller \in [Transport -> PollLoop]
      /\ \A n \in Name : \A u \in Update : u <= confirmed[n] => Dealt(n, u)
  BY ChannelsAssumption DEF TelegramInv, ChannelsTypes
<1>1. CASE PollFails(g)
  <2> DEFINE q == [p EXCEPT !.pc = "sleep"]
  <2>1. p.pc = "wait" /\ poller' = [poller EXCEPT ![g] = q]
    BY <1>0, <1>1 DEF PollFails
  <2>2. q \in PollLoop /\ q.pc = "sleep" /\ q.name = p.name /\ q.offset = p.offset
    BY <1>0 DEF PollLoop
  <2>3. Sound(g, q) /\ Frontier(p) <= Frontier(q)
    BY <1>0, <2>1, <2>2 DEF Sound, Frontier, PollLoop
  <2> HIDE DEF q
  <2> QED  BY <1>0, <1>1, <2>1, <2>2, <2>3, LoopMoves DEF PollFails
<1>2. CASE Slept(g)
  <2> DEFINE q == [p EXCEPT !.pc = "ask"]
  <2>1. p.pc = "sleep" /\ poller' = [poller EXCEPT ![g] = q]
    BY <1>0, <1>2 DEF Slept
  <2>2. q \in PollLoop /\ q.pc = "ask" /\ q.name = p.name /\ q.offset = p.offset
    BY <1>0 DEF PollLoop
  <2>3. Sound(g, q) /\ Frontier(p) <= Frontier(q)
    BY <1>0, <2>1, <2>2 DEF Sound, Frontier, PollLoop
  <2> HIDE DEF q
  <2> QED  BY <1>0, <1>2, <2>1, <2>2, <2>3, LoopMoves DEF Slept
<1>3. CASE Ask(g) /\ ~p.on
  <2>1. poller' = [poller EXCEPT ![g] = NoPoller] /\ confirmed' = confirmed
    BY <1>3 DEF Ask
  <2>2. Sound(g, NoPoller)
    BY NoPollerIs DEF Sound
  <2> QED  BY <1>0, <1>3, <2>1, <2>2, NoPollerIs, LoopMoves DEF Ask
<1>4. CASE Ask(g) /\ p.on
  <2> DEFINE q == [p EXCEPT !.pc = "wait"]
  <2>1. /\ p.pc = "ask" /\ poller' = [poller EXCEPT ![g] = q]
        /\ confirmed' = [confirmed EXCEPT ![p.name] = IF p.offset > @ + 1 THEN p.offset - 1 ELSE @]
    BY <1>0, <1>4 DEF Ask
  <2>2. q \in PollLoop /\ q.pc = "wait" /\ q.name = p.name /\ q.offset = p.offset
    BY <1>0 DEF PollLoop
  <2>3. Sound(g, q) /\ Frontier(p) <= Frontier(q)
    BY <1>0, <2>1, <2>2 DEF Sound, Frontier, PollLoop
  <2>4. p.name \in Name /\ p.offset \in 0 .. Updates + 1 /\ \A u \in Update : u < p.offset => Dealt(p.name, u)
    BY <1>0, <2>1 DEF Sound, Frontier, PollLoop
  <2>5. confirmed' \in [Name -> 0 .. Updates]
    BY <1>0, <2>1, <2>4
  <2>6. \A n \in Name : \A u \in Update : u <= confirmed'[n] => Dealt(n, u)
    <3> SUFFICES ASSUME NEW n \in Name, NEW u \in Update, u <= confirmed'[n] PROVE Dealt(n, u)
      OBVIOUS
    <3>1. CASE n = p.name /\ p.offset > confirmed[n] + 1
      <4>1. confirmed'[n] = p.offset - 1 /\ u \in Int
        BY <1>0, <2>1, <3>1 DEF Update
      <4> QED  BY <2>4, <3>1, <4>1
    <3>2. CASE ~(n = p.name /\ p.offset > confirmed[n] + 1)
      BY <1>0, <2>1, <3>2
    <3> QED  BY <3>1, <3>2
  <2> HIDE DEF q
  <2> QED  BY <1>0, <1>4, <2>1, <2>2, <2>3, <2>5, <2>6, LoopMoves DEF Ask
<1> QED
  BY <1>1, <1>2, <1>3, <1>4

LEMMA LoopAnswered ==
  ASSUME TelegramInv, NEW g \in Transport, NEW k \in 0 .. Updates, Answered(g, k)
  PROVE  TelegramInv'
<1> DEFINE p == poller[g]
           from == IF p.offset > confirmed[p.name] THEN p.offset ELSE confirmed[p.name] + 1
           b == [i \in 1 .. k |-> from + i - 1]
           q == [p EXCEPT !.pc = "handle", !.batch = b]
<1>0. /\ p \in PollLoop /\ Sound(g, p) /\ Updates \in Nat /\ sent \in [Name -> 0 .. Updates]
      /\ confirmed \in [Name -> 0 .. Updates] /\ poller \in [Transport -> PollLoop]
      /\ \A n \in Name : \A u \in Update : u <= confirmed[n] => Dealt(n, u)
  BY ChannelsAssumption DEF TelegramInv, ChannelsTypes
<1>1. p.pc = "wait" /\ k \in 0 .. sent[p.name] + 1 - from /\ poller' = [poller EXCEPT ![g] = q]
  BY <1>0 DEF Answered
<1>2. p.name \in Name /\ p.offset \in 0 .. Updates + 1 /\ \A u \in Update : u < p.offset => Dealt(p.name, u)
  BY <1>0, <1>1 DEF Sound, Frontier, PollLoop
<1>3. from \in Nat /\ from >= 1 /\ p.offset <= from /\ k \in Nat /\ sent[p.name] \in 0 .. Updates
  BY <1>0, <1>2
<1>4. \A u \in Update : u < from => Dealt(p.name, u)
  BY <1>0, <1>2 DEF Update
<1> HIDE DEF from
<1>5. b \in Seq(Update) /\ DOMAIN b = 1 .. k /\ \A i \in 1 .. k : b[i] = from + i - 1
  <2>1. \A i \in 1 .. k : from + i - 1 \in Update
    BY <1>0, <1>1, <1>3 DEF Update
  <2> QED  BY <1>3, <2>1
<1>6. b # <<>> => 1 \in 1 .. k /\ b[1] = from
  BY <1>3, <1>5
<1>7. \A i \in 1 .. k : 1 \in 1 .. k /\ b[i] = b[1] + i - 1
  BY <1>3, <1>5
<1> HIDE DEF b
<1>8. q \in PollLoop /\ q.pc = "handle" /\ q.name = p.name /\ q.offset = p.offset /\ q.batch = b
  BY <1>0, <1>5 DEF PollLoop
<1> HIDE DEF q
<1>9. Sound(g, q) /\ Frontier(p) <= Frontier(q)
  BY <1>0, <1>1, <1>2, <1>3, <1>4, <1>5, <1>6, <1>7, <1>8 DEF Sound, Frontier
<1> QED
  BY <1>0, <1>1, <1>8, <1>9, LoopMoves DEF Answered

LEMMA LoopTakes ==
  ASSUME TelegramInv, NEW g \in Transport, TakeUpdate(g)
  PROVE  TelegramInv'
<1> DEFINE p == poller[g]
           q == Took(p)
<1>0. /\ p \in PollLoop /\ Sound(g, p) /\ Updates \in Nat
      /\ confirmed \in [Name -> 0 .. Updates] /\ poller \in [Transport -> PollLoop]
      /\ \A n \in Name : \A u \in Update : u <= confirmed[n] => Dealt(n, u)
  BY ChannelsAssumption DEF TelegramInv, ChannelsTypes
<1>1. p.pc = "handle" /\ poller' = [poller EXCEPT ![g] = q]
  BY <1>0 DEF TakeUpdate
<1>2. q \in PollLoop /\ q.pc # "none" /\ Sound(g, q) /\ Frontier(p) <= Frontier(q)
  <2>1. CASE p.batch = <<>>
    <3>1. q = [p EXCEPT !.pc = "ask"]
      BY <2>1 DEF Took
    <3>2. q \in PollLoop /\ q.pc = "ask" /\ q.name = p.name /\ q.offset = p.offset
      BY <1>0, <3>1 DEF PollLoop
    <3> HIDE DEF q
    <3> QED  BY <1>0, <1>1, <3>2 DEF Sound, Frontier, PollLoop
  <2>2. CASE p.batch # <<>>
    <3>1. q = [p EXCEPT !.pc = "busy", !.offset = Head(p.batch) + 1]
      BY <2>2 DEF Took
    <3>2. Head(p.batch) = p.batch[1] /\ p.batch[1] \in Update
      BY <1>0, <2>2 DEF PollLoop
    <3>3. /\ q \in PollLoop /\ q.pc = "busy" /\ q.name = p.name /\ q.offset = p.batch[1] + 1
          /\ q.batch = p.batch
      <4>1. Head(p.batch) + 1 \in 0 .. Updates + 1
        BY <1>0, <3>2 DEF Update
      <4> QED  BY <1>0, <3>1, <3>2, <4>1 DEF PollLoop
    <3> HIDE DEF q
    <3>4. Frontier(q) = p.batch[1] /\ Frontier(p) = p.offset
      BY <1>1, <3>2, <3>3 DEF Frontier, Update
    <3> QED  BY <1>0, <1>1, <2>2, <3>2, <3>3, <3>4 DEF Sound
  <2> QED  BY <2>1, <2>2
<1> HIDE DEF q
<1> QED
  BY <1>0, <1>1, <1>2, LoopMoves DEF TakeUpdate

\* What was dealt with stays so.
LEMMA DealtStays ==
  ASSUME NEW n \in Name, NEW u, NEW m \in Name, NEW S, NEW e, NEW v,
         done \in [Name -> Seq(S)], failed \in [Name -> SUBSET Update], e \in S,
         \/ done' = [done EXCEPT ![m] = Append(@, e)] /\ failed' = failed
         \/ done' = done /\ failed' = [failed EXCEPT ![m] = @ \cup {v}],
         Dealt(n, u)
  PROVE  Dealt(n, u)'
<1>1. CASE done' = [done EXCEPT ![m] = Append(@, e)] /\ failed' = failed
  <2>1. CASE u \in failed[n]
    BY <1>1, <2>1 DEF Dealt
  <2>2. ASSUME NEW i \in DOMAIN done[n], done[n][i].update = u PROVE Dealt(n, u)'
    <3>1. i \in DOMAIN done'[n] /\ done'[n][i] = done[n][i]
      <4>1. done[n] \in Seq(S) /\ (done'[n] = done[n] \/ done'[n] = Append(done[n], e))
        BY <1>1
      <4> DEFINE s == done[n]
      <4>2. s \in Seq(S) /\ i \in DOMAIN s
        BY <2>2, <4>1
      <4> HIDE DEF s
      <4>3. i \in DOMAIN Append(s, e) /\ Append(s, e)[i] = s[i]
        BY <4>2
      <4> QED  BY <4>1, <4>2, <4>3 DEF s
    <3> QED  BY <2>2, <3>1 DEF Dealt
  <2> QED  BY <2>1, <2>2 DEF Dealt
<1>2. CASE done' = done /\ failed' = [failed EXCEPT ![m] = @ \cup {v}]
  BY <1>2 DEF Dealt
<1> QED
  BY <1>1, <1>2

LEMMA LoopHandles ==
  ASSUME TelegramInv, NEW g \in Transport, Handled(g)
  PROVE  TelegramInv'
<1>p. PICK p, n, b : p = poller[g] /\ n = p.name /\ b = p.batch
  OBVIOUS
<1>e. PICK e : e = [by |-> g, update |-> Head(b)]
  OBVIOUS
<1>q. PICK q : q = [p EXCEPT !.pc = "handle", !.batch = Tail(b)]
  OBVIOUS
<1>0. /\ p \in PollLoop /\ Sound(g, p) /\ Updates \in Nat /\ Transports \in Nat
      /\ poller \in [Transport -> PollLoop] /\ done \in [Name -> Seq(Deed)]
      /\ failed \in [Name -> SUBSET Update]
      /\ \A m \in Name : \A u \in Update : u <= confirmed[m] => Dealt(m, u)
  BY <1>p, ChannelsAssumption DEF TelegramInv, ChannelsTypes
<1>1. /\ p.pc = "busy" /\ poller' = [poller EXCEPT ![g] = q]
      /\ done' = [done EXCEPT ![n] = Append(@, e)]
      /\ UNCHANGED <<live, made, call, sent, confirmed, failed>>
  BY <1>0, <1>p, <1>e, <1>q DEF Handled
<1>2. /\ n \in Name /\ g <= made /\ b \in Seq(Update) /\ b # <<>> /\ Head(b) = b[1]
      /\ b[1] \in Update /\ p.offset = b[1] + 1 /\ Frontier(p) = b[1]
      /\ \A i \in DOMAIN b : b[i] = b[1] + i - 1
      /\ \A u \in Update : u < b[1] => Dealt(n, u)
  <2>1. b \in Seq(Update) /\ b # <<>> /\ p.offset = b[1] + 1
    BY <1>0, <1>1, <1>p DEF Sound, PollLoop
  <2>2. Head(b) = b[1] /\ b[1] \in Update /\ Frontier(p) = b[1]
    <3>1. Head(b) = b[1] /\ b[1] \in Update /\ b[1] \in Nat
      BY <2>1, <1>p, HeadIsFirst
    <3>2. Frontier(p) = p.offset - 1
      BY <1>1 DEF Frontier
    <3> QED  BY <2>1, <3>1, <3>2
  <2>3. Frontier(p) = b[1] => \A u \in Update : u < b[1] => Dealt(n, u)
    BY <1>0, <1>1, <1>p DEF Sound
  <2> QED  BY <1>0, <1>1, <1>p, <2>1, <2>2, <2>3 DEF Sound
<1>3. /\ Tail(b) \in Seq(Update) /\ \A i \in DOMAIN Tail(b) : Tail(b)[i] = b[1] + i
      /\ Tail(b) # <<>> => 1 \in DOMAIN Tail(b)
      /\ \A i \in DOMAIN Tail(b) : i \in Nat /\ 1 \in DOMAIN Tail(b)
  <2>1. Tail(b) \in Seq(Update) /\ Len(Tail(b)) = Len(b) - 1 /\ Len(b) \in Nat
        /\ \A i \in 1 .. Len(Tail(b)) : Tail(b)[i] = b[i + 1]
    BY <1>2, HeadTailProperties
  <2>2. \A i \in 1 .. Len(Tail(b)) : i + 1 \in DOMAIN b /\ b[i + 1] = b[1] + (i + 1) - 1
    BY <1>2, <2>1
  <2>3. \A i \in 1 .. Len(Tail(b)) : Tail(b)[i] = b[1] + i
    BY <1>2, <2>1, <2>2 DEF Update
  <2>4. Tail(b) # <<>> => Len(Tail(b)) # 0
    BY <2>1
  <2> QED  BY <2>1, <2>3, <2>4
<1>4. /\ q \in PollLoop /\ q.pc = "handle" /\ q.name = n /\ q.offset = b[1] + 1 /\ q.batch = Tail(b)
  BY <1>0, <1>2, <1>3, <1>p, <1>q DEF PollLoop
<1>5. e \in Deed /\ e.by = g /\ e.update = b[1]
  BY <1>2, <1>e DEF Deed
<1>6. /\ poller'[g] = q /\ \A h \in Transport : h # g => poller'[h] = poller[h]
      /\ \A m \in Name : m # n => done'[m] = done[m]
      /\ done'[n] = Append(done[n], e) /\ done[n] \in Seq(Deed)
  BY <1>0, <1>1, <1>2
<1>7. DOMAIN done'[n] = DOMAIN done[n] \cup {Len(done[n]) + 1} /\ done'[n][Len(done[n]) + 1] = e
      /\ \A i \in DOMAIN done[n] : done'[n][i] = done[n][i] /\ i \in Nat /\ i <= Len(done[n])
      /\ Len(done[n]) \in Nat
  BY <1>5, <1>6
<1>8. \A m \in Name : \A u : Dealt(m, u) => Dealt(m, u)'
  BY <1>0, <1>1, <1>2, <1>5, DealtStays
<1>9. Dealt(n, b[1])'
  BY <1>5, <1>7 DEF Dealt
<1>10. \A u \in Update : u < b[1] + 1 => Dealt(n, u)'
  <2> TAKE u \in Update
  <2>1. u < b[1] + 1 => u < b[1] \/ u = b[1]
    BY <1>2 DEF Update
  <2> QED  BY <1>2, <1>8, <1>9, <2>1
<1>11. ASSUME NEW h \in Transport PROVE Sound(h, poller[h])'
  <2>1. CASE h = g
    <3>1. poller'[h].pc = "handle" /\ poller'[h].name = n /\ poller'[h].offset = b[1] + 1 /\ poller'[h].batch = Tail(b)
      BY <1>4, <1>6, <2>1
    <3>2. \A i \in DOMAIN Tail(b) : Tail(b)[i] = Tail(b)[1] + i - 1
      <4> TAKE i \in DOMAIN Tail(b)
      <4>1. 1 \in DOMAIN Tail(b) /\ Tail(b)[1] = b[1] + 1 /\ i \in Nat /\ b[1] \in Nat
        BY <1>2, <1>3 DEF Update
      <4>2. Tail(b)[i] = b[1] + i
        BY <1>3
      <4>3. b[1] + i = b[1] + 1 + i - 1
        BY <4>1
      <4> QED  BY <4>1, <4>2, <4>3
    <3>3. Tail(b) # <<>> => Tail(b)[1] = b[1] + 1
      BY <1>2, <1>3 DEF Update
    <3>4. b[1] + 1 <= b[1] + 1
      BY <1>2 DEF Update
    <3> QED  BY <1>1, <1>2, <1>10, <2>1, <3>1, <3>2, <3>3, <3>4 DEF Sound, Frontier
  <2>2. CASE h # g
    <3>1. poller'[h] = poller[h] /\ Sound(h, poller[h]) /\ made' = made
      BY <1>1, <1>6, <2>2 DEF TelegramInv
    <3> QED  BY <1>8, <3>1 DEF Sound, Frontier
  <2> QED  BY <2>1, <2>2
<1>12. ASSUME NEW h \in Transport PROVE Past(h, poller[h])'
  <2> SUFFICES ASSUME NEW m \in Name, NEW i \in DOMAIN done'[m], done'[m][i].by = h
               PROVE  h <= made /\ (poller'[h].pc # "none" => done'[m][i].update < Frontier(poller[h])')
    BY <1>1 DEF Past
  <2>1. CASE i \in DOMAIN done[m] /\ done'[m][i] = done[m][i]
    <3>1. h <= made /\ (poller[h].pc # "none" => done[m][i].update < Frontier(poller[h]))
      BY <2>1 DEF TelegramInv, Past
    <3>2. CASE h # g
      <4>1. poller'[h] = poller[h]
        BY <1>6, <3>2
      <4> QED  BY <2>1, <3>1, <4>1 DEF Frontier
    <3>3. CASE h = g
      <4>1. Frontier(poller[h])' = b[1] + 1 /\ poller[h].pc # "none" /\ Frontier(poller[h]) = b[1]
        BY <1>1, <1>2, <1>4, <1>6, <1>p, <3>3 DEF Frontier
      <4>2. done[m][i].update \in Int /\ b[1] \in Int
        <5>1. done[m] \in Seq(Deed)
          BY <1>0
        <5>2. done[m][i] \in Deed
          BY <2>1, <5>1
        <5> QED  BY <1>2, <5>2 DEF Deed, Update
      <4> QED  BY <2>1, <3>1, <4>1, <4>2
    <3> QED  BY <3>2, <3>3
  <2>2. CASE m = n /\ i = Len(done[n]) + 1
    <3>1. h = g /\ done'[m][i].update = b[1]
      BY <1>5, <1>7, <2>2
    <3>2. Frontier(poller[h])' = b[1] + 1
      BY <1>4, <1>6, <3>1 DEF Frontier
    <3> QED  BY <1>2, <3>1, <3>2 DEF Update
  <2> QED  BY <1>6, <1>7, <2>1, <2>2
<1>13. RisingPerPoller'
  <2> SUFFICES ASSUME NEW m \in Name, NEW i \in DOMAIN done'[m], NEW j \in DOMAIN done'[m],
                      i < j, done'[m][i].by = done'[m][j].by
               PROVE  done'[m][i].update < done'[m][j].update
    BY DEF RisingPerPoller
  <2>1. CASE m # n
    BY <1>6, <2>1 DEF TelegramInv, RisingPerPoller
  <2>2. CASE m = n /\ j \in DOMAIN done[n]
    <3>1. i \in DOMAIN done[n]
      BY <1>7, <2>2
    <3> QED  BY <1>2, <1>7, <2>2, <3>1 DEF TelegramInv, RisingPerPoller
  <2>3. CASE m = n /\ j = Len(done[n]) + 1
    <3>1. i \in DOMAIN done[n] /\ done[n][i].by = g /\ done'[m][j].update = b[1] /\ done'[m][i] = done[n][i]
      BY <1>5, <1>7, <2>3
    <3>2. poller[g].pc # "none" => done[n][i].update < Frontier(poller[g])
      BY <1>2, <3>1 DEF TelegramInv, Past
    <3> QED  BY <1>1, <1>2, <1>p, <3>1, <3>2
  <2> QED  BY <1>7, <2>1, <2>2, <2>3
<1>14. ChannelsTypes'
  <2>1. done' \in [Name -> Seq(Deed)]
    <3>1. Append(done[n], e) \in Seq(Deed)
      BY <1>5, <1>6
    <3> QED  BY <1>0, <1>1, <1>2, <3>1
  <2>2. poller' \in [Transport -> PollLoop]
    BY <1>0, <1>1, <1>4
  <2> QED  BY <1>1, <2>1, <2>2 DEF TelegramInv, ChannelsTypes
<1>15. \A m \in Name : \A u \in Update : u <= confirmed'[m] => Dealt(m, u)'
  BY <1>0, <1>1, <1>8
<1> QED
  BY <1>11, <1>12, <1>13, <1>14, <1>15 DEF TelegramInv

LEMMA LoopThrows ==
  ASSUME TelegramInv, NEW g \in Transport, HandlerThrows(g)
  PROVE  TelegramInv'
<1>p. PICK p, n, u0 : p = poller[g] /\ n = p.name /\ u0 = Head(p.batch)
  OBVIOUS
<1>q. PICK q : q = [p EXCEPT !.pc = "sleep", !.batch = <<>>]
  OBVIOUS
<1>0. /\ p \in PollLoop /\ Sound(g, p) /\ Updates \in Nat /\ Transports \in Nat
      /\ poller \in [Transport -> PollLoop] /\ done \in [Name -> Seq(Deed)]
      /\ failed \in [Name -> SUBSET Update]
      /\ \A m \in Name : \A u \in Update : u <= confirmed[m] => Dealt(m, u)
  BY <1>p, ChannelsAssumption DEF TelegramInv, ChannelsTypes
<1>1. /\ p.pc = "busy" /\ poller' = [poller EXCEPT ![g] = q]
      /\ failed' = [failed EXCEPT ![n] = @ \cup {u0}]
      /\ UNCHANGED <<live, made, call, sent, confirmed, done>>
  BY <1>0, <1>p, <1>q DEF HandlerThrows
<1>2. /\ n \in Name /\ g <= made /\ u0 \in Update /\ p.offset = u0 + 1 /\ Frontier(p) = u0
      /\ \A u \in Update : u < u0 => Dealt(n, u)
  <2>1. p.batch \in Seq(Update) /\ p.batch # <<>> /\ p.offset = p.batch[1] + 1
    BY <1>0, <1>1, <1>p DEF Sound, PollLoop
  <2>2. u0 = p.batch[1] /\ u0 \in Update /\ Frontier(p) = u0
    <3>1. u0 = p.batch[1] /\ u0 \in Update /\ u0 \in Nat
      BY <2>1, <1>p, HeadIsFirst
    <3>2. Frontier(p) = p.offset - 1
      BY <1>1 DEF Frontier
    <3> QED  BY <2>1, <3>1, <3>2
  <2>3. Frontier(p) = u0 => \A u \in Update : u < u0 => Dealt(n, u)
    BY <1>0, <1>1, <1>p DEF Sound
  <2> QED  BY <1>0, <1>1, <1>p, <2>1, <2>2, <2>3 DEF Sound
<1>3. /\ q \in PollLoop /\ q.pc = "sleep" /\ q.name = n /\ q.offset = u0 + 1
  <2>1. <<>> \in Seq(Update) /\ "sleep" \in {"none", "ask", "wait", "handle", "busy", "sleep"}
    OBVIOUS
  <2> QED  BY <1>0, <1>2, <1>p, <1>q, <2>1 DEF PollLoop
<1>4. poller'[g] = q /\ \A h \in Transport : h # g => poller'[h] = poller[h]
  BY <1>0, <1>1
<1>5. \A m \in Name : \A u : Dealt(m, u) => Dealt(m, u)'
  BY <1>0, <1>1, <1>2 DEF Dealt
<1>6. Dealt(n, u0)'
  BY <1>0, <1>1, <1>2 DEF Dealt
<1>7. \A u \in Update : u < u0 + 1 => Dealt(n, u)'
  <2> TAKE u \in Update
  <2>1. u < u0 + 1 => u < u0 \/ u = u0
    BY <1>2 DEF Update
  <2> QED  BY <1>2, <1>5, <1>6, <2>1
<1>8. ASSUME NEW h \in Transport PROVE Sound(h, poller[h])'
  <2>1. CASE h = g
    <3>1. poller'[h].pc = "sleep" /\ poller'[h].name = n /\ poller'[h].offset = u0 + 1
      BY <1>3, <1>4, <2>1
    <3> QED  BY <1>1, <1>2, <1>7, <2>1, <3>1 DEF Sound, Frontier
  <2>2. CASE h # g
    <3>1. poller'[h] = poller[h] /\ Sound(h, poller[h]) /\ made' = made
      BY <1>1, <1>4, <2>2 DEF TelegramInv
    <3> QED  BY <1>5, <3>1 DEF Sound, Frontier
  <2> QED  BY <2>1, <2>2
<1>9. ASSUME NEW h \in Transport PROVE Past(h, poller[h])'
  <2> SUFFICES ASSUME NEW m \in Name, NEW i \in DOMAIN done[m], done[m][i].by = h
               PROVE  h <= made /\ (poller'[h].pc # "none" => done[m][i].update < Frontier(poller[h])')
    BY <1>1 DEF Past
  <2>1. h <= made /\ (poller[h].pc # "none" => done[m][i].update < Frontier(poller[h]))
    BY DEF TelegramInv, Past
  <2>2. CASE h # g
    <3>1. poller'[h] = poller[h]
      BY <1>4, <2>2
    <3> QED  BY <2>1, <3>1 DEF Frontier
  <2>3. CASE h = g
    <3>1. Frontier(poller[h])' = u0 + 1 /\ poller[h].pc # "none" /\ Frontier(poller[h]) = u0
      BY <1>1, <1>2, <1>3, <1>4, <1>p, <2>3 DEF Frontier
    <3>2. done[m][i].update \in Int /\ u0 \in Int
      <4>1. done[m] \in Seq(Deed)
        BY <1>0
      <4>2. done[m][i] \in Deed
        BY <4>1
      <4> QED  BY <1>2, <4>2 DEF Deed, Update
    <3> QED  BY <2>1, <3>1, <3>2
  <2> QED  BY <2>2, <2>3
<1>10. ChannelsTypes'
  <2>1. failed' \in [Name -> SUBSET Update]
    BY <1>0, <1>1, <1>2
  <2>2. poller' \in [Transport -> PollLoop]
    BY <1>0, <1>1, <1>3
  <2> QED  BY <1>1, <2>1, <2>2 DEF TelegramInv, ChannelsTypes
<1>11. \A m \in Name : \A u \in Update : u <= confirmed'[m] => Dealt(m, u)'
  BY <1>0, <1>1, <1>5
<1>12. RisingPerPoller'
  BY <1>1 DEF TelegramInv, RisingPerPoller
<1> QED
  BY <1>8, <1>9, <1>10, <1>11, <1>12 DEF TelegramInv

-----------------------------------------------------------------------------
(* Steps of the configuration API.                                          *)

\* Loops go on as they were, with or without their flag, or end, and transports
\* that were not made before begin.
LEMMA LoopsGoOn ==
  ASSUME TelegramInv, UNCHANGED <<confirmed, done, failed>>, ChannelsTypes', made <= made',
         \A h \in Transport :
           \/ poller'[h].pc = "none"
           \/ /\ h > made /\ h <= made' /\ poller'[h].pc = "ask"
              /\ poller'[h].name \in Name /\ poller'[h].offset = 0
           \/ /\ poller'[h].pc = poller[h].pc /\ poller'[h].name = poller[h].name
              /\ poller'[h].offset = poller[h].offset /\ poller'[h].batch = poller[h].batch
  PROVE  TelegramInv'
<1>1. \A n, u : Dealt(n, u)' <=> Dealt(n, u)
  BY DEF Dealt
<1>2. /\ made \in Nat /\ made' \in 0 .. Transports /\ made' \in Nat
      /\ \A h \in Transport : h \in Nat /\ poller[h].offset \in Int
  <2>1. /\ made \in 0 .. Transports /\ made' \in 0 .. Transports /\ poller \in [Transport -> PollLoop]
        /\ Updates \in Nat /\ Transports \in Nat
    BY ChannelsAssumption DEF TelegramInv, ChannelsTypes
  <2>2. \A h \in Transport : poller[h].offset \in Int
    BY <2>1 DEF PollLoop
  <2> QED  BY <2>1, <2>2 DEF Transport
<1>3. ASSUME NEW h \in Transport
      PROVE  /\ Sound(h, poller[h])'
             /\ \/ poller'[h].pc = "none" \/ h > made
                \/ poller[h].pc # "none" /\ Frontier(poller[h]) <= Frontier(poller[h])'
  <2>1. Sound(h, poller[h])
    BY DEF TelegramInv
  <2>2. CASE poller'[h].pc = "none"
    BY <2>2 DEF Sound
  <2>3. CASE /\ h > made /\ h <= made' /\ poller'[h].pc = "ask"
             /\ poller'[h].name \in Name /\ poller'[h].offset = 0
    <3>1. \A u \in Update : ~(u < 0)
      BY DEF Update
    <3> QED  BY <2>3, <3>1 DEF Sound, Frontier
  <2>4. CASE /\ poller'[h].pc = poller[h].pc /\ poller'[h].name = poller[h].name
             /\ poller'[h].offset = poller[h].offset /\ poller'[h].batch = poller[h].batch
             /\ poller[h].pc # "none"
    <3>1. h <= made'
      BY <1>2, <2>1, <2>4 DEF Sound
    <3>2. Sound(h, poller[h])'
      BY <1>1, <2>1, <2>4, <3>1 DEF Sound, Frontier
    <3>3. Frontier(poller[h])' = Frontier(poller[h]) /\ Frontier(poller[h]) \in Int
      BY <1>2, <2>4 DEF Frontier
    <3> QED  BY <2>4, <3>2, <3>3
  <2> QED  BY <2>2, <2>3, <2>4
<1>4. \A n \in Name : \A u \in Update : u <= confirmed'[n] => Dealt(n, u)
  BY DEF TelegramInv
<1> QED
  BY <1>2, <1>3, <1>4, NothingDealt

\* stop() leaves a loop where it is.
LEMMA StopsOnly ==
  ASSUME ChannelsTypes, NEW n \in Name, poller' = Stopped(n)
  PROVE  /\ poller' \in [Transport -> PollLoop]
         /\ \A h \in Transport :
              /\ poller'[h].pc = poller[h].pc /\ poller'[h].name = poller[h].name
              /\ poller'[h].offset = poller[h].offset /\ poller'[h].batch = poller[h].batch
              /\ (poller'[h].on <=> poller[h].on /\ h # live[n])
<1>1. poller \in [Transport -> PollLoop]
  BY DEF ChannelsTypes
<1>2. poller' = [h \in Transport |-> IF h = live[n] THEN [poller[h] EXCEPT !.on = FALSE] ELSE poller[h]]
  BY <1>1 DEF Stopped
<1>3. \A p \in PollLoop :
        LET q == [p EXCEPT !.on = FALSE] IN
        /\ q \in PollLoop /\ q.pc = p.pc /\ q.name = p.name /\ q.offset = p.offset /\ q.batch = p.batch
        /\ q.on = FALSE
  BY DEF PollLoop
<1>5. ASSUME NEW h \in Transport
      PROVE  /\ poller'[h] \in PollLoop
             /\ poller'[h].pc = poller[h].pc /\ poller'[h].name = poller[h].name
             /\ poller'[h].offset = poller[h].offset /\ poller'[h].batch = poller[h].batch
             /\ (poller'[h].on <=> poller[h].on /\ h # live[n])
  <2>1. CASE h = live[n]
    <3>1. poller'[h] = [poller[h] EXCEPT !.on = FALSE] /\ poller[h] \in PollLoop
      BY <1>1, <1>2, <2>1
    <3> QED  BY <1>3, <2>1, <3>1
  <2>2. CASE h # live[n]
    <3>1. poller'[h] = poller[h] /\ poller[h] \in PollLoop
      BY <1>1, <1>2, <2>2
    <3> QED  BY <2>2, <3>1
  <2> QED  BY <2>1, <2>2
<1> QED
  BY <1>2, <1>5

LEMMA StartsNext ==
  ASSUME ChannelsTypes, NEW n \in Name, made < Transports, Started(made + 1, n)
  PROVE  /\ made' = made + 1 /\ made' \in 0 .. Transports /\ made' \in Transport
         /\ live' \in [Name -> 0 .. Transports] /\ live' = [live EXCEPT ![n] = made + 1]
         /\ poller' \in [Transport -> PollLoop]
         /\ poller'[made + 1].pc = "ask" /\ poller'[made + 1].name = n
         /\ poller'[made + 1].offset = 0 /\ poller'[made + 1].on
         /\ \A h \in Transport : h # made + 1 => poller'[h] = poller[h]
<1> DEFINE p == [NoPoller EXCEPT !.pc = "ask", !.on = TRUE, !.name = n]
<1>1. /\ made' = made + 1 /\ live' = [live EXCEPT ![n] = made + 1] /\ poller' = [poller EXCEPT ![made + 1] = p]
      /\ made \in 0 .. Transports /\ Transports \in Nat
      /\ live \in [Name -> 0 .. Transports] /\ poller \in [Transport -> PollLoop]
  BY ChannelsAssumption DEF Started, ChannelsTypes
<1>2. made + 1 \in Transport /\ made' \in 0 .. Transports
  BY <1>1 DEF Transport
<1>3. p \in PollLoop /\ p.pc = "ask" /\ p.on /\ p.name = n /\ p.offset = 0
  BY FreshPoller
<1> HIDE DEF p
<1> QED
  BY <1>1, <1>2, <1>3

LEMMA TransportStarts ==
  ASSUME TelegramInv, NEW n \in Name, made < Transports, Started(made + 1, n),
         call' \in [Call -> ChannelCall], UNCHANGED <<sent, confirmed, done, failed>>
  PROVE  TelegramInv'
<1>0. ChannelsTypes /\ made \in Nat
  BY ChannelsAssumption DEF TelegramInv, ChannelsTypes
<1>1. ChannelsTypes'
  BY <1>0, StartsNext DEF ChannelsTypes
<1>2. /\ made' = made + 1 /\ poller'[made + 1].pc = "ask" /\ poller'[made + 1].name = n
      /\ poller'[made + 1].offset = 0
      /\ \A h \in Transport : h # made + 1 => poller'[h] = poller[h]
  BY <1>0, StartsNext
<1>3. made + 1 > made /\ made + 1 <= made' /\ made <= made'
  BY <1>0, <1>2
<1> QED
  BY <1>1, <1>2, <1>3, LoopsGoOn

LEMMA TransportStops ==
  ASSUME TelegramInv, NEW n \in Name, poller' = Stopped(n), call' \in [Call -> ChannelCall],
         UNCHANGED <<live, made, sent, confirmed, done, failed>>
  PROVE  TelegramInv'
<1>0. ChannelsTypes /\ made \in Nat
  BY ChannelsAssumption DEF TelegramInv, ChannelsTypes
<1>1. ChannelsTypes'
  BY <1>0, StopsOnly DEF ChannelsTypes
<1> QED
  BY <1>0, <1>1, StopsOnly, LoopsGoOn

LEMMA LoopsUntouched ==
  ASSUME TelegramInv, call' \in [Call -> ChannelCall], live' \in [Name -> 0 .. Transports],
         sent' \in [Name -> 0 .. Updates], UNCHANGED <<made, poller, confirmed, done, failed>>
  PROVE  TelegramInv'
<1>0. ChannelsTypes /\ made \in Nat
  BY ChannelsAssumption DEF TelegramInv, ChannelsTypes
<1>1. ChannelsTypes'
  BY <1>0 DEF ChannelsTypes
<1> QED
  BY <1>0, <1>1, LoopsGoOn

LEMMA ApiSteps ==
  ASSUME TelegramInv, NEW a \in Call,
         \/ Replace(a) \/ PostFails(a) \/ Drop(a)
         \/ \E n \in Name : PostChannel(a, n) \/ DeleteChannel(a, n)
  PROVE  TelegramInv'
<1>c. /\ call \in [Call -> ChannelCall] /\ NoCall \in ChannelCall
      /\ call[a].pc \in {"adding", "removing"} => call[a].name \in Name
      /\ \A n \in Name : [pc |-> "adding", name |-> n] \in ChannelCall
                         /\ [pc |-> "removing", name |-> n] \in ChannelCall
  BY DEF TelegramInv, ChannelsTypes, ChannelCall, NoCall
<1>l. live \in [Name -> 0 .. Transports] /\ sent \in [Name -> 0 .. Updates] /\ Transports \in Nat
  BY ChannelsAssumption DEF TelegramInv, ChannelsTypes
<1>1. ASSUME NEW n \in Name, PostChannel(a, n) PROVE TelegramInv'
  BY <1>c, <1>1, TransportStarts, TransportStops DEF PostChannel
<1>2. CASE Replace(a)
  BY <1>c, <1>2, TransportStarts DEF Replace
<1>3. CASE PostFails(a)
  BY <1>c, <1>l, <1>3, LoopsUntouched DEF PostFails
<1>4. ASSUME NEW n \in Name, DeleteChannel(a, n) PROVE TelegramInv'
  BY <1>c, <1>l, <1>4, TransportStops, LoopsUntouched DEF DeleteChannel
<1>5. CASE Drop(a)
  <2>1. live' \in [Name -> 0 .. Transports] /\ call' \in [Call -> ChannelCall]
    BY <1>c, <1>l, <1>5 DEF Drop, Unlisted
  <2> QED  BY <1>l, <1>5, <2>1, LoopsUntouched DEF Drop
<1> QED
  BY <1>1, <1>2, <1>3, <1>4, <1>5

LEMMA TelegramKept == ChannelsSpec => []TelegramInv
<1>1. PushInit /\ ChannelsInit => TelegramInv
  <2> SUFFICES ASSUME ChannelsInit PROVE TelegramInv
    OBVIOUS
  <2>1. ChannelsTypes
    BY NoPollerIs, ChannelsAssumption DEF ChannelsInit, ChannelsTypes, ChannelCall
  <2>2. \A g \in Transport : Sound(g, poller[g]) /\ Past(g, poller[g])
    BY NoPollerIs DEF ChannelsInit, Sound, Past
  <2>3. \A n \in Name : \A u \in Update : ~(u <= confirmed[n])
    BY DEF ChannelsInit, Update
  <2> QED  BY <2>1, <2>2, <2>3 DEF ChannelsInit, TelegramInv, RisingPerPoller
<1>2. TelegramInv /\ [ChannelsNext]_<<pushVars, channelsVars>> => TelegramInv'
  <2> SUFFICES ASSUME TelegramInv, [ChannelsNext]_<<pushVars, channelsVars>> PROVE TelegramInv'
    OBVIOUS
  <2>t. ChannelsTypes /\ made \in Nat
    BY ChannelsAssumption DEF TelegramInv, ChannelsTypes
  <2>1. ASSUME NEW g \in Transport,
               \/ Ask(g) \/ PollFails(g) \/ Slept(g) \/ TakeUpdate(g) \/ Handled(g) \/ HandlerThrows(g)
               \/ \E k \in 0 .. Updates : Answered(g, k)
        PROVE  TelegramInv'
    BY <2>1, LoopStarts, LoopTakes, LoopHandles, LoopThrows, LoopAnswered
  <2>c. /\ call \in [Call -> ChannelCall] /\ live \in [Name -> 0 .. Transports]
        /\ sent \in [Name -> 0 .. Updates] /\ Updates \in Nat
    BY <2>t, ChannelsAssumption DEF ChannelsTypes
  <2>2. ASSUME NEW n \in Name, UserSends(n) PROVE TelegramInv'
    BY <2>2, <2>c, LoopsUntouched DEF UserSends
  <2>3. ASSUME NEW n \in Name, Boot(n) PROVE TelegramInv'
    BY <2>3, <2>c, TransportStarts DEF Boot
  <2>4. ASSUME NEW a \in Call,
               \/ Replace(a) \/ PostFails(a) \/ Drop(a)
               \/ \E n \in Name : PostChannel(a, n) \/ DeleteChannel(a, n)
        PROVE  TelegramInv'
    BY <2>4, ApiSteps
  <2>5. CASE ChannelsRestart
    <3>1. /\ poller' = [g \in Transport |-> NoPoller] /\ live' = [n \in Name |-> 0]
          /\ call' = [a \in Call |-> NoCall] /\ UNCHANGED <<made, sent, confirmed, done, failed>>
      BY <2>5 DEF ChannelsRestart
    <3>2. ChannelsTypes' /\ \A g \in Transport : poller'[g].pc = "none"
      BY <2>t, <3>1, NoPollerIs, ChannelsAssumption DEF ChannelsTypes, ChannelCall
    <3> QED  BY <2>t, <3>1, <3>2, LoopsGoOn
  <2>6. CASE UNCHANGED <<pushVars, channelsVars>>
    BY <2>6, <2>c, LoopsUntouched DEF channelsVars
  <2> QED
    BY <2>1, <2>2, <2>3, <2>4, <2>5, <2>6 DEF ChannelsNext
<1> QED
  BY <1>1, <1>2, PTL DEF ChannelsSpec

\* No interleaving of the poll loops, of calls that stop and replace them, of
\* throwing handlers and of restarts makes the bot forget an update that nobody
\* handled, and no loop handles one twice or out of order.
THEOREM TelegramIsHandled == ChannelsSpec => []TelegramHandlesAll
<1>1. TelegramInv => TelegramHandlesAll
  <2> SUFFICES ASSUME TelegramInv PROVE NothingSkipped
    BY DEF TelegramInv, TelegramHandlesAll
  <2> SUFFICES ASSUME NEW n \in Name, NEW u \in 1 .. confirmed[n]
               PROVE  u \in failed[n] \/ \E i \in DOMAIN done[n] : done[n][i].update = u
    BY DEF NothingSkipped
  <2>1. u \in Update /\ u <= confirmed[n]
    BY ChannelsAssumption DEF TelegramInv, ChannelsTypes, Update
  <2> QED  BY <2>1 DEF TelegramInv, Dealt
<1> QED
  BY <1>1, TelegramKept, PTL

-----------------------------------------------------------------------------
(* The file, the map and the poll loops.  ConfigurationAgrees speaks of the *)
(* moments between two calls; within a call the loop of its channel was     *)
(* stopped, and everything else agrees.                                     *)

\* A call is stopping or replacing the transport of channel n.
Pending(n) == \E a \in Call : call[a] # NoCall /\ call[a].name = n

\* A channel's transport is its own, and was made.
OwnTransports ==
  /\ file \subseteq Name /\ booting \subseteq Name
  /\ \A n \in Name : live[n] <= made
  /\ \A m, n \in Name : live[m] = live[n] /\ live[n] # 0 => m = n

Agreeing ==
  /\ \A a, b \in Call : call[a] # NoCall /\ call[b] # NoCall => a = b
  /\ booting # {} => \A a \in Call : call[a] = NoCall
  /\ \A n \in booting : n \in file /\ live[n] = 0
  /\ \A n \in Name \ booting : n \in file <=> live[n] # 0
  /\ \A n \in Name : Pending(n) => live[n] # 0
  /\ \A g \in Transport : poller[g].on <=> \E n \in Name : live[n] = g /\ ~Pending(n)

ConfigurationInv == OwnTransports /\ (upset \/ Agreeing)

\* A step that neither calls nor boots, and leaves every loop its flag.
LEMMA FlagsStay ==
  ASSUME ConfigurationInv, UNCHANGED <<file, live, made, call, booting, upset>>,
         \A h \in Transport : (poller'[h].on <=> poller[h].on)
  PROVE  ConfigurationInv'
<1>1. OwnTransports' /\ \A n : Pending(n)' <=> Pending(n)
  BY DEF ConfigurationInv, OwnTransports, Pending
<1>2. CASE upset
  BY <1>1, <1>2 DEF ConfigurationInv
<1>3. CASE Agreeing
  <2>1. Agreeing'
    BY <1>1, <1>3 DEF Agreeing
  <2> QED  BY <1>1, <2>1 DEF ConfigurationInv
<1> QED
  BY <1>2, <1>3 DEF ConfigurationInv

LEMMA LoopsKeepFlags ==
  ASSUME TelegramInv, ConfigurationInv, NEW g \in Transport,
         \/ Ask(g) \/ PollFails(g) \/ Slept(g) \/ TakeUpdate(g) \/ Handled(g) \/ HandlerThrows(g)
         \/ \E k \in 0 .. Updates : Answered(g, k)
  PROVE  ConfigurationInv'
<1>0. poller \in [Transport -> PollLoop]
  BY DEF TelegramInv, ChannelsTypes
<1>1. UNCHANGED <<file, live, made, call, booting, upset>>
  BY DEF Ask, PollFails, Slept, TakeUpdate, Handled, HandlerThrows, Answered
<1>2. /\ poller[g] \in PollLoop
      /\ \A p \in PollLoop : \A pc, o :
           [p EXCEPT !.pc = pc].on = p.on /\ [p EXCEPT !.pc = pc, !.offset = o].on = p.on
  BY <1>0 DEF PollLoop
<1>3. \E q : poller' = [poller EXCEPT ![g] = q] /\ q.on = poller[g].on
  <2>1. CASE Ask(g)
    <3>1. CASE poller[g].on
      <4>1. poller' = [poller EXCEPT ![g] = [poller[g] EXCEPT !.pc = "wait"]]
        BY <1>0, <2>1, <3>1 DEF Ask
      <4> QED  BY <1>2, <4>1
    <3>2. CASE ~poller[g].on
      <4>1. poller' = [poller EXCEPT ![g] = NoPoller]
        BY <1>0, <2>1, <3>2 DEF Ask
      <4>2. poller[g].on = FALSE
        BY <1>2, <3>2 DEF PollLoop
      <4> QED  BY <4>1, <4>2, NoPollerIs
    <3> QED  BY <3>1, <3>2
  <2>2. CASE PollFails(g)
    <3>1. poller' = [poller EXCEPT ![g] = [poller[g] EXCEPT !.pc = "sleep"]]
      BY <1>0, <2>2 DEF PollFails
    <3> QED  BY <1>2, <3>1
  <2>3. CASE Slept(g)
    <3>1. poller' = [poller EXCEPT ![g] = [poller[g] EXCEPT !.pc = "ask"]]
      BY <1>0, <2>3 DEF Slept
    <3> QED  BY <1>2, <3>1
  <2>4. CASE TakeUpdate(g)
    <3>1. poller' = [poller EXCEPT ![g] = Took(poller[g])]
      BY <1>0, <2>4 DEF TakeUpdate
    <3>2. Took(poller[g]).on = poller[g].on
      BY <1>2 DEF Took
    <3> QED  BY <3>1, <3>2
  <2>5. CASE Handled(g)
    <3>1. poller' = [poller EXCEPT ![g] = [poller[g] EXCEPT !.pc = "handle", !.batch = Tail(poller[g].batch)]]
      BY <1>0, <2>5 DEF Handled
    <3>2. [poller[g] EXCEPT !.pc = "handle", !.batch = Tail(poller[g].batch)].on = poller[g].on
      BY <1>2 DEF PollLoop
    <3> QED  BY <3>1, <3>2
  <2>6. CASE HandlerThrows(g)
    <3>1. poller' = [poller EXCEPT ![g] = [poller[g] EXCEPT !.pc = "sleep", !.batch = <<>>]]
      BY <1>0, <2>6 DEF HandlerThrows
    <3>2. [poller[g] EXCEPT !.pc = "sleep", !.batch = <<>>].on = poller[g].on
      BY <1>2 DEF PollLoop
    <3> QED  BY <3>1, <3>2
  <2>7. ASSUME NEW k \in 0 .. Updates, Answered(g, k)
        PROVE  \E q : poller' = [poller EXCEPT ![g] = q] /\ q.on = poller[g].on
    <3>1. PICK b : poller' = [poller EXCEPT ![g] = [poller[g] EXCEPT !.pc = "handle", !.batch = b]]
      BY <1>0, <2>7 DEF Answered
    <3>2. [poller[g] EXCEPT !.pc = "handle", !.batch = b].on = poller[g].on
      BY <1>2 DEF PollLoop
    <3> QED  BY <3>1, <3>2
  <2> QED  BY <2>1, <2>2, <2>3, <2>4, <2>5, <2>6, <2>7
<1>4. \A h \in Transport : poller'[h].on <=> poller[h].on
  BY <1>0, <1>3
<1> QED
  BY <1>1, <1>4, FlagsStay

\* A new transport for channel n: what the map and the flags become.
LEMMA FreshTransport ==
  ASSUME ChannelsTypes, OwnTransports, NEW n \in Name, made < Transports, Started(made + 1, n)
  PROVE  /\ live'[n] = made + 1 /\ made + 1 # 0 /\ \A m \in Name : m # n => live'[m] = live[m]
         /\ made' = made + 1
         /\ \A m \in Name : live[m] # made + 1 /\ live'[m] <= made'
         /\ \A l, m \in Name : live'[l] = live'[m] /\ live'[m] # 0 => l = m
         /\ made + 1 \in Transport /\ poller'[made + 1].on
         /\ \A h \in Transport : h # made + 1 => (poller'[h].on <=> poller[h].on)
<1>1. made \in Nat /\ live \in [Name -> 0 .. Transports] /\ \A m \in Name : live[m] \in Nat /\ live[m] <= made
  BY ChannelsAssumption DEF ChannelsTypes, OwnTransports
<1>2. /\ made' = made + 1 /\ live' = [live EXCEPT ![n] = made + 1] /\ made + 1 \in Transport
      /\ poller'[made + 1].on /\ \A h \in Transport : h # made + 1 => poller'[h] = poller[h]
  BY StartsNext
<1>3. \A m \in Name : live[m] # made + 1 /\ live'[m] <= made' /\ live'[m] = IF m = n THEN made + 1 ELSE live[m]
  BY <1>1, <1>2
<1>4. \A l, m \in Name : live'[l] = live'[m] /\ live'[m] # 0 => l = m
  BY <1>3 DEF OwnTransports
<1> QED
  BY <1>1, <1>2, <1>3, <1>4

\* The first transport of channel n.
LEMMA StartFlags ==
  ASSUME ChannelsTypes, OwnTransports, NEW n \in Name, made < Transports, Started(made + 1, n),
         live[n] = 0, \A h \in Transport : poller[h].on <=> \E m \in Name : live[m] = h
  PROVE  \A h \in Transport : poller'[h].on <=> \E m \in Name : live'[m] = h
<1> TAKE h \in Transport
<1>1. CASE h = made + 1
  BY <1>1, FreshTransport
<1>2. CASE h # made + 1
  <2>1. h # 0
    BY DEF Transport
  <2>2. (poller'[h].on <=> poller[h].on) /\ live'[n] # h /\ \A m \in Name : m # n => live'[m] = live[m]
    BY <1>2, FreshTransport
  <2> QED  BY <2>1, <2>2
<1> QED
  BY <1>1, <1>2

LEMMA ConfigurationStep ==
  ASSUME TelegramInv, ConfigurationInv, [ChannelsNext]_<<pushVars, channelsVars>>
  PROVE  ConfigurationInv'
<1>t. /\ ChannelsTypes /\ OwnTransports /\ made \in Nat
      /\ call \in [Call -> ChannelCall] /\ live \in [Name -> 0 .. Transports]
      /\ \A a \in Call : call[a] # NoCall => call[a].pc \in {"adding", "removing"} /\ call[a].name \in Name
      /\ NoCall.pc = "idle" /\ \A h \in Transport : h # 0
      /\ \A n : [pc |-> "adding", name |-> n] # NoCall /\ [pc |-> "removing", name |-> n] # NoCall
  <2>1. ChannelsTypes /\ OwnTransports
    BY DEF ConfigurationInv, TelegramInv
  <2>2. \A n : [pc |-> "adding", name |-> n].pc # NoCall.pc /\ [pc |-> "removing", name |-> n].pc # NoCall.pc
    BY DEF NoCall
  <2>3. NoCall.pc = "idle"
    BY DEF NoCall
  <2>4. \A h \in Transport : h # 0
    BY DEF Transport
  <2> QED  BY <2>1, <2>2, <2>3, <2>4, ChannelsAssumption DEF ChannelsTypes, ChannelCall
<1>1. ASSUME NEW g \in Transport,
             \/ Ask(g) \/ PollFails(g) \/ Slept(g) \/ TakeUpdate(g) \/ Handled(g) \/ HandlerThrows(g)
             \/ \E k \in 0 .. Updates : Answered(g, k)
      PROVE  ConfigurationInv'
  BY <1>1, LoopsKeepFlags
<1>2. CASE (\E n \in Name : UserSends(n)) \/ (\E a \in Call : PostFails(a)) \/ UNCHANGED <<pushVars, channelsVars>>
  BY <1>2, FlagsStay DEF UserSends, PostFails, channelsVars
<1>3. ASSUME NEW n \in Name, Boot(n) PROVE ConfigurationInv'
  <2>1. /\ n \in booting /\ made < Transports /\ Started(made + 1, n) /\ booting' = booting \ {n}
        /\ UNCHANGED <<file, call, upset>>
    BY <1>3 DEF Boot
  <2>2. OwnTransports'
    BY <1>t, <2>1, FreshTransport DEF OwnTransports
  <2>3. ASSUME Agreeing PROVE Agreeing'
    <3>1. \A m : ~Pending(m) /\ ~Pending(m)'
      BY <2>1, <2>3 DEF Agreeing, Pending
    <3>2. live[n] = 0 /\ n \in file
      BY <2>1, <2>3 DEF Agreeing
    <3>3. \A h \in Transport : poller[h].on <=> \E m \in Name : live[m] = h
      BY <2>3, <3>1 DEF Agreeing
    <3>4. \A h \in Transport : poller'[h].on <=> \E m \in Name : live'[m] = h
      BY <1>t, <2>1, <3>2, <3>3, StartFlags
    <3>5. (\A b \in Call : call'[b] = NoCall) /\ \A m \in Name : m # n => live'[m] = live[m] /\ (m \in booting' <=> m \in booting)
      BY <1>t, <2>1, <2>3, FreshTransport DEF Agreeing
    <3>6. live'[n] # 0 /\ n \notin booting'
      BY <1>t, <2>1, FreshTransport
    <3> QED  BY <1>t, <2>1, <2>3, <3>1, <3>2, <3>4, <3>5, <3>6 DEF Agreeing, OwnTransports
  <2> QED  BY <2>1, <2>2, <2>3 DEF ConfigurationInv
<1>4. ASSUME NEW a \in Call, NEW n \in Name, PostChannel(a, n) PROVE ConfigurationInv'
  <2>1. /\ call[a] = NoCall /\ booting = {} /\ file' = file \cup {n} /\ booting' = {}
        /\ upset' = (upset \/ Overlapping)
    BY <1>4 DEF PostChannel, Begins, FileWith
  <2>2. CASE live[n] # 0 /\ poller' = Stopped(n) /\ call' = [call EXCEPT ![a] = [pc |-> "adding", name |-> n]]
             /\ UNCHANGED <<live, made>>
    <3>1. OwnTransports'
      BY <1>t, <2>1, <2>2 DEF OwnTransports
    <3>2. ASSUME Agreeing, ~Overlapping PROVE Agreeing'
      <4>1. /\ \A b \in Call : call[b] = NoCall
            /\ \A b \in Call : call'[b] # NoCall <=> b = a
            /\ call'[a].name = n
        BY <1>t, <2>2, <3>2 DEF Overlapping
      <4>2. \A m \in Name : ~Pending(m) /\ (Pending(m)' <=> m = n)
        BY <4>1 DEF Pending
      <4>3. \A h \in Transport : poller'[h].on <=> poller[h].on /\ h # live[n]
        BY <1>t, <2>2, StopsOnly
      <4>4. \A h \in Transport : poller[h].on <=> \E m \in Name : live[m] = h
        BY <3>2, <4>2 DEF Agreeing
      <4>5. \A h \in Transport : poller'[h].on <=> \E m \in Name : live[m] = h /\ m # n
        BY <1>t, <2>2, <4>3, <4>4 DEF OwnTransports
      <4> QED  BY <2>1, <2>2, <3>2, <4>1, <4>2, <4>5 DEF Agreeing
    <3> QED  BY <2>1, <3>1, <3>2 DEF ConfigurationInv
  <2>3. CASE live[n] = 0 /\ made < Transports /\ Started(made + 1, n) /\ UNCHANGED call
    <3>1. OwnTransports'
      BY <1>t, <2>1, <2>3, FreshTransport DEF OwnTransports
    <3>2. ASSUME Agreeing, ~Overlapping PROVE Agreeing'
      <4>1. (\A b \in Call : call[b] = NoCall) /\ \A m : ~Pending(m) /\ ~Pending(m)'
        BY <2>3, <3>2 DEF Overlapping, Pending
      <4>2. \A h \in Transport : poller[h].on <=> \E m \in Name : live[m] = h
        BY <3>2, <4>1 DEF Agreeing
      <4>3. \A h \in Transport : poller'[h].on <=> \E m \in Name : live'[m] = h
        BY <1>t, <2>3, <4>2, StartFlags
      <4>4. live'[n] # 0 /\ \A m \in Name : m # n => live'[m] = live[m]
        BY <1>t, <2>3, FreshTransport
      <4> QED  BY <2>1, <2>3, <3>2, <4>1, <4>3, <4>4 DEF Agreeing
    <3> QED  BY <2>1, <3>1, <3>2 DEF ConfigurationInv
  <2> QED  BY <1>4, <2>2, <2>3 DEF PostChannel
<1>5. ASSUME NEW a \in Call, Replace(a) PROVE ConfigurationInv'
  <2> DEFINE n == call[a].name
  <2>1. /\ call[a].pc = "adding" /\ made < Transports /\ Started(made + 1, n) /\ n \in Name
        /\ call' = [call EXCEPT ![a] = NoCall] /\ call[a] # NoCall
        /\ UNCHANGED <<file, booting, upset>>
    BY <1>t, <1>5 DEF Replace
  <2> HIDE DEF n
  <2>2. OwnTransports'
    BY <1>t, <2>1, FreshTransport DEF OwnTransports
  <2>3. ASSUME Agreeing PROVE Agreeing'
    <3>1. booting = {} /\ \A b \in Call : call'[b] = NoCall /\ (call[b] # NoCall => b = a)
      BY <1>t, <2>1, <2>3 DEF Agreeing
    <3>2. \A m \in Name : ~Pending(m)' /\ (Pending(m) <=> m = n)
      BY <2>1, <3>1 DEF Pending, n
    <3>3. live[n] # 0 /\ n \in file
      BY <2>1, <2>3, <3>1, <3>2 DEF Agreeing
    <3>4. ASSUME NEW h \in Transport PROVE poller'[h].on <=> \E m \in Name : live'[m] = h
      <4>1. poller[h].on <=> \E m \in Name : live[m] = h /\ m # n
        BY <2>3, <3>2 DEF Agreeing
      <4>2. CASE h = made + 1
        BY <1>t, <2>1, <4>2, FreshTransport
      <4>3. CASE h # made + 1
        <5>1. (poller'[h].on <=> poller[h].on) /\ live'[n] # h /\ \A m \in Name : m # n => live'[m] = live[m]
          BY <1>t, <2>1, <4>3, FreshTransport
        <5> QED  BY <4>1, <5>1
      <4> QED  BY <4>2, <4>3
    <3>5. live'[n] # 0 /\ \A m \in Name : m # n => live'[m] = live[m]
      BY <1>t, <2>1, FreshTransport
    <3> QED  BY <2>1, <2>3, <3>1, <3>2, <3>3, <3>4, <3>5 DEF Agreeing
  <2> QED  BY <2>1, <2>2, <2>3 DEF ConfigurationInv
<1>6. ASSUME NEW a \in Call, NEW n \in Name, DeleteChannel(a, n) PROVE ConfigurationInv'
  <2>1. call[a] = NoCall /\ booting = {} /\ booting' = {} /\ UNCHANGED <<live, made>>
    BY <1>6 DEF DeleteChannel, Begins
  <2>2. CASE live[n] # 0 /\ poller' = Stopped(n) /\ call' = [call EXCEPT ![a] = [pc |-> "removing", name |-> n]]
             /\ upset' = (upset \/ Overlapping) /\ UNCHANGED file
    <3>1. OwnTransports'
      BY <1>t, <2>1, <2>2 DEF OwnTransports
    <3>2. ASSUME Agreeing, ~Overlapping PROVE Agreeing'
      <4>1. /\ \A b \in Call : call[b] = NoCall
            /\ \A b \in Call : call'[b] # NoCall <=> b = a
            /\ call'[a].name = n
        BY <1>t, <2>2, <3>2 DEF Overlapping
      <4>2. \A m \in Name : ~Pending(m) /\ (Pending(m)' <=> m = n)
        BY <4>1 DEF Pending
      <4>3. \A h \in Transport : poller'[h].on <=> poller[h].on /\ h # live[n]
        BY <1>t, <2>2, StopsOnly
      <4>4. \A h \in Transport : poller[h].on <=> \E m \in Name : live[m] = h
        BY <3>2, <4>2 DEF Agreeing
      <4>5. \A h \in Transport : poller'[h].on <=> \E m \in Name : live[m] = h /\ m # n
        BY <1>t, <2>2, <4>3, <4>4 DEF OwnTransports
      <4> QED  BY <2>1, <2>2, <3>2, <4>1, <4>2, <4>5 DEF Agreeing
    <3> QED  BY <2>2, <3>1, <3>2 DEF ConfigurationInv
  <2>3. CASE live[n] = 0 /\ file' \in FileWithout(n) /\ UNCHANGED <<poller, call>>
             /\ upset' = (upset \/ Overlapping \/ n \in file')
    <3>1. OwnTransports'
      BY <1>t, <2>1, <2>3 DEF OwnTransports, FileWithout
    <3>2. ASSUME Agreeing, n \notin file' PROVE Agreeing'
      <4>1. \A m : Pending(m)' <=> Pending(m)
        BY <2>3 DEF Pending
      <4>2. file' = file \ {n}
        BY <2>3, <3>2 DEF FileWithout
      <4> QED  BY <2>1, <2>3, <3>2, <4>1, <4>2 DEF Agreeing
    <3> QED  BY <2>3, <3>1, <3>2 DEF ConfigurationInv
  <2> QED  BY <1>6, <2>2, <2>3 DEF DeleteChannel
<1>7. ASSUME NEW a \in Call, Drop(a) PROVE ConfigurationInv'
  <2> DEFINE n == call[a].name
  <2>1. /\ call[a].pc = "removing" /\ live' = [live EXCEPT ![n] = 0] /\ n \in Name
        /\ file' \in {file \ {n}, file} /\ upset' = (upset \/ n \in file')
        /\ call' = [call EXCEPT ![a] = NoCall] /\ call[a] # NoCall
        /\ UNCHANGED <<made, poller, booting>>
    BY <1>t, <1>7 DEF Drop, Unlisted, FileWithout
  <2> HIDE DEF n
  <2>2. live'[n] = 0 /\ \A m \in Name : m # n => live'[m] = live[m]
    BY <1>t, <2>1
  <2>3. OwnTransports'
    BY <1>t, <2>1, <2>2 DEF OwnTransports
  <2>4. ASSUME Agreeing, n \notin file' PROVE Agreeing'
    <3>1. booting = {} /\ \A b \in Call : call'[b] = NoCall /\ (call[b] # NoCall => b = a)
      BY <1>t, <2>1, <2>4 DEF Agreeing
    <3>2. \A m \in Name : ~Pending(m)' /\ (Pending(m) <=> m = n)
      BY <2>1, <3>1 DEF Pending, n
    <3>3. file' = file \ {n}
      BY <2>1, <2>4
    <3>4. ASSUME NEW h \in Transport PROVE poller'[h].on <=> \E m \in Name : live'[m] = h
      <4>1. h # 0
        BY DEF Transport
      <4> QED  BY <2>1, <2>2, <2>4, <3>2, <4>1 DEF Agreeing
    <3> QED  BY <2>1, <2>2, <2>4, <3>1, <3>2, <3>3, <3>4 DEF Agreeing
  <2> QED  BY <2>1, <2>3, <2>4 DEF ConfigurationInv
<1>8. CASE ChannelsRestart
  <2>1. /\ live' = [n \in Name |-> 0] /\ poller' = [g \in Transport |-> NoPoller]
        /\ call' = [a \in Call |-> NoCall] /\ booting' = file /\ UNCHANGED <<file, made>>
    BY <1>8 DEF ChannelsRestart
  <2>2. OwnTransports'
    BY <1>t, <2>1 DEF OwnTransports
  <2>3. Agreeing'
    <3>1. \A m : ~Pending(m)'
      BY <2>1 DEF Pending
    <3>2. \A g \in Transport : g # 0
      BY DEF Transport
    <3> QED  BY <1>t, <2>1, <3>1, <3>2, NoPollerIs DEF Agreeing, OwnTransports
  <2> QED  BY <2>2, <2>3 DEF ConfigurationInv
<1> QED
  BY <1>1, <1>2, <1>3, <1>4, <1>5, <1>6, <1>7, <1>8 DEF ChannelsNext

\* After the boot, between calls that neither overlapped nor failed to write,
\* the file, the live channels and the running poll loops are the same.
THEOREM ConfigurationIsKept == ChannelsSpec => []ConfigurationAgrees
<1>1. PushInit /\ ChannelsInit => ConfigurationInv
  <2> SUFFICES ASSUME ChannelsInit PROVE ConfigurationInv
    OBVIOUS
  <2>1. \A m : ~Pending(m)
    BY DEF ChannelsInit, Pending
  <2>2. \A g \in Transport : g # 0
    BY DEF Transport
  <2> QED  BY <2>1, <2>2, NoPollerIs DEF ChannelsInit, ConfigurationInv, OwnTransports, Agreeing
<1>2. TelegramInv /\ ConfigurationInv => ConfigurationAgrees
  <2> SUFFICES ASSUME ConfigurationInv, ~upset, booting = {}, call = [a \in Call |-> NoCall]
               PROVE  /\ file = {n \in Name : live[n] # 0}
                      /\ \A g \in Transport : poller[g].on <=> \E n \in Name : live[n] = g
    BY DEF ConfigurationAgrees
  <2>1. \A m : ~Pending(m)
    BY DEF Pending
  <2> QED  BY <2>1 DEF ConfigurationInv, OwnTransports, Agreeing
<1>3. TelegramInv /\ ConfigurationInv /\ [ChannelsNext]_<<pushVars, channelsVars>> => ConfigurationInv'
  BY ConfigurationStep
<1> QED
  BY <1>1, <1>2, <1>3, TelegramKept, PTL DEF ChannelsSpec

-----------------------------------------------------------------------------
(* Delegation: the end of a turn is told once, and chains are bounded.      *)

\* The notes of the vault, as records.
Kind == {"message", "request", "callback"}
InboundNote == [kind : Kind, to : Partner, reply_to : Partner \cup {Elsewhere, Nowhere},
                correlation_id : Nat, delegation_depth : Nat \cup {Garbage},
                status : {"", "ok", "error"}, source_channel : Partner \cup {Nowhere},
                cause : Nat, callbacks : Nat, loyal : BOOLEAN]
Outcome == [of : Nat, status : {"ok", "error"}, written : BOOLEAN]
Arrival == [note : Nat, life : Nat]

DelegationTypes ==
  /\ inbound \in Seq(InboundNote) /\ untold \subseteq DOMAIN inbound
  /\ arrivals \in Seq(Arrival) /\ \A t \in DOMAIN arrivals : arrivals[t].note \in DOMAIN inbound
  /\ inbox \in [Partner -> Seq(Nat)] /\ working \in [Partner -> Nat]
  /\ outcome \subseteq Outcome /\ outages \in Nat

\* Turn t is among those that have ended.
Ended(turns, t) == \E o \in turns : o.of = t

\* A turn is in one place at most: in the queue of the agent its note is for,
\* once, under way there, or ended once.
QueuesApart == \A a \in Partner : \A i \in DOMAIN inbox[a] :
  /\ inbox[a][i] \in DOMAIN arrivals /\ Asked(inbox[a][i]).to = a
  /\ ~Ended(outcome, inbox[a][i])
  /\ \A b \in Partner : working[b] # inbox[a][i]
  /\ \A j \in DOMAIN inbox[a] : inbox[a][i] = inbox[a][j] => i = j
TurnsApart == \A a \in Partner : working[a] # 0 =>
  working[a] \in DOMAIN arrivals /\ Asked(working[a]).to = a /\ ~Ended(outcome, working[a])
EndsApart ==
  /\ \A o, p \in outcome : o.of = p.of => o = p
  /\ \A o \in outcome : o.of \in DOMAIN arrivals
InOnePlace == QueuesApart /\ TurnsApart /\ EndsApart

\* The marks are the last of the arrivals, those of this life of the daemon.
MarksOfThisLife ==
  /\ seen \in Seq(Nat) /\ marked \in Seq(Nat) /\ Len(marked) <= Len(arrivals)
  /\ \A i \in DOMAIN marked : marked[i] = arrivals[Len(arrivals) - Len(marked) + i].note
  /\ \A t \in DOMAIN arrivals : t <= Len(arrivals) - Len(marked) => arrivals[t].life < outages
  /\ \A t \in DOMAIN arrivals : arrivals[t].life <= outages
Filtered == MarksOfThisLife /\ Remembers /\ OnceWithinTheCap

\* Only requests ask for an answer, and a callback comes after a turn.  A loyal
\* note carries the number of callbacks on its way as its depth.
WellWritten ==
  \A n \in DOMAIN inbound :
    /\ inbound[n].kind # "request" => inbound[n].reply_to = Nowhere
    /\ inbound[n].kind = "callback" => inbound[n].cause \in DOMAIN arrivals
    /\ inbound[n].loyal => /\ inbound[n].delegation_depth = inbound[n].callbacks
                           /\ inbound[n].callbacks <= MAX_DELEGATION_DEPTH

DelegationInv == DelegationTypes /\ InOnePlace /\ Filtered /\ WellWritten /\ DelegationsAnswered

-----------------------------------------------------------------------------
LEMMA TurnTyped ==
  ASSUME DelegationTypes, NEW t \in DOMAIN arrivals
  PROVE  /\ t \in Nat /\ t # 0
         /\ Asked(t) \in InboundNote /\ Asked(t).to \in Partner
         /\ Asked(t).callbacks \in Nat /\ Asked(t).loyal \in BOOLEAN
         /\ Asked(t).delegation_depth \in Nat \cup {Garbage}
         /\ Asked(t).correlation_id \in Nat
         /\ arrivals[t].note \in DOMAIN inbound /\ Garbage \notin Nat
<1>1. t \in Nat /\ t # 0 /\ arrivals[t].note \in DOMAIN inbound
  BY DEF DelegationTypes
<1>2. Asked(t) \in InboundNote
  BY <1>1 DEF DelegationTypes, Asked
<1> HIDE DEF Asked
<1> QED  BY <1>1, <1>2, DelegationAssumption DEF InboundNote

\* What is said of the notes and turns that are there stays true when a note is
\* written.
LEMMA NoteWritten ==
  ASSUME DelegationTypes, NEW note \in InboundNote, writeInbound(note), UNCHANGED arrivals
  PROVE  /\ inbound' \in Seq(InboundNote) /\ Len(inbound) + 1 \in Nat
         /\ DOMAIN inbound' = DOMAIN inbound \cup {Len(inbound) + 1}
         /\ \A n \in DOMAIN inbound : inbound'[n] = inbound[n] /\ n # Len(inbound) + 1
         /\ inbound'[Len(inbound) + 1] = note
         /\ untold' = untold \cup {Len(inbound) + 1}
         /\ \A t \in DOMAIN arrivals : Asked(t)' = Asked(t)
<1>1. /\ inbound' \in Seq(InboundNote) /\ Len(inbound) + 1 \in Nat
      /\ DOMAIN inbound' = DOMAIN inbound \cup {Len(inbound) + 1}
      /\ \A n \in DOMAIN inbound : inbound'[n] = inbound[n] /\ n # Len(inbound) + 1
      /\ inbound'[Len(inbound) + 1] = note
      /\ untold' = untold \cup {Len(inbound) + 1}
  BY DEF DelegationTypes, writeInbound
<1>2. \A t \in DOMAIN arrivals : Asked(t)' = Asked(t)
  <2>1. \A t \in DOMAIN arrivals : arrivals[t].note \in DOMAIN inbound
    BY DEF DelegationTypes
  <2> QED  BY <1>1, <2>1 DEF Asked
<1> QED  BY <1>1, <1>2

\* Where nothing arrives, the filter and what it is answerable for stay.
LEMMA FilterStays ==
  ASSUME Filtered, AgainOnlyIfForgotten, UNCHANGED <<seen, marked, arrivals, outages>>
  PROVE  Filtered' /\ AgainOnlyIfForgotten'
<1>1. MarksOfThisLife'
  BY DEF Filtered, MarksOfThisLife
<1>2. Remembers'
  BY DEF Filtered, Remembers
<1>3. OnceWithinTheCap'
  BY DEF Filtered, OnceWithinTheCap
<1>4. AgainOnlyIfForgotten'
  BY DEF AgainOnlyIfForgotten
<1> QED  BY <1>1, <1>2, <1>3, <1>4 DEF Filtered

\* A new note that is no callback.
LEMMA NewsKeepsInv ==
  ASSUME DelegationInv, NEW note \in InboundNote, writeInbound(note),
         UNCHANGED <<arrivals, inbox, working, outcome, outages>>, UNCHANGED filterVars,
         note.kind # "callback",
         note.kind # "request" => note.reply_to = Nowhere,
         note.loyal => /\ note.delegation_depth = note.callbacks
                       /\ note.callbacks <= MAX_DELEGATION_DEPTH
  PROVE  DelegationInv'
<1> DEFINE new == Len(inbound) + 1
<1>0. DelegationTypes /\ QueuesApart /\ TurnsApart /\ EndsApart /\ WellWritten
      /\ Filtered /\ AgainOnlyIfForgotten /\ CallbacksAnswerRequests /\ ChainsAreBounded
  BY DEF DelegationInv, InOnePlace, DelegationsAnswered
<1>1. /\ inbound' \in Seq(InboundNote)
      /\ DOMAIN inbound' = DOMAIN inbound \cup {new}
      /\ \A n \in DOMAIN inbound : inbound'[n] = inbound[n] /\ n # new
      /\ inbound'[new] = note /\ untold' = untold \cup {new}
      /\ \A t \in DOMAIN arrivals : Asked(t)' = Asked(t)
  BY <1>0, NoteWritten
<1> HIDE DEF new
<1>2. DelegationTypes'
  BY <1>0, <1>1 DEF DelegationTypes
<1>3. UNCHANGED <<arrivals, inbox, working, outcome, outages, seen, marked>>
  BY DEF filterVars
<1>4. Filtered' /\ AgainOnlyIfForgotten'
  BY <1>0, <1>3, FilterStays
<1>6. InOnePlace'
  <2>1. QueuesApart'
    BY <1>0, <1>1, <1>3 DEF QueuesApart
  <2>2. TurnsApart'
    BY <1>0, <1>1, <1>3 DEF TurnsApart
  <2>3. EndsApart'
    BY <1>0, <1>3 DEF EndsApart
  <2> QED  BY <2>1, <2>2, <2>3 DEF InOnePlace
<1>7. WellWritten'
  BY <1>0, <1>1, <1>3 DEF WellWritten
<1>8. \A c \in DOMAIN inbound' : IsCallback(c)' =>
        /\ c \in DOMAIN inbound /\ IsCallback(c) /\ inbound'[c] = inbound[c]
        /\ inbound[c].cause \in DOMAIN arrivals
  BY <1>0, <1>1 DEF IsCallback, WellWritten
<1>9. CallbacksAnswerRequests'
  <2> SUFFICES ASSUME NEW c \in DOMAIN inbound', IsCallback(c)', NEW t, t = inbound'[c].cause
               PROVE  /\ Asked(t)'.kind = "request"
    /\ inbound'[c].to = Asked(t)'.reply_to /\ inbound'[c].source_channel = Asked(t)'.to
    /\ inbound'[c].correlation_id = Asked(t)'.correlation_id
    /\ [of |-> t, status |-> inbound'[c].status, written |-> TRUE] \in outcome'
    /\ \A d \in DOMAIN inbound' : IsCallback(d)' /\ inbound'[d].cause = t => d = c
    BY DEF CallbacksAnswerRequests
  <2>1. c \in DOMAIN inbound /\ IsCallback(c) /\ inbound'[c] = inbound[c] /\ t = inbound[c].cause
        /\ t \in DOMAIN arrivals /\ Asked(t)' = Asked(t)
    BY <1>1, <1>8
  <2>2. \A d \in DOMAIN inbound' : IsCallback(d)' /\ inbound'[d].cause = t => d = c
    <3> SUFFICES ASSUME NEW d \in DOMAIN inbound', IsCallback(d)', inbound'[d].cause = t
                 PROVE  d = c
      OBVIOUS
    <3>1. d \in DOMAIN inbound /\ IsCallback(d) /\ inbound[d].cause = t
      BY <1>8
    <3> QED  BY <3>1, <2>1, <1>0 DEF CallbacksAnswerRequests
  <2> QED  BY <2>1, <2>2, <1>0, <1>3 DEF CallbacksAnswerRequests
<1>10. ChainsAreBounded'
  <2>1. \A n \in DOMAIN inbound' : inbound'[n].loyal => inbound'[n].callbacks <= MAX_DELEGATION_DEPTH
    BY <1>7 DEF WellWritten
  <2>2. ASSUME NEW o \in outcome', NEW r, r = Asked(o.of)',
               r.kind = "request" /\ r.reply_to \in Partner /\ o.written,
               r.loyal /\ r.callbacks < MAX_DELEGATION_DEPTH
        PROVE  \E c \in DOMAIN inbound' : IsCallback(c)' /\ inbound'[c].cause = o.of
    <3>1. o \in outcome /\ o.of \in DOMAIN arrivals /\ r = Asked(o.of)
      BY <2>2, <1>0, <1>1, <1>3 DEF EndsApart
    <3>2. PICK c \in DOMAIN inbound : IsCallback(c) /\ inbound[c].cause = o.of
      BY <2>2, <3>1, <1>0 DEF ChainsAreBounded
    <3> QED  BY <1>1, <3>2 DEF IsCallback
  <2> QED  BY <2>1, <2>2 DEF ChainsAreBounded
<1> QED  BY <1>2, <1>4, <1>6, <1>7, <1>9, <1>10 DEF DelegationInv, DelegationsAnswered

-----------------------------------------------------------------------------
LEMMA SendKeepsInv ==
  ASSUME DelegationInv, NEW a \in Partner, Send(a)  PROVE  DelegationInv'
<1> DEFINE note == [kind |-> "message", to |-> a, reply_to |-> Nowhere, correlation_id |-> 0,
                   delegation_depth |-> 0, status |-> "", source_channel |-> Nowhere,
                   cause |-> 0, callbacks |-> 0, loyal |-> TRUE]
<1>1. note \in InboundNote
  BY DEF InboundNote, Kind
<1>2. /\ note.kind = "message" /\ note.reply_to = Nowhere
      /\ note.delegation_depth = note.callbacks /\ note.callbacks <= MAX_DELEGATION_DEPTH
  BY DelegationAssumption
<1>3. writeInbound(note) /\ UNCHANGED <<arrivals, inbox, working, outcome, outages>> /\ UNCHANGED filterVars
  BY DEF Send
<1> HIDE DEF note
<1> QED  BY <1>1, <1>2, <1>3, NewsKeepsInv

LEMMA DelegateKeepsInv ==
  ASSUME DelegationInv, NEW a \in Partner, NEW to \in Partner, NEW r \in {a, Elsewhere},
         NEW d, d = Garbage \/ (working[a] # 0 /\ d = Passed(a)),
         Delegate(a, to, r, d)
  PROVE  DelegationInv'
<1> PICK t, m : t = working[a] /\ m = Asked(t)
  OBVIOUS
<1> DEFINE note == [kind |-> "request", to |-> to, reply_to |-> r,
                   correlation_id |-> Len(inbound) + 1, delegation_depth |-> d,
                   status |-> "", source_channel |-> Nowhere, cause |-> t,
                   callbacks |-> m.callbacks,
                   loyal |-> /\ m.loyal
                             /\ d = callbackFieldsFromMeta(t).delegationDepth]
<1>0. DelegationTypes /\ TurnsApart /\ WellWritten
  BY DEF DelegationInv, InOnePlace
<1>1. t # 0 /\ writeInbound(note) /\ UNCHANGED <<arrivals, inbox, working, outcome, outages>>
      /\ UNCHANGED filterVars
  BY DEF Delegate
<1>2. /\ t \in DOMAIN arrivals /\ t \in Nat /\ m.callbacks \in Nat /\ m.loyal \in BOOLEAN
      /\ m.delegation_depth \in Nat \cup {Garbage} /\ Garbage \notin Nat
      /\ arrivals[t].note \in DOMAIN inbound /\ Len(inbound) + 1 \in Nat
  <2>1. t \in DOMAIN arrivals
    BY <1>0, <1>1 DEF TurnsApart
  <2>2. Len(inbound) + 1 \in Nat
    BY <1>0 DEF DelegationTypes
  <2> QED  BY <2>1, <2>2, <1>0, TurnTyped
<1>4. callbackFieldsFromMeta(t).delegationDepth
        = (IF m.delegation_depth = Garbage THEN 0 ELSE m.delegation_depth)
  BY DEF callbackFieldsFromMeta
<1>5. d \in Nat \cup {Garbage}
  BY <1>2, <1>4 DEF Passed
<1>6. note \in InboundNote
  BY <1>2, <1>5 DEF InboundNote, Kind
<1>7. note.loyal => /\ note.delegation_depth = note.callbacks
                    /\ note.callbacks <= MAX_DELEGATION_DEPTH
  <2>1. m.loyal => m.delegation_depth = m.callbacks /\ m.callbacks <= MAX_DELEGATION_DEPTH
    BY <1>0, <1>2 DEF WellWritten, Asked
  <2> QED  BY <2>1, <1>2, <1>4
<1>8. note.kind = "request"
  OBVIOUS
<1> HIDE DEF note
<1> QED  BY <1>1, <1>6, <1>7, <1>8, NewsKeepsInv

\* A step that writes no note and ends no turn; one may arrive.
LEMMA MoveKeepsInv ==
  ASSUME DelegationInv, UNCHANGED <<inbound, outcome>>,
         DOMAIN arrivals \subseteq DOMAIN arrivals',
         \A t \in DOMAIN arrivals : arrivals'[t] = arrivals[t],
         DelegationTypes', QueuesApart', TurnsApart', Filtered', AgainOnlyIfForgotten'
  PROVE  DelegationInv'
<1>0. WellWritten /\ EndsApart /\ CallbacksAnswerRequests /\ ChainsAreBounded
  BY DEF DelegationInv, InOnePlace, DelegationsAnswered
<1>1. EndsApart' /\ WellWritten'
  BY <1>0 DEF EndsApart, WellWritten
<1>2. \A t \in DOMAIN arrivals : Asked(t)' = Asked(t)
  BY DEF Asked
<1>3. CallbacksAnswerRequests'
  BY <1>0, <1>2 DEF CallbacksAnswerRequests, WellWritten, IsCallback
<1>4. ChainsAreBounded'
  BY <1>0, <1>2 DEF ChainsAreBounded, EndsApart, IsCallback
<1> QED  BY <1>1, <1>3, <1>4 DEF DelegationInv, InOnePlace, DelegationsAnswered

\* What an arrival that is handed on does to the history.
LEMMA ArrivalRecorded ==
  ASSUME DelegationTypes, MarksOfThisLife, NEW n \in Nat, MarkSeen(n),
         arrivals' = Append(arrivals, [note |-> n, life |-> outages])
  PROVE  LET u == Len(arrivals) + 1 IN
         /\ u \in Nat /\ u \notin DOMAIN arrivals /\ u # 0 /\ DOMAIN arrivals = 1 .. Len(arrivals)
         /\ arrivals' \in Seq(Arrival) /\ DOMAIN arrivals' = DOMAIN arrivals \cup {u}
         /\ Len(arrivals') = u /\ DOMAIN arrivals' = 1 .. u /\ Len(arrivals) \in Nat
         /\ arrivals'[u] = [note |-> n, life |-> outages]
         /\ \A t \in DOMAIN arrivals : arrivals'[t] = arrivals[t]
         /\ Len(marked) \in Nat /\ Len(marked') = Len(marked) + 1
         /\ marked'[Len(marked) + 1] = n
         /\ \A i \in 1 .. Len(marked) : marked'[i] = marked[i]
         /\ DOMAIN marked = 1 .. Len(marked) /\ DOMAIN marked' = 1 .. Len(marked) + 1
<1>1. [note |-> n, life |-> outages] \in Arrival /\ arrivals \in Seq(Arrival) /\ Len(arrivals) \in Nat
  BY DEF DelegationTypes, Arrival
<1>2. marked \in Seq(Nat) /\ Len(marked) \in Nat /\ marked' = Append(marked, n)
  BY DEF MarksOfThisLife, MarkSeen
<1>3. /\ arrivals' \in Seq(Arrival) /\ Len(arrivals') = Len(arrivals) + 1
      /\ arrivals'[Len(arrivals) + 1] = [note |-> n, life |-> outages]
      /\ \A t \in 1 .. Len(arrivals) : arrivals'[t] = arrivals[t]
      /\ DOMAIN arrivals = 1 .. Len(arrivals) /\ DOMAIN arrivals' = 1 .. Len(arrivals) + 1
  BY <1>1
<1>4. /\ Len(marked') = Len(marked) + 1 /\ marked'[Len(marked) + 1] = n
      /\ \A i \in 1 .. Len(marked) : marked'[i] = marked[i]
      /\ DOMAIN marked = 1 .. Len(marked) /\ DOMAIN marked' = 1 .. Len(marked) + 1
  BY <1>2
<1> HIDE DEF Arrival
<1> QED  BY <1>1, <1>2, <1>3, <1>4

\* What AgainOnlyIfForgotten says, of any history of arrivals.
Forgetful(history) ==
  \A t, u \in DOMAIN history : t < u /\ history[t].note = history[u].note =>
    history[t].life # history[u].life
    \/ Cardinality({history[k].note : k \in t + 1 .. u - 1}) >= SEEN_INBOUND_CAP

\* An arrival that finds its note in none of the last marks: the marks are the
\* arrivals of this life, so what lies between two of them is the same in both.
Aligned(old, next, marks, now, LA, LM) ==
  /\ LA \in Nat /\ LM \in Nat /\ LM <= LA
  /\ DOMAIN old = 1 .. LA /\ DOMAIN next = 1 .. LA + 1 /\ DOMAIN marks = 1 .. LM + 1
  /\ \A t \in 1 .. LA : next[t] = old[t]
  /\ next[LA + 1].life = now
  /\ \A i \in 1 .. LM + 1 : marks[i] = next[LA - LM + i].note
  /\ \A t \in 1 .. LA : t <= LA - LM => old[t].life # now

LEMMA MarksForget ==
  ASSUME NEW old, NEW next, NEW marks, NEW now, NEW LA, NEW LM,
         Aligned(old, next, marks, now, LA, LM), Forgetful(old), Spaced(marks)
  PROVE  Forgetful(next)
<1> USE DEF Aligned
<1> SUFFICES ASSUME NEW t \in 1 .. LA + 1, NEW v \in 1 .. LA + 1, t < v,
                    next[t].note = next[v].note, next[t].life = next[v].life
             PROVE  Cardinality({next[k].note : k \in t + 1 .. v - 1}) >= SEEN_INBOUND_CAP
  BY DEF Forgetful
<1>1. t \in 1 .. LA
  OBVIOUS
<1>2. CASE v # LA + 1
  <2>1. v \in 1 .. LA
    BY <1>2
  <2>2. \A k \in t + 1 .. v - 1 : next[k] = old[k]
    BY <1>1, <2>1
  <2>3. {next[k].note : k \in t + 1 .. v - 1} = {old[k].note : k \in t + 1 .. v - 1}
    BY <2>2
  <2>4. old[t].note = old[v].note /\ old[t].life = old[v].life
    BY <1>1, <2>1
  <2> QED  BY <1>1, <2>1, <2>3, <2>4 DEF Forgetful
<1>3. CASE v = LA + 1
  <2>1. ~(t <= LA - LM)
    BY <1>1, <1>3
  <2> DEFINE i == t - (LA - LM)
             z == LM + 1
  <2>2. i \in 1 .. LM + 1 /\ z \in 1 .. LM + 1 /\ i < z /\ i \in Nat /\ z \in Nat
        /\ LA - LM + i = t /\ LA - LM + z = v
    BY <1>1, <1>3, <2>1
  <2>3. marks[i] = marks[z]
    <3>1. marks[i] = next[t].note /\ marks[z] = next[v].note
      BY <2>2
    <3> QED  BY <3>1
  <2> HIDE DEF i, z
  <2>4. Cardinality({marks[k] : k \in i + 1 .. z - 1}) >= SEEN_INBOUND_CAP
    BY <2>2, <2>3 DEF Spaced
  <2>5. ASSUME NEW k \in i + 1 .. z - 1
        PROVE  LA - LM + k \in t + 1 .. v - 1 /\ marks[k] = next[LA - LM + k].note
    <3>1. k \in 1 .. LM + 1
      BY <2>2
    <3>2. LA - LM + k \in t + 1 .. v - 1
      BY <2>2
    <3> QED  BY <3>1, <3>2
  <2>6. ASSUME NEW k \in t + 1 .. v - 1
        PROVE  k - (LA - LM) \in i + 1 .. z - 1 /\ next[k].note = marks[k - (LA - LM)]
    <3>1. k - (LA - LM) \in i + 1 .. z - 1 /\ LA - LM + (k - (LA - LM)) = k
      BY <2>2
    <3> QED  BY <2>5, <3>1
  <2>7. {marks[k] : k \in i + 1 .. z - 1} = {next[k].note : k \in t + 1 .. v - 1}
    <3>1. ASSUME NEW x \in {marks[k] : k \in i + 1 .. z - 1}
          PROVE  x \in {next[k].note : k \in t + 1 .. v - 1}
      BY <2>5, <3>1
    <3>2. ASSUME NEW x \in {next[k].note : k \in t + 1 .. v - 1}
          PROVE  x \in {marks[k] : k \in i + 1 .. z - 1}
      BY <2>6, <3>2
    <3> QED  BY <3>1, <3>2
  <2> QED  BY <2>4, <2>7
<1> QED  BY <1>2, <1>3

LEMMA ArrivalForgotten ==
  ASSUME DelegationTypes, Filtered, AgainOnlyIfForgotten, NEW n \in Nat, ~Seen(n), MarkSeen(n),
         arrivals' = Append(arrivals, [note |-> n, life |-> outages]), UNCHANGED outages
  PROVE  Filtered' /\ AgainOnlyIfForgotten'
<1> PICK LA, LM, next, marks : /\ LA = Len(arrivals) /\ LM = Len(marked)
                              /\ next = arrivals' /\ marks = marked'
  OBVIOUS
<1>9. /\ MarksOfThisLife /\ Remembers /\ OnceWithinTheCap
      /\ seen \in Seq(Nat) /\ marked \in Seq(Nat)
      /\ \A i \in DOMAIN marked : marked[i] = arrivals[LA - LM + i].note
      /\ \A t \in DOMAIN arrivals : t <= LA - LM => arrivals[t].life < outages
      /\ \A t \in DOMAIN arrivals : arrivals[t].life <= outages
  BY DEF Filtered, MarksOfThisLife
<1>1. /\ DOMAIN arrivals = 1 .. LA /\ DOMAIN next = 1 .. LA + 1 /\ Len(next) = LA + 1
      /\ next[LA + 1].note = n /\ next[LA + 1].life = outages
      /\ \A t \in 1 .. LA : next[t] = arrivals[t]
      /\ Len(marks) = LM + 1 /\ marks[LM + 1] = n
      /\ \A i \in 1 .. LM : marks[i] = marked[i]
      /\ DOMAIN marked = 1 .. LM /\ DOMAIN marks = 1 .. LM + 1
      /\ LA \in Nat /\ LM \in Nat
  BY <1>9, ArrivalRecorded
<1>0. LM <= LA /\ LA \in Nat /\ LM \in Nat /\ outages \in Nat
  BY <1>1 DEF Filtered, MarksOfThisLife, DelegationTypes
<1>2. seen' \in Seq(Nat) /\ marked' \in Seq(Nat) /\ Remembers' /\ OnceWithinTheCap'
  BY <1>9, MarkRemembers, MarkSpaced
<1>3. \A i \in 1 .. LM + 1 : marks[i] = next[LA - LM + i].note
  <2> SUFFICES ASSUME NEW i \in 1 .. LM + 1  PROVE  marks[i] = next[LA - LM + i].note
    OBVIOUS
  <2>1. CASE i = LM + 1
    <3>1. LA - LM + i = LA + 1
      BY <2>1, <1>0
    <3> QED  BY <2>1, <3>1, <1>1
  <2>2. CASE i # LM + 1
    <3>1. i \in 1 .. LM /\ LA - LM + i \in 1 .. LA
      BY <2>2, <1>0
    <3> QED  BY <3>1, <1>9, <1>1
  <2> QED  BY <2>1, <2>2
<1>4. MarksOfThisLife'
  <2>1. Len(next) - Len(marks) = LA - LM /\ Len(marks) <= Len(next)
    BY <1>0, <1>1
  <2>2. \A i \in DOMAIN marks : marks[i] = next[Len(next) - Len(marks) + i].note
    <3>1. DOMAIN marks = 1 .. LM + 1 /\ Len(next) - Len(marks) = LA - LM
      BY <1>1, <2>1
    <3> QED  BY <1>3, <3>1
  <2>3. ASSUME NEW t \in DOMAIN next, t <= LA - LM  PROVE  next[t].life < outages
    <3>1. t \in 1 .. LA
      BY <2>3, <1>0, <1>1
    <3> QED  BY <3>1, <2>3, <1>9, <1>1
  <2>4. \A t \in DOMAIN next : next[t].life <= outages
    <3>1. \A t \in 1 .. LA : next[t].life <= outages
      BY <1>9, <1>1
    <3>2. next[LA + 1].life <= outages
      BY <1>0, <1>1
    <3>3. \A t \in 1 .. LA + 1 : t \in 1 .. LA \/ t = LA + 1
      BY <1>0
    <3> QED  BY <3>1, <3>2, <3>3, <1>1
  <2> QED  BY <1>2, <2>1, <2>2, <2>3, <2>4 DEF MarksOfThisLife
<1>5. Forgetful(next)
  <2>1. Forgetful(arrivals)
    BY DEF AgainOnlyIfForgotten, Forgetful
  <2>2. Spaced(marks)
    <3>1. Spaced(marked')
      BY <1>2 DEF OnceWithinTheCap, Spaced
    <3> QED  BY <3>1
  <2>3. \A t \in 1 .. LA : t <= LA - LM => arrivals[t].life # outages
    <3>1. \A t \in 1 .. LA : arrivals[t].life \in Nat
      <4>1. \A t \in 1 .. LA : arrivals[t] \in Arrival
        BY <1>1 DEF DelegationTypes
      <4> QED  BY <4>1 DEF Arrival
    <3>2. \A x \in Nat : x < outages => x # outages
      BY <1>0
    <3> QED  BY <3>1, <3>2, <1>9, <1>1
  <2>4. Aligned(arrivals, next, marks, outages, LA, LM)
    BY <1>0, <1>1, <1>3, <2>3 DEF Aligned
  <2> QED  BY <2>1, <2>2, <2>4, MarksForget
<1>6. AgainOnlyIfForgotten'
  <2>1. Forgetful(arrivals')
    BY <1>5
  <2> QED  BY <2>1 DEF AgainOnlyIfForgotten, Forgetful
<1> QED  BY <1>2, <1>4, <1>6 DEF Filtered

LEMMA ArriveKeepsInv ==
  ASSUME DelegationInv, NEW n \in untold, Arrive(n)  PROVE  DelegationInv'
<1>0. DelegationTypes /\ QueuesApart /\ TurnsApart /\ EndsApart /\ Filtered /\ AgainOnlyIfForgotten
  BY DEF DelegationInv, InOnePlace, DelegationsAnswered
<1>1. n \in DOMAIN inbound /\ n \in Nat /\ inbound[n].to \in Partner /\ untold' \subseteq untold
      /\ UNCHANGED <<inbound, working, outcome, outages>>
  <2>1. n \in DOMAIN inbound /\ n \in Nat /\ inbound[n] \in InboundNote
    BY <1>0 DEF DelegationTypes
  <2> QED  BY <2>1 DEF InboundNote, Arrive, Acknowledged
<1>2. CASE Seen(n)
  <2>1. UNCHANGED <<arrivals, inbox, seen, marked>>
    BY <1>2 DEF Arrive, filterVars
  <2>2. DelegationTypes'
    BY <1>0, <1>1, <2>1 DEF DelegationTypes
  <2>3. QueuesApart' /\ TurnsApart'
    BY <1>0, <1>1, <2>1 DEF QueuesApart, TurnsApart, Asked
  <2>4. Filtered' /\ AgainOnlyIfForgotten'
    BY <1>0, <1>1, <2>1, FilterStays
  <2> QED  BY <1>1, <2>1, <2>2, <2>3, <2>4, MoveKeepsInv
<1>3. CASE ~Seen(n)
  <2> PICK b, u, q : b = inbound[n].to /\ u = Len(arrivals) + 1 /\ q = inbox[b]
    OBVIOUS
  <2>1. /\ MarkSeen(n) /\ arrivals' = Append(arrivals, [note |-> n, life |-> outages])
        /\ inbox' = [inbox EXCEPT ![b] = Append(q, u)]
    BY <1>3 DEF Arrive
  <2>2. /\ u \in Nat /\ u \notin DOMAIN arrivals /\ u # 0
        /\ arrivals' \in Seq(Arrival) /\ DOMAIN arrivals' = DOMAIN arrivals \cup {u}
        /\ arrivals'[u].note = n
        /\ \A t \in DOMAIN arrivals : arrivals'[t] = arrivals[t]
    BY <1>0, <1>1, <2>1, ArrivalRecorded DEF Filtered
  <2>3. /\ b \in Partner /\ q \in Seq(Nat) /\ Len(q) \in Nat
        /\ Append(q, u) \in Seq(Nat) /\ DOMAIN q = 1 .. Len(q)
        /\ DOMAIN Append(q, u) = 1 .. Len(q) + 1
        /\ Append(q, u)[Len(q) + 1] = u
        /\ \A i \in 1 .. Len(q) : Append(q, u)[i] = q[i]
    BY <1>0, <1>1, <2>2 DEF DelegationTypes
  <2>4. inbox'[b] = Append(q, u) /\ \A a \in Partner : a # b => inbox'[a] = inbox[a]
    BY <1>0, <2>1, <2>3 DEF DelegationTypes
  <2>5. DelegationTypes'
    <3>1. inbox' \in [Partner -> Seq(Nat)]
      BY <1>0, <2>1, <2>3 DEF DelegationTypes
    <3>2. \A t \in DOMAIN arrivals' : arrivals'[t].note \in DOMAIN inbound
      BY <1>0, <1>1, <2>2 DEF DelegationTypes
    <3> QED  BY <1>0, <1>1, <2>2, <3>1, <3>2 DEF DelegationTypes
  <2>6. Asked(u)' = inbound[n] /\ \A t \in DOMAIN arrivals : Asked(t)' = Asked(t)
    BY <1>1, <2>2 DEF Asked
  <2>7. /\ ~Ended(outcome, u) /\ \A a \in Partner : working[a] # u
        /\ \A a \in Partner : \A i \in DOMAIN inbox[a] : inbox[a][i] # u
    BY <1>0, <2>2 DEF EndsApart, TurnsApart, QueuesApart, Ended
  <2>8. QueuesApart'
    <3> SUFFICES ASSUME NEW a \in Partner, NEW i \in DOMAIN inbox'[a], NEW t, t = inbox'[a][i]
                 PROVE  /\ t \in DOMAIN arrivals' /\ Asked(t)'.to = a /\ ~Ended(outcome, t)
                        /\ \A c \in Partner : working[c] # t
                        /\ \A j \in DOMAIN inbox'[a] : t = inbox'[a][j] => i = j
      BY <1>1 DEF QueuesApart
    <3>1. CASE a # b
      <4>1. inbox'[a] = inbox[a] /\ t = inbox[a][i] /\ i \in DOMAIN inbox[a]
        BY <3>1, <2>4
      <4>2. /\ t \in DOMAIN arrivals /\ Asked(t).to = a /\ ~Ended(outcome, t)
            /\ \A c \in Partner : working[c] # t
            /\ \A j \in DOMAIN inbox[a] : t = inbox[a][j] => i = j
        BY <4>1, <1>0 DEF QueuesApart
      <4> QED  BY <4>1, <4>2, <2>2, <2>6
    <3>2. CASE a = b /\ i = Len(q) + 1
      <4>1. t = u
        BY <3>2, <2>3, <2>4
      <4>2. \A j \in DOMAIN inbox'[a] : j # i => inbox'[a][j] # u
        BY <3>2, <2>3, <2>4, <2>7
      <4> QED  BY <3>2, <4>1, <4>2, <2>2, <2>6, <2>7
    <3>3. CASE a = b /\ i \in DOMAIN q
      <4>1. t = q[i]
        BY <3>3, <2>3, <2>4
      <4>2. /\ t \in DOMAIN arrivals /\ Asked(t).to = a /\ ~Ended(outcome, t)
            /\ \A c \in Partner : working[c] # t
            /\ \A j \in DOMAIN q : t = q[j] => i = j
        BY <3>3, <4>1, <1>0 DEF QueuesApart
      <4>3. \A j \in DOMAIN inbox'[a] : t = inbox'[a][j] => i = j
        <5> SUFFICES ASSUME NEW j \in DOMAIN inbox'[a], t = inbox'[a][j]  PROVE  i = j
          OBVIOUS
        <5>1. t # u
          BY <4>2, <2>2
        <5>2. j \in DOMAIN q /\ inbox'[a][j] = q[j]
          BY <3>3, <5>1, <2>3, <2>4
        <5> QED  BY <4>2, <5>2
      <4> QED  BY <4>2, <4>3, <2>2, <2>6
    <3>4. a = b => i \in 1 .. Len(q) + 1
      BY <2>3, <2>4
    <3>5. i \in 1 .. Len(q) + 1 => i = Len(q) + 1 \/ i \in DOMAIN q
      BY <2>3
    <3> QED  BY <3>1, <3>2, <3>3, <3>4, <3>5
  <2>9. TurnsApart'
    BY <1>0, <1>1, <2>2, <2>6 DEF TurnsApart
  <2>10. Filtered' /\ AgainOnlyIfForgotten'
    BY <1>0, <1>1, <1>3, <2>1, ArrivalForgotten
  <2> QED  BY <1>1, <2>2, <2>5, <2>8, <2>9, <2>10, MoveKeepsInv
<1> QED  BY <1>2, <1>3

LEMMA BeginKeepsInv ==
  ASSUME DelegationInv, NEW b \in Partner, BeginTurn(b)  PROVE  DelegationInv'
<1>0. DelegationTypes /\ QueuesApart /\ TurnsApart /\ Filtered /\ AgainOnlyIfForgotten
  BY DEF DelegationInv, InOnePlace, DelegationsAnswered
<1> PICK q, t : q = inbox[b] /\ t = Head(q)
  OBVIOUS
<1>1. q \in Seq(Nat) /\ q # <<>> /\ t \in Nat /\ t = q[1] /\ 1 \in DOMAIN q /\ Tail(q) \in Seq(Nat)
  BY <1>0 DEF BeginTurn, DelegationTypes
<1>2. /\ working[b] = 0 /\ working' = [working EXCEPT ![b] = t]
      /\ inbox' = [inbox EXCEPT ![b] = Tail(q)]
      /\ UNCHANGED <<inbound, untold, arrivals, outcome, outages, seen, marked>>
      /\ inbox'[b] = Tail(q) /\ \A a \in Partner : a # b => inbox'[a] = inbox[a]
      /\ working'[b] = t /\ \A a \in Partner : a # b => working'[a] = working[a]
  BY <1>0 DEF BeginTurn, DelegationTypes, filterVars
<1>3. \A i \in DOMAIN Tail(q) : i + 1 \in DOMAIN q /\ Tail(q)[i] = q[i + 1] /\ i + 1 # 1 /\ i \in Nat
  <2>1. Len(q) \in Nat /\ DOMAIN q = 1 .. Len(q) /\ DOMAIN Tail(q) = 1 .. Len(q) - 1
    BY <1>1
  <2> QED  BY <1>1, <2>1
<1>4. DelegationTypes'
  BY <1>0, <1>1, <1>2 DEF DelegationTypes
<1>5. \A u : Asked(u)' = Asked(u)
  BY <1>2 DEF Asked
<1>6. t \in DOMAIN arrivals /\ Asked(t).to = b /\ ~Ended(outcome, t)
      /\ \A j \in DOMAIN q : t = q[j] => j = 1
  BY <1>0, <1>1 DEF QueuesApart
<1>7. Filtered' /\ AgainOnlyIfForgotten'
  BY <1>0, <1>2, FilterStays
<1>8. QueuesApart'
  <2> SUFFICES ASSUME NEW a \in Partner, NEW i \in DOMAIN inbox'[a], NEW u, u = inbox'[a][i]
               PROVE  /\ u \in DOMAIN arrivals /\ Asked(u).to = a /\ ~Ended(outcome, u)
                      /\ \A c \in Partner : working'[c] # u
                      /\ \A j \in DOMAIN inbox'[a] : u = inbox'[a][j] => i = j
    BY <1>2, <1>5 DEF QueuesApart
  <2>1. CASE a # b
    <3>1. inbox'[a] = inbox[a] /\ i \in DOMAIN inbox[a] /\ u = inbox[a][i]
      BY <2>1, <1>2
    <3>2. /\ u \in DOMAIN arrivals /\ Asked(u).to = a /\ ~Ended(outcome, u)
          /\ \A c \in Partner : working[c] # u
          /\ \A j \in DOMAIN inbox[a] : u = inbox[a][j] => i = j
      BY <3>1, <1>0 DEF QueuesApart
    <3>3. u # t
      BY <3>2, <2>1, <1>6
    <3> QED  BY <3>1, <3>2, <3>3, <1>2
  <2>2. CASE a = b
    <3>0. i \in DOMAIN Tail(q) /\ inbox'[a] = Tail(q)
      BY <2>2, <1>2
    <3>1. i + 1 \in DOMAIN q /\ u = q[i + 1] /\ u # t
      BY <3>0, <1>3, <1>6
    <3>2. /\ u \in DOMAIN arrivals /\ Asked(u).to = a /\ ~Ended(outcome, u)
          /\ \A c \in Partner : working[c] # u
          /\ \A j \in DOMAIN q : u = q[j] => i + 1 = j
      BY <2>2, <3>1, <1>0 DEF QueuesApart
    <3>3. \A j \in DOMAIN inbox'[a] : u = inbox'[a][j] => i = j
      <4>1. \A j \in DOMAIN Tail(q) : u = q[j + 1] => i + 1 = j + 1
        BY <3>2, <1>3
      <4>2. \A j \in DOMAIN Tail(q) : i + 1 = j + 1 => i = j
        BY <3>0, <1>3
      <4> QED  BY <3>0, <4>1, <4>2, <1>3
    <3> QED  BY <3>1, <3>2, <3>3, <1>2
  <2> QED  BY <2>1, <2>2
<1>9. TurnsApart'
  <2> SUFFICES ASSUME NEW a \in Partner, NEW u, u = working'[a], u # 0
               PROVE  u \in DOMAIN arrivals /\ Asked(u).to = a /\ ~Ended(outcome, u)
    BY <1>2, <1>5 DEF TurnsApart
  <2>1. CASE a = b
    BY <2>1, <1>2, <1>6
  <2>2. CASE a # b
    BY <2>2, <1>0, <1>2 DEF TurnsApart
  <2> QED  BY <2>1, <2>2
<1> QED  BY <1>2, <1>4, <1>7, <1>8, <1>9, MoveKeepsInv

LEMMA OutageKeepsInv ==
  ASSUME DelegationInv, Outage  PROVE  DelegationInv'
<1>0. DelegationTypes /\ Filtered /\ MarksOfThisLife /\ AgainOnlyIfForgotten
  BY DEF DelegationInv, DelegationsAnswered, Filtered
<1>1. /\ inbox' = [a \in Partner |-> <<>>] /\ working' = [a \in Partner |-> 0]
      /\ outages' = outages + 1 /\ seen' = <<>> /\ marked' = <<>>
      /\ UNCHANGED <<inbound, untold, arrivals, outcome>>
  BY DEF Outage, FilterEmptied
<1>2. DelegationTypes' /\ QueuesApart' /\ TurnsApart'
  BY <1>0, <1>1 DEF DelegationTypes, QueuesApart, TurnsApart
<1>3. MarksOfThisLife'
  <2>1. \A t \in DOMAIN arrivals : arrivals[t] \in Arrival /\ arrivals[t].life <= outages
    BY <1>0 DEF DelegationTypes, MarksOfThisLife
  <2>2. ASSUME NEW t \in DOMAIN arrivals
        PROVE  arrivals'[t].life < outages' /\ arrivals'[t].life <= outages'
    <3>1. arrivals[t].life \in Nat /\ arrivals[t].life <= outages
      BY <2>1 DEF Arrival
    <3>2. outages \in Nat
      BY <1>0 DEF DelegationTypes
    <3> QED  BY <3>1, <3>2, <1>1
  <2>3. Len(arrivals) \in Nat
    BY <1>0 DEF DelegationTypes
  <2>4. seen' \in Seq(Nat) /\ marked' \in Seq(Nat) /\ Len(marked') = 0 /\ DOMAIN marked' = {}
    BY <1>1
  <2> QED  BY <2>2, <2>3, <2>4, <1>1 DEF MarksOfThisLife
<1>4. Remembers' /\ OnceWithinTheCap'
  BY <1>1, NothingMarked
<1>5. Filtered' /\ AgainOnlyIfForgotten'
  BY <1>0, <1>1, <1>3, <1>4 DEF Filtered, AgainOnlyIfForgotten
<1> QED  BY <1>1, <1>2, <1>5, MoveKeepsInv

\* What is said when a turn ends, apart from the notes.
LEMMA EndKeepsApart ==
  ASSUME DelegationInv, NEW a \in Partner, NEW s \in {"ok", "error"}, NEW f \in BOOLEAN,
         Finish(a, s, f)
  PROVE  LET t == working[a]  o == [of |-> t, status |-> s, written |-> ~f] IN
         /\ t \in DOMAIN arrivals /\ Asked(t).to = a
         /\ o \in Outcome /\ outcome' = outcome \cup {o} /\ ~Ended(outcome, t)
         /\ \A u \in DOMAIN arrivals : Ended(outcome', u) <=> Ended(outcome, u) \/ u = t
         /\ working' \in [Partner -> Nat]
         /\ \A b \in Partner : working'[b] # 0 => b # a /\ working'[b] = working[b] /\ working[b] # t
         /\ \A b \in Partner : \A i \in DOMAIN inbox[b] : inbox[b][i] # t
<1>0. DelegationTypes /\ QueuesApart /\ TurnsApart
  BY DEF DelegationInv, InOnePlace
<1> DEFINE t == working[a]
           o == [of |-> t, status |-> s, written |-> ~f]
<1>1. t \in Nat /\ t # 0 /\ t \in DOMAIN arrivals /\ Asked(t).to = a /\ ~Ended(outcome, t)
  BY <1>0 DEF Finish, TurnsApart, DelegationTypes
<1>2. o \in Outcome /\ outcome' = outcome \cup {o} /\ o.of = t
  BY <1>1 DEF Finish, Outcome
<1>3. \A u \in DOMAIN arrivals : Ended(outcome', u) <=> Ended(outcome, u) \/ u = t
  BY <1>2 DEF Ended
<1>4. working' = [working EXCEPT ![a] = 0] /\ working \in [Partner -> Nat]
  BY <1>0 DEF Finish, DelegationTypes
<1>5. \A b \in Partner : working'[b] # 0 => b # a /\ working'[b] = working[b]
  BY <1>4
<1>6. \A b \in Partner : b # a /\ working[b] # 0 => working[b] # t
  BY <1>0, <1>1 DEF TurnsApart
<1>7. \A b \in Partner : \A i \in DOMAIN inbox[b] : inbox[b][i] # t
  BY <1>0 DEF QueuesApart
<1> QED  BY <1>1, <1>2, <1>3, <1>4, <1>5, <1>6, <1>7

\* The end of a turn that is answered to nobody, and the one that is: the notes
\* apart, it disturbs the same.
LEMMA EndKeepsPlaces ==
  ASSUME DelegationInv, NEW a \in Partner, NEW s \in {"ok", "error"}, NEW f \in BOOLEAN,
         Finish(a, s, f),
         \A t \in DOMAIN arrivals : Asked(t)' = Asked(t)
  PROVE  InOnePlace' /\ Filtered' /\ AgainOnlyIfForgotten'
<1>0. DelegationTypes /\ QueuesApart /\ TurnsApart /\ EndsApart /\ Filtered /\ AgainOnlyIfForgotten
  BY DEF DelegationInv, InOnePlace, DelegationsAnswered
<1> PICK t, o : t = working[a] /\ o = [of |-> t, status |-> s, written |-> ~f]
  OBVIOUS
<1>1. /\ t \in DOMAIN arrivals /\ Asked(t).to = a /\ t = working[a]
      /\ o.of = t /\ outcome' = outcome \cup {o} /\ ~Ended(outcome, t)
      /\ \A u \in DOMAIN arrivals : Ended(outcome', u) <=> Ended(outcome, u) \/ u = t
      /\ \A b \in Partner : working'[b] # 0 => b # a /\ working'[b] = working[b] /\ working[b] # t
      /\ \A b \in Partner : \A i \in DOMAIN inbox[b] : inbox[b][i] # t
  BY EndKeepsApart
<1>2. UNCHANGED <<inbox, arrivals, outages, seen, marked>>
  BY DEF Finish, filterVars
<1>3. Filtered' /\ AgainOnlyIfForgotten'
  BY <1>0, <1>2, FilterStays
<1>4. \A u \in DOMAIN arrivals : u # 0
  BY <1>0 DEF DelegationTypes
<1>5. QueuesApart'
  <2> SUFFICES ASSUME NEW b \in Partner, NEW i \in DOMAIN inbox[b], NEW u, u = inbox[b][i]
               PROVE  /\ u \in DOMAIN arrivals /\ Asked(u)'.to = b /\ ~Ended(outcome', u)
                      /\ \A c \in Partner : working'[c] # u
                      /\ \A j \in DOMAIN inbox[b] : u = inbox[b][j] => i = j
    BY <1>2 DEF QueuesApart
  <2>1. /\ u \in DOMAIN arrivals /\ Asked(u).to = b /\ ~Ended(outcome, u)
        /\ \A c \in Partner : working[c] # u
        /\ \A j \in DOMAIN inbox[b] : u = inbox[b][j] => i = j
    BY <1>0 DEF QueuesApart
  <2>2. u # t /\ u # 0
    BY <1>1, <1>4, <2>1
  <2>3. ~Ended(outcome', u)
    BY <1>1, <2>1, <2>2
  <2>4. \A c \in Partner : working'[c] # u
    BY <1>1, <2>1, <2>2
  <2> QED  BY <2>1, <2>3, <2>4
<1>6. TurnsApart'
  <2> SUFFICES ASSUME NEW b \in Partner, NEW u, u = working'[b], u # 0
               PROVE  u \in DOMAIN arrivals /\ Asked(u)'.to = b /\ ~Ended(outcome', u)
    BY <1>2 DEF TurnsApart
  <2>1. u = working[b] /\ u # t
    BY <1>1
  <2>2. u \in DOMAIN arrivals /\ Asked(u).to = b /\ ~Ended(outcome, u)
    BY <1>0, <2>1 DEF TurnsApart
  <2> QED  BY <1>1, <2>1, <2>2
<1>7. EndsApart'
  BY <1>0, <1>1, <1>2 DEF EndsApart, Ended
<1> QED  BY <1>3, <1>5, <1>6, <1>7 DEF InOnePlace

LEMMA CallbackTyped ==
  ASSUME DelegationTypes, NEW t \in DOMAIN arrivals, Asked(t).reply_to \in Partner,
         NEW s \in {"ok", "error"}
  PROVE  CallbackOf(t, s) \in InboundNote
<1> PICK m : m = Asked(t)
  OBVIOUS
<1>1. /\ t \in Nat /\ m.to \in Partner /\ m.callbacks \in Nat
      /\ m.loyal \in BOOLEAN /\ m.correlation_id \in Nat
      /\ m.delegation_depth \in Nat \cup {Garbage}
  BY TurnTyped
<1>2. /\ callbackFieldsFromMeta(t).correlationId \in Nat
      /\ callbackFieldsFromMeta(t).delegationDepth + 1 \in Nat
  BY <1>1 DEF callbackFieldsFromMeta
<1>3. m.callbacks + 1 \in Nat
  BY <1>1
<1> QED  BY <1>1, <1>2, <1>3 DEF CallbackOf, InboundNote, Kind

LEMMA FinishKeepsInv ==
  ASSUME DelegationInv, NEW a \in Partner, NEW s \in {"ok", "error"}, NEW f \in BOOLEAN,
         Finish(a, s, f)
  PROVE  DelegationInv'
<1>0. DelegationTypes /\ WellWritten /\ EndsApart /\ CallbacksAnswerRequests /\ ChainsAreBounded
  BY DEF DelegationInv, InOnePlace, DelegationsAnswered
<1> PICK t, o, m, depth : /\ t = working[a] /\ o = [of |-> t, status |-> s, written |-> ~f]
                          /\ m = Asked(t)
                          /\ depth = (IF m.delegation_depth = Garbage THEN 0 ELSE m.delegation_depth)
  OBVIOUS
<1>1. /\ t \in DOMAIN arrivals /\ m.to = a /\ o \in Outcome
      /\ o.of = t /\ o.status = s /\ (o.written <=> ~f)
      /\ outcome' = outcome \cup {o} /\ ~Ended(outcome, t) /\ working' \in [Partner -> Nat]
  BY EndKeepsApart
<1>2. /\ m.callbacks \in Nat /\ m.loyal \in BOOLEAN /\ m.delegation_depth \in Nat \cup {Garbage}
      /\ m.correlation_id \in Nat /\ t \in Nat /\ depth \in Nat
      /\ (m.loyal => depth = m.callbacks) /\ (m.kind # "request" => m.reply_to = Nowhere)
  <2>1. /\ m.callbacks \in Nat /\ m.loyal \in BOOLEAN /\ m.delegation_depth \in Nat \cup {Garbage}
        /\ m.correlation_id \in Nat /\ t \in Nat /\ arrivals[t].note \in DOMAIN inbound
        /\ Garbage \notin Nat
    BY <1>0, <1>1, TurnTyped
  <2>2. /\ m.kind # "request" => m.reply_to = Nowhere
        /\ m.loyal => m.delegation_depth = m.callbacks
    BY <1>0, <2>1 DEF WellWritten, Asked
  <2> QED  BY <2>1, <2>2
<1>3. callbackFieldsFromMeta(t) =
        [replyTo |-> m.reply_to, correlationId |-> m.correlation_id, delegationDepth |-> depth]
  BY DEF callbackFieldsFromMeta
<1>4. CallsBack(callbackFieldsFromMeta(t)) <=> m.reply_to \in Partner /\ depth < MAX_DELEGATION_DEPTH
  BY <1>3 DEF CallsBack
<1>5. \A c \in DOMAIN inbound : IsCallback(c) => inbound[c].cause # t
  BY <1>0, <1>1 DEF CallbacksAnswerRequests, Ended
<1>6. inbox' = inbox /\ arrivals' = arrivals /\ outages' = outages
  BY DEF Finish
<1>7. CASE ~(CallsBack(callbackFieldsFromMeta(t)) /\ ~f)
  <2>1. UNCHANGED <<inbound, untold>>
    BY <1>7 DEF Finish
  <2>2. DelegationTypes'
    BY <1>0, <1>1, <1>6, <2>1 DEF DelegationTypes
  <2>3. \A u : Asked(u)' = Asked(u)
    BY <1>6, <2>1 DEF Asked
  <2>4. InOnePlace' /\ Filtered' /\ AgainOnlyIfForgotten'
    BY <2>3, EndKeepsPlaces
  <2>5. WellWritten'
    BY <1>0, <1>6, <2>1 DEF WellWritten
  <2>6. CallbacksAnswerRequests'
    BY <1>0, <1>1, <2>1, <2>3 DEF CallbacksAnswerRequests, IsCallback
  <2>7. ChainsAreBounded'
    <3>1. ~(m.reply_to \in Partner /\ o.written /\ m.loyal /\ m.callbacks < MAX_DELEGATION_DEPTH)
      BY <1>1, <1>2, <1>4, <1>7
    <3> QED  BY <1>0, <1>1, <2>1, <2>3, <3>1 DEF ChainsAreBounded, IsCallback
  <2> QED  BY <2>2, <2>4, <2>5, <2>6, <2>7 DEF DelegationInv, DelegationsAnswered
<1>8. CASE CallsBack(callbackFieldsFromMeta(t)) /\ ~f
  <2> PICK c, note : c = Len(inbound) + 1 /\ note = CallbackOf(t, s)
    OBVIOUS
  <2>0. /\ m.reply_to \in Partner /\ depth < MAX_DELEGATION_DEPTH /\ m.kind = "request" /\ o.written
    <3>1. m.reply_to \in Partner /\ depth < MAX_DELEGATION_DEPTH /\ o.written
      BY <1>1, <1>4, <1>8
    <3>2. m.reply_to # Nowhere
      BY <3>1, DelegationAssumption
    <3> QED  BY <1>2, <3>1, <3>2
  <2>1. note = [kind |-> "callback", to |-> m.reply_to, reply_to |-> Nowhere,
                correlation_id |-> m.correlation_id, delegation_depth |-> depth + 1,
                status |-> s, source_channel |-> m.to,
                cause |-> t, callbacks |-> m.callbacks + 1, loyal |-> m.loyal]
    BY <1>3 DEF CallbackOf
  <2>2. note \in InboundNote
    BY <1>0, <1>1, <2>0, CallbackTyped
  <2>3. /\ inbound' \in Seq(InboundNote)
        /\ DOMAIN inbound' = DOMAIN inbound \cup {c} /\ c \notin DOMAIN inbound
        /\ \A k \in DOMAIN inbound : inbound'[k] = inbound[k] /\ k # c
        /\ inbound'[c] = note /\ untold' = untold \cup {c}
        /\ \A u \in DOMAIN arrivals : Asked(u)' = Asked(u)
    <3>1. writeInbound(note)
      BY <1>8 DEF Finish, writeCallback
    <3>2. /\ inbound' \in Seq(InboundNote)
          /\ DOMAIN inbound' = DOMAIN inbound \cup {c}
          /\ \A k \in DOMAIN inbound : inbound'[k] = inbound[k] /\ k # c
          /\ inbound'[c] = note /\ untold' = untold \cup {c}
          /\ \A u \in DOMAIN arrivals : Asked(u)' = Asked(u)
      BY <1>0, <1>6, <2>2, <3>1, NoteWritten
    <3> QED  BY <3>2
  <2>4. DelegationTypes'
    <3>1. \A u \in DOMAIN arrivals' : arrivals'[u].note \in DOMAIN inbound'
      BY <1>0, <1>6, <2>3 DEF DelegationTypes
    <3> QED  BY <1>0, <1>1, <1>6, <2>3, <3>1 DEF DelegationTypes
  <2>5. InOnePlace' /\ Filtered' /\ AgainOnlyIfForgotten'
    BY <2>3, EndKeepsPlaces
  <2>6. /\ note.kind = "callback" /\ note.to = m.reply_to /\ note.reply_to = Nowhere
        /\ note.correlation_id = m.correlation_id /\ note.delegation_depth = depth + 1
        /\ note.status = s /\ note.source_channel = m.to /\ note.cause = t
        /\ note.callbacks = m.callbacks + 1 /\ (note.loyal <=> m.loyal)
    BY <2>1
  <2> HIDE DEF CallsBack
  <2>7. WellWritten'
    <3>1. note.loyal => /\ note.delegation_depth = note.callbacks
                        /\ note.callbacks <= MAX_DELEGATION_DEPTH
      BY <1>2, <2>0, <2>6, DelegationAssumption
    <3> QED  BY <1>0, <1>1, <1>6, <2>3, <2>6, <3>1 DEF WellWritten
  <2>8. \A d \in DOMAIN inbound' : IsCallback(d)' <=> d = c \/ (d \in DOMAIN inbound /\ IsCallback(d))
    BY <2>3, <2>6 DEF IsCallback
  <2>9. CallbacksAnswerRequests'
    <3> SUFFICES ASSUME NEW d \in DOMAIN inbound', IsCallback(d)', NEW r, r = inbound'[d].cause
                 PROVE  /\ Asked(r)'.kind = "request"
                        /\ inbound'[d].to = Asked(r)'.reply_to
                        /\ inbound'[d].source_channel = Asked(r)'.to
                        /\ inbound'[d].correlation_id = Asked(r)'.correlation_id
                        /\ [of |-> r, status |-> inbound'[d].status, written |-> TRUE] \in outcome'
                        /\ \A e \in DOMAIN inbound' : IsCallback(e)' /\ inbound'[e].cause = r => e = d
      BY DEF CallbacksAnswerRequests
    <3>1. CASE d = c
      <4>1. r = t /\ Asked(r)' = m /\ inbound'[d] = note
        BY <3>1, <1>1, <2>3, <2>6
      <4>2. o = [of |-> r, status |-> note.status, written |-> TRUE]
        BY <4>1, <1>1, <1>8, <2>6
      <4>3. \A e \in DOMAIN inbound' : IsCallback(e)' /\ inbound'[e].cause = r => e = d
        BY <3>1, <4>1, <1>5, <2>3, <2>8
      <4> QED  BY <4>1, <4>2, <4>3, <1>1, <2>0, <2>6
    <3>2. CASE d # c
      <4>1. d \in DOMAIN inbound /\ IsCallback(d) /\ inbound'[d] = inbound[d] /\ r = inbound[d].cause
        BY <3>2, <2>3, <2>8
      <4>2. r \in DOMAIN arrivals /\ Asked(r)' = Asked(r) /\ r # t
        BY <4>1, <1>0, <1>5, <2>3 DEF WellWritten, IsCallback
      <4>3. \A e \in DOMAIN inbound' : IsCallback(e)' /\ inbound'[e].cause = r => e = d
        <5> SUFFICES ASSUME NEW e \in DOMAIN inbound', IsCallback(e)', inbound'[e].cause = r
                     PROVE  e = d
          OBVIOUS
        <5>1. e # c /\ e \in DOMAIN inbound /\ IsCallback(e) /\ inbound[e].cause = r
          BY <4>2, <2>3, <2>6, <2>8
        <5> QED  BY <4>1, <5>1, <1>0 DEF CallbacksAnswerRequests
      <4> QED  BY <4>1, <4>2, <4>3, <1>0, <1>1 DEF CallbacksAnswerRequests
    <3> QED  BY <3>1, <3>2
  <2>10. ChainsAreBounded'
    <3>1. \A k \in DOMAIN inbound' : inbound'[k].loyal => inbound'[k].callbacks <= MAX_DELEGATION_DEPTH
      BY <2>7 DEF WellWritten
    <3>2. ASSUME NEW p \in outcome', NEW r, r = Asked(p.of)',
                 r.kind = "request" /\ r.reply_to \in Partner /\ p.written,
                 r.loyal /\ r.callbacks < MAX_DELEGATION_DEPTH
          PROVE  \E d \in DOMAIN inbound' : IsCallback(d)' /\ inbound'[d].cause = p.of
      <4>1. CASE p = o
        BY <4>1, <1>1, <2>3, <2>6, <2>8
      <4>2. CASE p \in outcome
        <5>1. p.of \in DOMAIN arrivals /\ r = Asked(p.of)
          BY <3>2, <4>2, <1>0, <2>3 DEF EndsApart
        <5>2. PICK d \in DOMAIN inbound : IsCallback(d) /\ inbound[d].cause = p.of
          BY <3>2, <4>2, <5>1, <1>0 DEF ChainsAreBounded
        <5> QED  BY <5>2, <2>3, <2>8
      <4> QED  BY <4>1, <4>2, <1>1
    <3> QED  BY <3>1, <3>2 DEF ChainsAreBounded
  <2> QED  BY <2>4, <2>5, <2>7, <2>9, <2>10 DEF DelegationInv, DelegationsAnswered
<1> QED  BY <1>7, <1>8

\* For any number of agents, notes, turns, restarts and lost answers, and any cap
\* of the filter: each turn about a request is called back once and truly, a note
\* has a second turn only if the filter was emptied or flushed since its first,
\* and a chain that passes the depth on ends at the ceiling.
THEOREM EveryRequestIsAnswered == DelegationSpec => []DelegationsAnswered
<1>1. DelegationInit => DelegationInv
  <2> SUFFICES ASSUME DelegationInit  PROVE  DelegationInv
    OBVIOUS
  <2>1. DelegationTypes /\ InOnePlace /\ WellWritten
    BY DEF DelegationInit, DelegationTypes, InOnePlace, QueuesApart, TurnsApart, EndsApart, WellWritten
  <2>2. Remembers /\ OnceWithinTheCap
    BY NothingMarkedYet DEF DelegationInit
  <2>3. MarksOfThisLife
    BY DEF DelegationInit, FilterInit, MarksOfThisLife
  <2>4. DelegationsAnswered
    BY DEF DelegationInit, DelegationsAnswered, CallbacksAnswerRequests, AgainOnlyIfForgotten,
           ChainsAreBounded
  <2> QED  BY <2>1, <2>2, <2>3, <2>4 DEF DelegationInv, Filtered
<1>2. DelegationInv /\ [DelegationNext]_<<filterVars, delegationVars>> => DelegationInv'
  <2> SUFFICES ASSUME DelegationInv, [DelegationNext]_<<filterVars, delegationVars>>
               PROVE  DelegationInv'
    OBVIOUS
  <2>1. ASSUME NEW a \in Partner, Send(a)  PROVE  DelegationInv'
    BY <2>1, SendKeepsInv
  <2>2. ASSUME NEW a \in Partner, BeginTurn(a)  PROVE  DelegationInv'
    BY <2>2, BeginKeepsInv
  <2>3. ASSUME NEW a \in Partner, NEW to \in Partner, NEW r \in {a, Elsewhere},
               NEW d \in {Garbage} \cup IF working[a] # 0 THEN {Passed(a)} ELSE {},
               Delegate(a, to, r, d)
        PROVE  DelegationInv'
    BY <2>3, DelegateKeepsInv
  <2>4. ASSUME NEW n \in untold, Arrive(n)  PROVE  DelegationInv'
    BY <2>4, ArriveKeepsInv
  <2>5. ASSUME NEW a \in Partner, NEW s \in {"ok", "error"}, NEW f \in BOOLEAN, Finish(a, s, f)
        PROVE  DelegationInv'
    BY <2>5, FinishKeepsInv
  <2>6. CASE Outage
    BY <2>6, OutageKeepsInv
  <2>7. CASE UNCHANGED <<filterVars, delegationVars>>
    <3>1. UNCHANGED <<inbound, untold, arrivals, inbox, working, outcome, outages, seen, marked>>
      BY <2>7 DEF filterVars, delegationVars
    <3>2. DelegationTypes /\ QueuesApart /\ TurnsApart /\ Filtered /\ AgainOnlyIfForgotten
      BY DEF DelegationInv, InOnePlace, DelegationsAnswered
    <3>3. DelegationTypes' /\ QueuesApart' /\ TurnsApart'
      BY <3>1, <3>2 DEF DelegationTypes, QueuesApart, TurnsApart, Asked
    <3>4. Filtered' /\ AgainOnlyIfForgotten'
      BY <3>1, <3>2, FilterStays
    <3> QED  BY <3>1, <3>3, <3>4, MoveKeepsInv
  <2> QED  BY <2>1, <2>2, <2>3, <2>4, <2>5, <2>6, <2>7 DEF DelegationNext
<1>3. DelegationInv => DelegationsAnswered
  BY DEF DelegationInv
<1> QED  BY <1>1, <1>2, <1>3, PTL DEF DelegationSpec

=============================================================================
