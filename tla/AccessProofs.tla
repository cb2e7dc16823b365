---------------------------- MODULE AccessProofs ----------------------------
(***************************************************************************)
(* Theorems about what the operator meets: StepUp (the limiter of the      *)
(* PINs), Gate (tokens, tickets and step-up tokens), Terminal (the relay's *)
(* flow control), Page (the dialog and the requests that wait for it) and  *)
(* Chat (the streams of the chat page and its transcript), for any limits, *)
(* windows, lifetimes and caps, any PINs, tokens, requests, channels and   *)
(* notes, and any number of steps.                                         *)
(***************************************************************************)
EXTENDS MCAccess, FiniteSetTheorems, SequenceTheorems, TLAPS

(* StepUp: the limiter.                                                    *)

Ascends(times) ==
  /\ times \in Seq(Nat)
  /\ \A i, j \in DOMAIN times : i <= j => times[i] <= times[j]
  /\ \A i \in DOMAIN times : times[i] <= now

\* The bucket holds the last of the verifications since the last right PIN; the
\* ones before it have left the window.
BucketIsTheEnd ==
  /\ Len(bucket) <= Len(tries) /\ Len(bucket) <= STEP_UP_MAX_ATTEMPTS
  /\ \A i \in DOMAIN bucket : bucket[i] = tries[Len(tries) - Len(bucket) + i]
  /\ \A i \in DOMAIN tries :
       i <= Len(tries) - Len(bucket) => tries[i] <= now - STEP_UP_WINDOW_MS

\* By the time that was promised, the first of the bucket has left the window.
PromiseCovers ==
  /\ promised \in Nat \cup {-1}
  /\ promised # -1 => Len(bucket) > 0 /\ bucket[1] + STEP_UP_WINDOW_MS <= promised

LimiterInv ==
  /\ now \in Nat /\ Ascends(tries) /\ bucket \in Seq(Nat)
  /\ BucketIsTheEnd /\ PromiseCovers /\ GuessesBounded

-----------------------------------------------------------------------------
LEMMA CountUpTo ==
  ASSUME NEW n \in Nat
  PROVE  IsFiniteSet(1 .. n) /\ Cardinality(1 .. n) = n
<1>1. IsFiniteSet(1 .. n) /\ Cardinality(1 .. n) = IF 1 > n THEN 0 ELSE n - 1 + 1
  BY FS_Interval
<1> QED  BY <1>1

LEMMA EndOf ==
  ASSUME NEW s \in Seq(Nat), NEW k \in 0 .. Len(s), NEW r, r = SubSeq(s, k + 1, Len(s))
  PROVE  /\ r \in Seq(Nat) /\ Len(r) = Len(s) - k /\ DOMAIN r = 1 .. Len(s) - k
         /\ \A i \in 1 .. Len(s) - k : r[i] = s[k + i]
<1>1. Len(s) \in Nat /\ k \in Nat /\ k <= Len(s) /\ DOMAIN s = 1 .. Len(s)
  OBVIOUS
<1>2. \A i \in k + 1 .. Len(s) : s[i] \in Nat
  BY <1>1
<1>3. r = [i \in 1 .. Len(s) - k |-> s[k + i]]
  BY <1>1
<1>4. \A i \in 1 .. Len(s) - k : k + i \in k + 1 .. Len(s)
  BY <1>1
<1>5. Len(s) - k \in Nat
  BY <1>1
<1> QED  BY <1>2, <1>3, <1>4, <1>5

\* The filter drops the first k.
LEMMA RecentDropsTheFirst ==
  ASSUME now \in Nat, NEW s \in Seq(Nat), \A i, j \in DOMAIN s : i <= j => s[i] <= s[j]
  PROVE  \E k \in 0 .. Len(s) :
           /\ Recent(s) = SubSeq(s, k + 1, Len(s))
           /\ \A i \in DOMAIN s : s[i] <= now - STEP_UP_WINDOW_MS <=> i <= k
<1> PICK D, k : D = {i \in DOMAIN s : s[i] <= now - STEP_UP_WINDOW_MS} /\ k = Cardinality(D)
  OBVIOUS
<1>1. Len(s) \in Nat /\ DOMAIN s = 1 .. Len(s) /\ D \subseteq 1 .. Len(s)
  OBVIOUS
<1>2. IsFiniteSet(1 .. Len(s)) /\ Cardinality(1 .. Len(s)) = Len(s)
  BY <1>1, CountUpTo
<1>3. IsFiniteSet(D) /\ k \in Nat /\ k <= Len(s)
  BY <1>1, <1>2, FS_Subset, FS_CardinalityType
<1>4. \A i \in D : i <= k
  <2> TAKE i \in D
  <2>1. i \in Nat /\ 1 .. i \subseteq D
    <3>1. i \in 1 .. Len(s) /\ s[i] <= now - STEP_UP_WINDOW_MS
      BY <1>1
    <3>2. \A j \in 1 .. i : j \in DOMAIN s /\ s[j] <= s[i] /\ s[j] \in Nat /\ s[i] \in Nat
      BY <1>1, <3>1
    <3>3. now - STEP_UP_WINDOW_MS \in Int
      BY LimiterAssumption
    <3> QED  BY <3>1, <3>2, <3>3
  <2>2. Cardinality(1 .. i) = i
    BY <2>1, CountUpTo
  <2> QED  BY <1>3, <2>1, <2>2, FS_Subset
<1>5. \A i \in DOMAIN s : i <= k => i \in D
  <2> SUFFICES ASSUME NEW i \in DOMAIN s, i \notin D  PROVE  ~(i <= k)
    OBVIOUS
  <2>1. D \subseteq 1 .. i - 1
    <3> SUFFICES ASSUME NEW j \in D, j >= i  PROVE  FALSE
      BY <1>1
    <3>1. s[i] <= s[j] /\ s[j] <= now - STEP_UP_WINDOW_MS /\ s[i] \in Nat /\ s[j] \in Nat
      BY <1>1
    <3>2. now - STEP_UP_WINDOW_MS \in Int
      BY LimiterAssumption
    <3> QED  BY <3>1, <3>2
  <2>2. IsFiniteSet(1 .. i - 1) /\ Cardinality(1 .. i - 1) = i - 1
    BY <1>1, CountUpTo
  <2>3. k <= i - 1
    BY <2>1, <2>2, FS_Subset
  <2> QED  BY <1>1, <1>3, <2>3
<1>6. Recent(s) = SubSeq(s, k + 1, Len(s))
  BY DEF Recent
<1>7. k \in 0 .. Len(s)
  BY <1>1, <1>3
<1>8. \A i \in DOMAIN s : s[i] <= now - STEP_UP_WINDOW_MS <=> i <= k
  BY <1>4, <1>5
<1> QED  BY <1>6, <1>7, <1>8

LEMMA BucketAscends ==
  ASSUME LimiterInv  PROVE  \A i, j \in DOMAIN bucket : i <= j => bucket[i] <= bucket[j]
<1> PICK B, T, t : B = Len(bucket) /\ T = Len(tries) /\ t = tries
  OBVIOUS
<1>0. /\ t \in Seq(Nat) /\ B \in Nat /\ T \in Nat /\ DOMAIN bucket = 1 .. B /\ DOMAIN t = 1 .. T
      /\ B <= T /\ \A i \in 1 .. B : bucket[i] = t[T - B + i]
      /\ \A i, j \in 1 .. T : i <= j => t[i] <= t[j]
  <2>1. /\ t \in Seq(Nat) /\ B \in Nat /\ T \in Nat /\ DOMAIN bucket = 1 .. B /\ DOMAIN t = 1 .. T
    BY DEF LimiterInv, Ascends
  <2>2. B <= T /\ \A i \in DOMAIN bucket : bucket[i] = t[T - B + i]
    BY DEF LimiterInv, BucketIsTheEnd
  <2>3. \A i, j \in DOMAIN t : i <= j => t[i] <= t[j]
    BY DEF LimiterInv, Ascends
  <2> QED  BY <2>1, <2>2, <2>3
<1> SUFFICES ASSUME NEW i \in 1 .. B, NEW j \in 1 .. B, i <= j  PROVE  bucket[i] <= bucket[j]
  BY <1>0
<1>1. T - B + i \in 1 .. T /\ T - B + j \in 1 .. T /\ T - B + i <= T - B + j
  BY <1>0
<1> QED  BY <1>0, <1>1

\* What is kept of the bucket.
LEMMA RecentOfBucket ==
  ASSUME LimiterInv
  PROVE  LET r == Recent(bucket) IN
         /\ r \in Seq(Nat) /\ Len(r) \in Nat /\ Len(r) <= Len(bucket) /\ DOMAIN r = 1 .. Len(r)
         /\ \A i \in DOMAIN r : r[i] = tries[Len(tries) - Len(r) + i]
         /\ \A i \in DOMAIN tries :
              i <= Len(tries) - Len(r) => tries[i] <= now - STEP_UP_WINDOW_MS
         /\ (Len(bucket) > 0 /\ bucket[1] <= now - STEP_UP_WINDOW_MS => Len(r) < Len(bucket))
<1> PICK r, B, T : r = Recent(bucket) /\ B = Len(bucket) /\ T = Len(tries)
  OBVIOUS
<1> PICK b, t, W : b = bucket /\ t = tries /\ W = now - STEP_UP_WINDOW_MS
  OBVIOUS
<1>0. /\ now \in Nat /\ b \in Seq(Nat) /\ t \in Seq(Nat) /\ B \in Nat /\ T \in Nat
      /\ DOMAIN b = 1 .. B /\ DOMAIN t = 1 .. T /\ W \in Int /\ B <= T
  BY LimiterAssumption DEF LimiterInv, Ascends, BucketIsTheEnd
<1>1. /\ \A i \in 1 .. B : b[i] = t[T - B + i] /\ T - B + i \in 1 .. T
      /\ \A i \in 1 .. T : i <= T - B => t[i] <= W
      /\ \A i, j \in 1 .. T : i <= j => t[i] <= t[j]
  <2>1. \A i \in 1 .. B : b[i] = t[T - B + i]
    BY <1>0 DEF LimiterInv, BucketIsTheEnd
  <2>2. \A i \in 1 .. T : i <= T - B => t[i] <= W
    BY <1>0 DEF LimiterInv, BucketIsTheEnd
  <2>3. \A i, j \in 1 .. T : i <= j => t[i] <= t[j]
    BY <1>0 DEF LimiterInv, Ascends
  <2> QED  BY <1>0, <2>1, <2>2, <2>3
<1>2. \A i, j \in DOMAIN b : i <= j => b[i] <= b[j]
  BY BucketAscends
<1>3. PICK k \in 0 .. B : /\ r = SubSeq(b, k + 1, B)
                          /\ \A i \in DOMAIN b : b[i] <= W <=> i <= k
  BY <1>0, <1>2, RecentDropsTheFirst
<1>4. /\ r \in Seq(Nat) /\ Len(r) = B - k /\ DOMAIN r = 1 .. B - k
      /\ \A i \in 1 .. B - k : r[i] = b[k + i]
  BY <1>0, <1>3, EndOf
<1>5. \A i \in 1 .. B - k : r[i] = t[T - (B - k) + i]
  <2> TAKE i \in 1 .. B - k
  <2>1. k + i \in 1 .. B /\ T - B + (k + i) = T - (B - k) + i
    BY <1>0, <1>3
  <2> QED  BY <1>1, <1>4, <2>1
<1>6. \A i \in 1 .. T : i <= T - (B - k) => t[i] <= W
  <2> SUFFICES ASSUME NEW i \in 1 .. T, i <= T - (B - k), ~(i <= T - B)
               PROVE  t[i] <= W
    BY <1>1
  <2>1. i - (T - B) \in 1 .. B /\ i - (T - B) <= k /\ T - B + (i - (T - B)) = i
    BY <1>0, <1>3
  <2> QED  BY <1>0, <1>1, <1>3, <2>1
<1>7. B > 0 /\ b[1] <= W => Len(r) < B
  <2> SUFFICES ASSUME B > 0, b[1] <= W  PROVE  1 <= k
    BY <1>0, <1>3, <1>4
  <2> QED  BY <1>0, <1>3
<1>8. Len(r) \in Nat /\ Len(r) <= B
  BY <1>0, <1>3, <1>4
<1>9. T - (B - k) = T - Len(r)
  BY <1>4
<1> QED  BY <1>0, <1>4, <1>5, <1>6, <1>7, <1>8, <1>9

\* Rounding up to whole seconds.
LEMMA CeilCovers ==
  ASSUME NEW ms \in Nat, NEW d \in Nat \ {0}
  PROVE  ((ms + d - 1) \div d) * d >= ms /\ (ms + d - 1) \div d \in Nat
<1> PICK x, q, r : x = ms + d - 1 /\ q = x \div d /\ r = x % d
  OBVIOUS
<1>1. x \in Nat /\ x = d * q + r /\ r \in 0 .. d - 1 /\ q \in Int
  OBVIOUS
<1>2. q >= 0
  BY <1>1
<1>3. d * q = q * d /\ q * d \in Int
  BY <1>1
<1> QED  BY <1>1, <1>2, <1>3

LEMMA RetryCovers ==
  ASSUME NEW h \in Nat, now \in Nat, h + STEP_UP_WINDOW_MS > now, Head(Recent(bucket)) = h
  PROVE  /\ now + retryAfterSeconds * SECOND \in Nat
         /\ h + STEP_UP_WINDOW_MS <= now + retryAfterSeconds * SECOND
<1> PICK ms, q, n : /\ ms = h + STEP_UP_WINDOW_MS - now /\ q = (ms + SECOND - 1) \div SECOND
                    /\ n = IF q < 1 THEN 1 ELSE q
  OBVIOUS
<1>1. ms \in Nat /\ SECOND \in Nat \ {0}
  BY LimiterAssumption
<1>2. q * SECOND >= ms /\ q \in Nat
  BY <1>1, CeilCovers
<1>3. q # 0
  BY <1>1, <1>2, LimiterAssumption
<1>4. n = q
  BY <1>2, <1>3
<1>5. retryAfterSeconds = n
  BY DEF retryAfterSeconds, AtLeastOne, CeilSeconds
<1>6. q * SECOND \in Nat
  BY <1>1, <1>2
<1> PICK p : p = q * SECOND
  OBVIOUS
<1>7. retryAfterSeconds * SECOND = p /\ p \in Nat /\ p >= ms
  BY <1>2, <1>4, <1>5, <1>6
<1>8. STEP_UP_WINDOW_MS \in Nat
  BY LimiterAssumption
<1> QED  BY <1>1, <1>7, <1>8

LEMMA AdmitKeepsInv ==
  ASSUME LimiterInv, checkAndRecord(TRUE), now' = now  PROVE  LimiterInv'
<1> PICK r, R, T, t, W, M : /\ r = Recent(bucket) /\ R = Len(r) /\ T = Len(tries) /\ t = tries
                           /\ W = now - STEP_UP_WINDOW_MS /\ M = STEP_UP_MAX_ATTEMPTS
  OBVIOUS
<1>0. /\ now \in Nat /\ t \in Seq(Nat) /\ T \in Nat /\ DOMAIN t = 1 .. T /\ W \in Int
      /\ M \in Nat /\ M > 0 /\ STEP_UP_WINDOW_MS \in Nat
      /\ \A i, j \in DOMAIN t : i <= j => t[i] <= t[j]
      /\ \A i \in DOMAIN t : t[i] <= now /\ t[i] \in Nat
  BY LimiterAssumption DEF LimiterInv, Ascends
<1>1. /\ r \in Seq(Nat) /\ R \in Nat /\ R <= Len(bucket) /\ DOMAIN r = 1 .. R
      /\ \A i \in DOMAIN r : r[i] = t[T - R + i]
      /\ \A i \in DOMAIN t : i <= T - R => t[i] <= W
  BY RecentOfBucket
<1>2. R <= T /\ R < M
  <2>1. Len(bucket) <= T /\ Len(bucket) \in Nat
    BY DEF LimiterInv, BucketIsTheEnd
  <2>2. ~(R >= M)
    BY DEF checkAndRecord
  <2> QED  BY <1>0, <1>1, <2>1, <2>2
<1>3. bucket' = Append(r, now) /\ tries' = Append(t, now) /\ promised' = -1
  BY <1>0, <1>1, <1>2 DEF checkAndRecord
<1> PICK b, u : b = Append(r, now) /\ u = Append(t, now)
  OBVIOUS
<1>4. /\ b \in Seq(Nat) /\ Len(b) = R + 1 /\ DOMAIN b = 1 .. R + 1 /\ b[R + 1] = now
      /\ \A i \in 1 .. R : b[i] = r[i]
  BY <1>0, <1>1
<1>5. /\ u \in Seq(Nat) /\ Len(u) = T + 1 /\ DOMAIN u = 1 .. T + 1 /\ u[T + 1] = now
      /\ \A i \in 1 .. T : u[i] = t[i]
  BY <1>0
<1>6. Ascends(tries)'
  <2>1. \A i, j \in DOMAIN u : i <= j => u[i] <= u[j]
    <3> SUFFICES ASSUME NEW i \in 1 .. T + 1, NEW j \in 1 .. T + 1, i <= j  PROVE  u[i] <= u[j]
      BY <1>5
    <3>1. CASE j = T + 1 /\ i = T + 1
      BY <3>1, <1>0, <1>5
    <3>2. CASE j = T + 1 /\ i \in 1 .. T
      BY <3>2, <1>0, <1>5
    <3>3. CASE j \in 1 .. T /\ i \in 1 .. T
      BY <3>3, <1>0, <1>5
    <3> QED  BY <3>1, <3>2, <3>3, <1>0
  <2>2. \A i \in DOMAIN u : u[i] <= now
    <3> TAKE i \in DOMAIN u
    <3>1. i \in 1 .. T \/ i = T + 1
      BY <1>0, <1>5
    <3> QED  BY <3>1, <1>0, <1>5
  <2> QED  BY <1>3, <1>5, <2>1, <2>2 DEF Ascends
<1>7. BucketIsTheEnd'
  <2>1. \A i \in DOMAIN b : b[i] = u[Len(u) - Len(b) + i]
    <3>0. \A i \in DOMAIN b : Len(u) - Len(b) + i = T - R + i /\ (i = R + 1 \/ i \in 1 .. R)
      BY <1>0, <1>1, <1>4, <1>5
    <3> SUFFICES ASSUME NEW i \in DOMAIN b  PROVE  b[i] = u[T - R + i]
      BY <3>0
    <3>1. CASE i = R + 1
      <4>1. T - R + i = T + 1
        BY <3>1, <1>0, <1>1
      <4> QED  BY <3>1, <4>1, <1>4, <1>5
    <3>2. CASE i \in 1 .. R
      <4>0. R \in Nat /\ T \in Nat /\ R <= T
        BY <1>0, <1>1, <1>2
      <4>1. T - R + i \in 1 .. T
        BY <3>2, <4>0
      <4> QED  BY <3>2, <4>1, <1>1, <1>4, <1>5
    <3> QED  BY <3>0, <3>1, <3>2
  <2>2. \A i \in DOMAIN u : i <= Len(u) - Len(b) => u[i] <= W
    <3> SUFFICES ASSUME NEW i \in 1 .. T + 1, i <= T - R  PROVE  u[i] <= W
      BY <1>0, <1>1, <1>4, <1>5
    <3>1. i \in 1 .. T
      BY <1>0, <1>1
    <3> QED  BY <3>1, <1>0, <1>1, <1>5
  <2>3. Len(b) <= Len(u) /\ Len(b) <= M
    BY <1>0, <1>1, <1>2, <1>4, <1>5
  <2> QED  BY <1>3, <2>1, <2>2, <2>3 DEF BucketIsTheEnd
<1>8. GuessesBounded'
  <2>1. ASSUME NEW i \in DOMAIN u, NEW j \in DOMAIN u, i <= j, j - i + 1 > M
        PROVE  u[j] - u[i] >= STEP_UP_WINDOW_MS
    <3>1. CASE j \in 1 .. T
      <4>1. i \in 1 .. T
        BY <2>1, <3>1, <1>0, <1>5
      <4>2. t[j] - t[i] >= STEP_UP_WINDOW_MS
        BY <2>1, <3>1, <4>1, <1>0 DEF LimiterInv, GuessesBounded
      <4> QED  BY <3>1, <4>1, <4>2, <1>5
    <3>2. CASE j = T + 1
      <4>1. i \in 1 .. T /\ i <= T - R
        BY <2>1, <3>2, <1>0, <1>1, <1>2, <1>5
      <4>2. t[i] <= W /\ t[i] \in Nat
        BY <4>1, <1>0, <1>1
      <4> QED  BY <3>2, <4>1, <4>2, <1>0, <1>5
    <3> QED  BY <3>1, <3>2, <1>0, <1>5
  <2> QED  BY <2>1, <1>3 DEF GuessesBounded
<1>9. PromiseCovers'
  BY <1>3 DEF PromiseCovers
<1> QED  BY <1>0, <1>3, <1>4, <1>6, <1>7, <1>8, <1>9 DEF LimiterInv

LEMMA DenyKeepsInv ==
  ASSUME LimiterInv, checkAndRecord(FALSE), now' = now  PROVE  LimiterInv'
<1> PICK r, R, T : r = Recent(bucket) /\ R = Len(r) /\ T = Len(tries)
  OBVIOUS
<1>0. now \in Nat /\ Ascends(tries) /\ BucketIsTheEnd /\ GuessesBounded /\ bucket \in Seq(Nat)
  BY DEF LimiterInv
<1>1. /\ r \in Seq(Nat) /\ R \in Nat /\ R <= Len(bucket) /\ DOMAIN r = 1 .. R
      /\ \A i \in DOMAIN r : r[i] = tries[T - R + i]
      /\ \A i \in DOMAIN tries : i <= T - R => tries[i] <= now - STEP_UP_WINDOW_MS
  BY RecentOfBucket
<1>2. R >= STEP_UP_MAX_ATTEMPTS
  BY DEF checkAndRecord
<1>3. bucket' = r /\ tries' = tries /\ promised' = now + retryAfterSeconds * SECOND
  BY <1>2 DEF checkAndRecord
<1>4. BucketIsTheEnd'
  <2>1. R <= T /\ R <= STEP_UP_MAX_ATTEMPTS
    BY <1>0, <1>1, LimiterAssumption DEF BucketIsTheEnd, Ascends
  <2> QED  BY <1>1, <1>3, <2>1 DEF BucketIsTheEnd
<1>5. R > 0 /\ r # <<>> /\ Head(r) = r[1] /\ r[1] \in Nat /\ 1 \in DOMAIN r
  BY <1>1, <1>2, LimiterAssumption
<1>6. r[1] + STEP_UP_WINDOW_MS > now
  <2>1. PICK k \in 0 .. Len(bucket) :
          /\ r = SubSeq(bucket, k + 1, Len(bucket))
          /\ \A i \in DOMAIN bucket : bucket[i] <= now - STEP_UP_WINDOW_MS <=> i <= k
    <3>1. \A i, j \in DOMAIN bucket : i <= j => bucket[i] <= bucket[j]
      BY BucketAscends
    <3> QED  BY <1>0, <3>1, RecentDropsTheFirst
  <2>2. /\ Len(bucket) - k = R /\ \A i \in 1 .. Len(bucket) - k : r[i] = bucket[k + i]
    BY <1>0, <2>1, EndOf
  <2>3. k + 1 \in DOMAIN bucket /\ r[1] = bucket[k + 1] /\ ~(k + 1 <= k)
    BY <1>0, <1>1, <1>5, <2>1, <2>2
  <2>4. ~(r[1] <= now - STEP_UP_WINDOW_MS)
    BY <2>1, <2>3
  <2> QED  BY <1>0, <1>5, <2>4, LimiterAssumption
<1>7. PromiseCovers'
  <2>1. /\ now + retryAfterSeconds * SECOND \in Nat
        /\ r[1] + STEP_UP_WINDOW_MS <= now + retryAfterSeconds * SECOND
    BY <1>0, <1>5, <1>6, RetryCovers
  <2> QED  BY <1>1, <1>3, <1>5, <2>1 DEF PromiseCovers
<1>8. Ascends(tries)' /\ GuessesBounded'
  BY <1>0, <1>3 DEF Ascends, GuessesBounded
<1> QED  BY <1>0, <1>1, <1>3, <1>4, <1>7, <1>8 DEF LimiterInv

LEMMA ClearKeepsInv ==
  ASSUME LimiterInv, clear, now' = now  PROVE  LimiterInv'
<1>1. now \in Nat /\ now' = now /\ bucket' = <<>> /\ tries' = <<>> /\ promised' = -1
  BY DEF LimiterInv, clear
<1> QED  BY <1>1, LimiterAssumption DEF LimiterInv, Ascends, BucketIsTheEnd, PromiseCovers, GuessesBounded

LEMMA TimeKeepsInv ==
  ASSUME LimiterInv, UNCHANGED <<bucket, tries, promised>>, now' \in {now, now + 1}
  PROVE  LimiterInv'
<1>0. now \in Nat /\ now' \in Nat /\ now <= now'
  BY DEF LimiterInv
<1>1. Ascends(tries)'
  BY <1>0 DEF LimiterInv, Ascends
<1>2. BucketIsTheEnd'
  <2>1. tries \in Seq(Nat) /\ Len(tries) \in Nat /\ Len(bucket) \in Nat /\ STEP_UP_WINDOW_MS \in Nat
        /\ \A i \in DOMAIN tries : tries[i] \in Nat
    BY LimiterAssumption DEF LimiterInv, Ascends
  <2> QED  BY <1>0, <2>1 DEF LimiterInv, BucketIsTheEnd
<1>3. PromiseCovers' /\ GuessesBounded'
  BY DEF LimiterInv, PromiseCovers, GuessesBounded
<1> QED  BY <1>0, <1>1, <1>2, <1>3 DEF LimiterInv

\* For any limit, window and lifetimes, and however requests, restarts and the
\* clock interleave: no more PINs are verified than the limiter allows, and who
\* comes back when he was told to is admitted.
THEOREM LimiterIsKept == StepUpSpec => []LimiterKeepsItsWord
<1>1. StepUpInit => LimiterInv
  BY LimiterAssumption DEF StepUpInit, LimiterInv, Ascends, BucketIsTheEnd, PromiseCovers, GuessesBounded
<1>2. LimiterInv /\ [StepUpNext]_stepUpVars => LimiterInv'
  <2> SUFFICES ASSUME LimiterInv, [StepUpNext]_stepUpVars  PROVE  LimiterInv'
    OBVIOUS
  <2>1. ASSUME NEW c \in Call, NEW p \in Pin, PostExchange(c, p)  PROVE  LimiterInv'
    BY <2>1, AdmitKeepsInv, DenyKeepsInv, TimeKeepsInv DEF PostExchange
  <2>2. ASSUME NEW c \in Call, NEW p \in Pin, NEW q \in Pin, PostPin(c, p, q)  PROVE  LimiterInv'
    BY <2>2, AdmitKeepsInv, DenyKeepsInv, TimeKeepsInv DEF PostPin
  <2>3. ASSUME NEW c \in Call, Verified(c)  PROVE  LimiterInv'
    BY <2>3, ClearKeepsInv, TimeKeepsInv DEF Verified
  <2>4. ASSUME NEW c \in Call, setStepUpPin(c) \/ Read(c)  PROVE  LimiterInv'
    BY <2>4, TimeKeepsInv DEF setStepUpPin, Read
  <2>5. CASE StepUpRestart
    BY <2>5, ClearKeepsInv DEF StepUpRestart, clear
  <2>6. CASE Tick \/ UNCHANGED stepUpVars
    BY <2>6, TimeKeepsInv DEF Tick, stepUpVars
  <2> QED  BY <2>1, <2>2, <2>3, <2>4, <2>5, <2>6 DEF StepUpNext
<1>3. LimiterInv => LimiterKeepsItsWord
  <2> SUFFICES ASSUME LimiterInv, promised # -1, now >= promised
               PROVE  Len(Recent(bucket)) < STEP_UP_MAX_ATTEMPTS
    BY DEF LimiterInv, LimiterKeepsItsWord, RetryAfterHolds
  <2>1. /\ Len(bucket) > 0 /\ bucket[1] + STEP_UP_WINDOW_MS <= promised /\ promised \in Nat
        /\ Len(bucket) <= STEP_UP_MAX_ATTEMPTS /\ now \in Nat /\ bucket \in Seq(Nat)
    BY DEF LimiterInv, PromiseCovers, BucketIsTheEnd
  <2>2. bucket[1] \in Nat
    BY <2>1
  <2>3. bucket[1] <= now - STEP_UP_WINDOW_MS
    BY <2>1, <2>2, LimiterAssumption
  <2>4. Len(Recent(bucket)) \in Nat /\ Len(Recent(bucket)) < Len(bucket)
    BY <2>1, <2>3, RecentOfBucket
  <2> QED  BY <2>1, <2>4, LimiterAssumption
<1> QED  BY <1>1, <1>2, <1>3, PTL DEF StepUpSpec

-----------------------------------------------------------------------------
(* Gate: what is opened was opened by right.                               *)

Origins == {HubOrigin, Loopback, Unset} \cup Exposed
Trades == [token : HubToken, at : Nat, life : Nat, origin : Origins]
Exchanges == [at : Nat, life : Nat]

GateTypeOK ==
  /\ now \in Nat /\ minted \in Nat /\ stepUpRestarts \in Nat /\ nonces \in Nat
  /\ exposeState \in Exposed \cup {Unset}
  /\ visit.at = "validating" => visit.token \in HubToken
  /\ traded \in Seq(Trades) /\ nonces = Len(traded)
  /\ earned \in Seq(Exchanges) /\ minted = Len(earned)

\* A step-up token in the store is as old as its exchange, and of this life.
TokensKept ==
  /\ DOMAIN tokens \subseteq 1 .. minted
  /\ \A t \in DOMAIN tokens :
       tokens[t] = earned[t].at + STEP_UP_TOKEN_TTL_MS /\ earned[t].life = stepUpRestarts

StreamBy(n) == \E d \in doors : d.what = "stream" /\ d.by = n
Young(n, at, life) == at < traded[n].at + TICKET_TTL_MS /\ life = traded[n].life

\* A ticket in the store is as its token was; one that is not has expired, is
\* of an earlier life, or has opened its stream.
TicketsKept ==
  /\ DOMAIN ticketStore \subseteq 1 .. nonces
  /\ \A n \in DOMAIN ticketStore :
       /\ ticketStore[n].scopes = traded[n].token.scopes
       /\ ticketStore[n].expiresAt = traded[n].at + TICKET_TTL_MS
       /\ traded[n].life = stepUpRestarts
  /\ \A n \in 1 .. nonces :
       /\ traded[n].life <= stepUpRestarts
       /\ Ours(traded[n].token, traded[n].origin)
       /\ grantsScope(traded[n].token.scopes, "read")
       /\ n \in DOMAIN ticketStore \/ ~Young(n, now, stepUpRestarts) \/ StreamBy(n)

StreamsKept ==
  /\ \A d \in doors : d.what = "stream" =>
       /\ d.by \in 1 .. nonces \ DOMAIN ticketStore
       /\ Young(d.by, d.at, d.life)
       /\ \A e \in doors : e.what = "stream" /\ e.by = d.by => e = d
  /\ \A r \in turned : r.by \in 1 .. nonces /\ r.at \in Nat /\ (~Young(r.by, r.at, r.life) \/ StreamBy(r.by))

GateInv == GateTypeOK /\ TokensKept /\ TicketsKept /\ StreamsKept /\ TerminalsByBoth

\* A validated token is ours, under the origin that the daemon has then.
LEMMA Validated ==
  ASSUME NEW t, validateHubJwt(t)
  PROVE  Ours(t, getHubOrigin)
BY DEF validateHubJwt, Ours, ACCEPTED_AUDIENCES

LEMMA OriginTyped ==
  ASSUME GateTypeOK
  PROVE  getHubOrigin \in Origins
BY DEF GateTypeOK, getHubOrigin, readExposeStateHubOrigin, Origins

LEMMA TradesTyped ==
  ASSUME GateTypeOK, NEW n \in 1 .. nonces
  PROVE  traded[n].at \in Nat /\ traded[n].life \in Nat /\ n \in DOMAIN traded
<1>1. n \in DOMAIN traded /\ traded[n] \in Trades
  BY DEF GateTypeOK
<1> QED
  BY <1>1 DEF Trades

\* A store of tickets that nobody touches while time goes on and terminals are
\* opened.
LEMMA TicketsStay ==
  ASSUME GateTypeOK, TicketsKept, StreamsKept,
         UNCHANGED <<ticketStore, nonces, traded, turned, stepUpRestarts>>,
         now' \in Nat, now' >= now, doors \subseteq doors',
         \A d \in doors' \ doors : d.what # "stream"
  PROVE  TicketsKept' /\ StreamsKept'
<1>1. \A n : StreamBy(n)' <=> StreamBy(n)
  BY DEF StreamBy
<1>2. ASSUME NEW n \in 1 .. nonces, ~Young(n, now, stepUpRestarts)
      PROVE  ~Young(n, now, stepUpRestarts)'
  BY <1>2, TradesTyped, GateAssumption DEF Young, GateTypeOK
<1>3. TicketsKept'
  BY <1>1, <1>2 DEF TicketsKept, Ours, grantsScope
<1>4. StreamsKept'
  BY <1>1 DEF StreamsKept, Young
<1> QED
  BY <1>3, <1>4

\* Step-up tokens of which some are dropped, and no new one.
LEMMA TokensStay ==
  ASSUME TokensKept, UNCHANGED <<minted, earned, stepUpRestarts>>,
         DOMAIN tokens' \subseteq DOMAIN tokens, \A t \in DOMAIN tokens' : tokens'[t] = tokens[t]
  PROVE  TokensKept'
BY DEF TokensKept

\* What a step of the second factor does to the clock and to the tokens.
LEMMA StepsOfStepUp ==
  ASSUME \/ Tick
         \/ \E c \in Call :
              \/ /\ call[c].at = "idle"
                 /\ \E p \in Pin : IF isStepUpConfigured THEN minted < MaxTokens /\ PostExchange(c, p)
                                   ELSE PostPin(c, NoPin, p)
              \/ Verified(c) \/ setStepUpPin(c) \/ Read(c)
  PROVE  /\ stepUpRestarts' = stepUpRestarts
         /\ \/ now' = now + 1 /\ UNCHANGED <<minted, tokens>>
            \/ now' = now /\ UNCHANGED <<minted, tokens>>
            \/ now' = now /\ mintStepUpToken(minted + 1)
<1>1. CASE Tick
  BY <1>1 DEF Tick
<1>2. ASSUME NEW c \in Call, NEW p \in Pin, PostExchange(c, p) \/ PostPin(c, NoPin, p)
      PROVE  UNCHANGED <<stepUpRestarts, now, minted, tokens>>
  BY <1>2 DEF PostExchange, PostPin
<1>3. ASSUME NEW c \in Call, Verified(c)
      PROVE  /\ UNCHANGED <<stepUpRestarts, now>>
             /\ UNCHANGED <<minted, tokens>> \/ mintStepUpToken(minted + 1)
  <2>1. ASSUME NEW t \in 1 .. MaxTokens, mintStepUpToken(t) PROVE mintStepUpToken(minted + 1)
    BY <2>1 DEF mintStepUpToken
  <2> QED  BY <1>3, <2>1 DEF Verified
<1>4. ASSUME NEW c \in Call, setStepUpPin(c) \/ Read(c)
      PROVE  UNCHANGED <<stepUpRestarts, now, minted, tokens>>
  BY <1>4 DEF setStepUpPin, Read
<1> QED
  BY <1>1, <1>2, <1>3, <1>4

THEOREM GateIsKept == GateSpec => []GateInv
<1>1. StepUpInit /\ GateInit => GateInv
  BY DEF StepUpInit, GateInit, GateInv, GateTypeOK, TokensKept, TicketsKept, StreamsKept,
         TerminalsByBoth, NoVisit
<1>2. GateInv /\ [GateNext]_<<stepUpVars, gateVars>> => GateInv'
  <2> SUFFICES ASSUME GateInv, [GateNext]_<<stepUpVars, gateVars>> PROVE GateInv'
    OBVIOUS
  <2>i. GateTypeOK /\ TokensKept /\ TicketsKept /\ StreamsKept /\ TerminalsByBoth
    BY DEF GateInv
  <2>n. now \in Nat /\ now >= now
    BY <2>i DEF GateTypeOK
  <2>1. ASSUME NEW w \in {"ticket", "terminal"}, NEW t \in HubToken, NEW s, Arrives(w, t, s) PROVE GateInv'
    <3>1. UNCHANGED <<stepUpVars, exposeState, ticketStore, nonces, traded, earned, doors, turned>>
      BY <2>1 DEF Arrives
    <3>2. GateTypeOK'
      BY <2>1, <3>1, <2>i DEF Arrives, GateTypeOK, stepUpVars
    <3>3. TokensKept' /\ TerminalsByBoth'
      BY <3>1, <2>i, TokensStay DEF stepUpVars, TerminalsByBoth, Ours
    <3>4. TicketsKept' /\ StreamsKept'
      BY <3>1, <2>i, <2>n, TicketsStay DEF stepUpVars
    <3> QED  BY <3>2, <3>3, <3>4 DEF GateInv
  <2>2. ASSUME Traded PROVE GateInv'
    <3> DEFINE fits == validateHubJwt(visit.token) /\ grantsScope(visit.token.scopes, "read")
               rec == [token |-> visit.token, at |-> now, life |-> stepUpRestarts, origin |-> getHubOrigin]
               m == nonces + 1
    <3>1. UNCHANGED <<stepUpVars, exposeState, earned, doors, turned>> /\ visit'.at = "none"
          /\ visit.token \in HubToken
      BY <2>2, <2>i DEF Traded, NoVisit, GateTypeOK
    <3>2. TokensKept' /\ TerminalsByBoth'
      BY <3>1, <2>i, TokensStay DEF stepUpVars, TerminalsByBoth, Ours
    <3>3. CASE ~fits
      <4>1. UNCHANGED <<ticketStore, nonces, traded>>
        BY <2>2, <3>3 DEF Traded
      <4>2. GateTypeOK'
        BY <3>1, <4>1, <2>i DEF GateTypeOK, stepUpVars
      <4>3. TicketsKept' /\ StreamsKept'
        BY <3>1, <4>1, <2>i, <2>n, TicketsStay DEF stepUpVars
      <4> QED  BY <3>2, <4>2, <4>3 DEF GateInv
    <3>4. CASE fits
      <4>1. nonces' = m /\ mintTicket(visit.token.scopes) /\ traded' = Append(traded, rec)
        BY <2>2, <3>4 DEF Traded
      <4>2. rec \in Trades
        BY <3>1, <2>i, OriginTyped DEF Trades, GateTypeOK
      <4>3. GateTypeOK'
        <5>1. traded' \in Seq(Trades) /\ nonces' = Len(traded') /\ nonces' \in Nat
          BY <4>1, <4>2, <2>i DEF GateTypeOK
        <5> QED  BY <5>1, <3>1, <2>i DEF GateTypeOK, stepUpVars
      <4>4. traded'[m] = rec /\ m \in Nat /\ \A k \in 1 .. nonces : traded'[k] = traded[k]
        BY <4>1, <4>2, <2>i DEF GateTypeOK
      <4>5. /\ DOMAIN ticketStore' = {k \in DOMAIN ticketStore : now < ticketStore[k].expiresAt} \cup {m}
            /\ ticketStore'[m] = [scopes |-> visit.token.scopes, expiresAt |-> now + TICKET_TTL_MS]
            /\ \A k \in DOMAIN ticketStore' \ {m} : ticketStore'[k] = ticketStore[k]
        BY <4>1 DEF mintTicket, pruneExpiredTickets
      <4>6. Ours(visit.token, getHubOrigin)
        BY <3>4, Validated
      <4>7. \A n : StreamBy(n)' <=> StreamBy(n)
        BY <3>1 DEF StreamBy
      <4>8. \A k \in 1 .. nonces : \A at, life : Young(k, at, life)' <=> Young(k, at, life)
        BY <4>4 DEF Young
      <4>9. TicketsKept'
        <5>1. DOMAIN ticketStore' \subseteq 1 .. nonces'
          BY <4>1, <4>4, <4>5, <2>i DEF TicketsKept, GateTypeOK
        <5>2. ASSUME NEW k \in DOMAIN ticketStore'
              PROVE  /\ ticketStore'[k].scopes = traded'[k].token.scopes
                     /\ ticketStore'[k].expiresAt = traded'[k].at + TICKET_TTL_MS
                     /\ traded'[k].life = stepUpRestarts'
          <6>1. CASE k = m
            BY <6>1, <4>4, <4>5, <3>1 DEF stepUpVars
          <6>2. CASE k # m
            BY <6>2, <4>4, <4>5, <3>1, <2>i DEF TicketsKept, stepUpVars
          <6> QED  BY <6>1, <6>2
        <5>3. ASSUME NEW k \in 1 .. nonces'
              PROVE  /\ traded'[k].life <= stepUpRestarts'
                     /\ Ours(traded'[k].token, traded'[k].origin)
                     /\ grantsScope(traded'[k].token.scopes, "read")
                     /\ k \in DOMAIN ticketStore' \/ ~Young(k, now, stepUpRestarts)' \/ StreamBy(k)'
          <6>1. CASE k = m
            BY <6>1, <4>4, <4>5, <4>6, <3>1, <3>4, <2>i DEF stepUpVars, GateTypeOK
          <6>2. CASE k # m
            <7>1. k \in 1 .. nonces
              BY <6>2, <4>1, <2>i DEF GateTypeOK
            <7>2. CASE k \in DOMAIN ticketStore /\ now < ticketStore[k].expiresAt
              BY <7>1, <7>2, <4>4, <4>5, <3>1, <2>i DEF TicketsKept, stepUpVars
            <7>3. CASE k \in DOMAIN ticketStore /\ ~(now < ticketStore[k].expiresAt)
              <8>1. ~Young(k, now, stepUpRestarts)
                BY <7>3, <2>i DEF TicketsKept, Young
              <8> QED  BY <8>1, <7>1, <4>4, <4>8, <3>1, <2>i DEF TicketsKept, stepUpVars
            <7>4. CASE k \notin DOMAIN ticketStore
              BY <7>1, <7>4, <4>4, <4>7, <4>8, <3>1, <2>i DEF TicketsKept, stepUpVars
            <7> QED  BY <7>2, <7>3, <7>4
          <6> QED  BY <6>1, <6>2
        <5> QED  BY <5>1, <5>2, <5>3 DEF TicketsKept, Ours, grantsScope
      <4>10. StreamsKept'
        <5>1. ASSUME NEW d \in doors', d.what = "stream"
              PROVE  /\ d.by \in 1 .. nonces' \ DOMAIN ticketStore'
                     /\ Young(d.by, d.at, d.life)'
                     /\ \A e \in doors' : e.what = "stream" /\ e.by = d.by => e = d
          BY <5>1, <3>1, <4>1, <4>5, <4>8, <2>i DEF StreamsKept, GateTypeOK
        <5>2. ASSUME NEW r \in turned'
              PROVE  r.by \in 1 .. nonces' /\ r.at \in Nat /\ (~Young(r.by, r.at, r.life)' \/ StreamBy(r.by)')
          BY <5>2, <3>1, <4>1, <4>7, <4>8, <2>i DEF StreamsKept, GateTypeOK
        <5> QED  BY <5>1, <5>2 DEF StreamsKept
      <4> QED  BY <3>2, <4>3, <4>9, <4>10 DEF GateInv
    <3> QED  BY <3>3, <3>4
  <2>3. ASSUME Upgraded PROVE GateInv'
    <3> DEFINE door == [what |-> "terminal", at |-> now, by |-> visit.stepUp, life |-> stepUpRestarts,
                        token |-> visit.token, origin |-> getHubOrigin]
               opened == /\ validateHubJwt(visit.token) /\ grantsScope(visit.token.scopes, "admin")
                         /\ requireStepUp(visit.stepUp) = "ok"
    <3>1. /\ UNCHANGED <<now, minted, stepUpRestarts, exposeState, ticketStore, nonces, traded, earned, turned>>
          /\ visit'.at = "none"
          /\ doors' = IF opened THEN doors \cup {door} ELSE doors
          /\ lookUp(visit.stepUp) \/ UNCHANGED tokens
      BY <2>3 DEF Upgraded, NoVisit
    <3>2. GateTypeOK'
      BY <3>1, <2>i DEF GateTypeOK
    <3>3. TokensKept'
      <4>1. DOMAIN tokens' \subseteq DOMAIN tokens /\ \A t \in DOMAIN tokens' : tokens'[t] = tokens[t]
        BY <3>1 DEF lookUp
      <4> QED  BY <4>1, <3>1, <2>i, TokensStay
    <3>4. TicketsKept' /\ StreamsKept'
      BY <3>1, <2>i, <2>n, TicketsStay
    <3>5. TerminalsByBoth'
      <4>1. ASSUME opened
            PROVE  /\ Ours(door.token, door.origin) /\ \E s \in door.token.scopes : s.verb = "admin"
                   /\ door.by \in DOMAIN earned
                   /\ door.at < earned[door.by].at + STEP_UP_TOKEN_TTL_MS
                   /\ door.life = earned[door.by].life
        <5>1. visit.stepUp \in DOMAIN tokens /\ now < tokens[visit.stepUp]
          BY <4>1 DEF requireStepUp, isStepUpTokenValid
        <5>2. visit.stepUp \in DOMAIN earned
          BY <5>1, <2>i DEF TokensKept, GateTypeOK
        <5>3. Ours(visit.token, getHubOrigin)
          BY <4>1, Validated
        <5>4. \E s \in visit.token.scopes : s.verb = "admin"
          BY <4>1 DEF grantsScope
        <5> QED  BY <5>1, <5>2, <5>3, <5>4, <2>i DEF TokensKept
      <4>2. \A d \in doors' : d \in doors \/ (opened /\ d = door)
        BY <3>1
      <4> QED  BY <4>1, <4>2, <3>1, <2>i DEF TerminalsByBoth, Ours
    <3> QED  BY <3>2, <3>3, <3>4, <3>5 DEF GateInv
  <2>4. ASSUME NEW n \in 1 .. nonces, Opens(n) PROVE GateInv'
    <3> DEFINE fits == Consumable(n) /\ grantsScope(ticketStore[n].scopes, "read")
               door == [what |-> "stream", at |-> now, by |-> n, life |-> stepUpRestarts, nth |-> visits']
               refusal == [by |-> n, at |-> now, life |-> stepUpRestarts]
    <3>1. /\ UNCHANGED <<stepUpVars, exposeState, nonces, visit, traded, earned>>
          /\ DOMAIN ticketStore' = DOMAIN ticketStore \ {n}
          /\ \A k \in DOMAIN ticketStore' : ticketStore'[k] = ticketStore[k]
          /\ doors' = IF fits THEN doors \cup {door} ELSE doors
          /\ turned' = IF fits THEN turned ELSE turned \cup {refusal}
      BY <2>4 DEF Opens, Consume
    <3>2. GateTypeOK'
      BY <3>1, <2>i DEF GateTypeOK, stepUpVars
    <3>3. TokensKept'
      BY <3>1, <2>i, TokensStay DEF stepUpVars
    <3>4. TerminalsByBoth'
      BY <3>1, <2>i DEF TerminalsByBoth, Ours
    <3>5. fits => n \in DOMAIN ticketStore /\ Young(n, now, stepUpRestarts)
      BY <2>i DEF Consumable, TicketsKept, Young
    <3>6. ~fits => ~Young(n, now, stepUpRestarts) \/ StreamBy(n)
      <4>1. CASE n \in DOMAIN ticketStore
        BY <4>1, <2>i DEF Consumable, TicketsKept, Young
      <4>2. CASE n \notin DOMAIN ticketStore
        BY <4>2, <2>i DEF TicketsKept
      <4> QED  BY <4>1, <4>2
    <3>7. \A k : StreamBy(k) => StreamBy(k)'
      BY <3>1 DEF StreamBy
    <3>8. fits => StreamBy(n)'
      <4>1. door.what = "stream" /\ door.by = n
        OBVIOUS
      <4>2. fits => door \in doors'
        BY <3>1
      <4> HIDE DEF door, fits
      <4> QED  BY <4>1, <4>2 DEF StreamBy
    <3>9. \A k, at, life : Young(k, at, life)' <=> Young(k, at, life)
      BY <3>1 DEF Young
    <3>10. TicketsKept'
      <4>1. ASSUME NEW k \in 1 .. nonces
            PROVE  k \in DOMAIN ticketStore' \/ ~Young(k, now, stepUpRestarts) \/ StreamBy(k)'
        <5>1. CASE k = n
          BY <5>1, <3>6, <3>7, <3>8
        <5>2. CASE k # n
          BY <5>2, <3>1, <3>7, <2>i DEF TicketsKept
        <5> QED  BY <5>1, <5>2
      <4> QED  BY <4>1, <3>1, <3>9, <2>i DEF TicketsKept, stepUpVars, Ours, grantsScope, Young
    <3>11. StreamsKept'
      <4>1. \A d \in doors : d.what = "stream" /\ fits => d.by # n
        BY <3>5, <2>i DEF StreamsKept
      <4>2. ASSUME NEW d \in doors', d.what = "stream"
            PROVE  /\ d.by \in 1 .. nonces' \ DOMAIN ticketStore'
                   /\ Young(d.by, d.at, d.life)'
                   /\ \A e \in doors' : e.what = "stream" /\ e.by = d.by => e = d
        <5>1. CASE d \in doors
          BY <5>1, <4>1, <4>2, <3>1, <3>9, <2>i DEF StreamsKept
        <5>2. CASE d \notin doors
          <6>1. fits /\ d = door
            BY <5>2, <4>2, <3>1
          <6>2. \A e \in doors' : e.what = "stream" /\ e.by = d.by => e = d
            BY <6>1, <4>1, <3>1
          <6>3. d.by = n /\ d.at = now /\ d.life = stepUpRestarts
            BY <6>1
          <6> QED  BY <6>1, <6>2, <6>3, <3>1, <3>5, <3>9
        <5> QED  BY <5>1, <5>2
      <4>3. ASSUME NEW r \in turned'
            PROVE  r.by \in 1 .. nonces' /\ r.at \in Nat /\ (~Young(r.by, r.at, r.life)' \/ StreamBy(r.by)')
        <5>1. CASE r \in turned
          BY <5>1, <3>1, <3>7, <3>9, <2>i DEF StreamsKept
        <5>2. CASE r \notin turned
          <6>1. ~fits /\ r = refusal
            BY <5>2, <4>3, <3>1
          <6>2. r.by = n /\ r.at = now /\ r.life = stepUpRestarts
            BY <6>1
          <6> QED  BY <6>1, <6>2, <2>n, <3>1, <3>6, <3>7, <3>9
        <5> QED  BY <5>1, <5>2
      <4> QED  BY <4>2, <4>3 DEF StreamsKept
    <3> QED  BY <3>2, <3>3, <3>4, <3>10, <3>11 DEF GateInv
  <2>5. ASSUME NEW o \in Exposed, Exposes(o) PROVE GateInv'
    <3>1. /\ UNCHANGED <<stepUpVars, ticketStore, nonces, visit, visits, traded, earned, doors, turned>>
          /\ exposeState' \in Exposed \cup {Unset}
      BY <2>5 DEF Exposes
    <3>2. GateTypeOK'
      BY <3>1, <2>i DEF GateTypeOK, stepUpVars
    <3>3. TokensKept' /\ TerminalsByBoth'
      BY <3>1, <2>i, TokensStay DEF stepUpVars, TerminalsByBoth, Ours
    <3>4. TicketsKept' /\ StreamsKept'
      BY <3>1, <2>i, <2>n, TicketsStay DEF stepUpVars
    <3> QED  BY <3>2, <3>3, <3>4 DEF GateInv
  <2>6. ASSUME GateRestart PROVE GateInv'
    <3>1. /\ UNCHANGED <<now, minted, exposeState, nonces, traded, earned, doors, turned>>
          /\ tokens' = <<>> /\ ticketStore' = <<>> /\ visit'.at = "none"
          /\ stepUpRestarts' = stepUpRestarts + 1
      BY <2>6 DEF GateRestart, StepUpRestart, NoVisit
    <3>2. GateTypeOK'
      BY <3>1, <2>i DEF GateTypeOK
    <3>3. TokensKept'
      BY <3>1, <2>i DEF TokensKept, GateTypeOK
    <3>4. TerminalsByBoth'
      BY <3>1, <2>i DEF TerminalsByBoth, Ours
    <3>5. ASSUME NEW k \in 1 .. nonces PROVE ~Young(k, now, stepUpRestarts + 1) /\ traded[k].life <= stepUpRestarts + 1
      BY <2>i, TradesTyped DEF Young, TicketsKept, GateTypeOK
    <3>6. TicketsKept'
      BY <3>1, <3>5, <2>i DEF TicketsKept, Young, Ours, grantsScope
    <3>7. StreamsKept'
      BY <3>1, <2>i DEF StreamsKept, Young, StreamBy
    <3> QED  BY <3>2, <3>3, <3>4, <3>6, <3>7 DEF GateInv
  <2>7. ASSUME SecondFactor PROVE GateInv'
    <3>1. /\ UNCHANGED <<exposeState, ticketStore, nonces, visit, visits, traded, doors, turned>>
          /\ earned' = IF minted' = minted THEN earned
                       ELSE Append(earned, [at |-> now, life |-> stepUpRestarts])
      BY <2>7 DEF SecondFactor
    <3>2. /\ stepUpRestarts' = stepUpRestarts
          /\ \/ now' = now + 1 /\ UNCHANGED <<minted, tokens>>
             \/ now' = now /\ UNCHANGED <<minted, tokens>>
             \/ now' = now /\ mintStepUpToken(minted + 1)
      BY <2>7, StepsOfStepUp DEF SecondFactor
    <3>3. now' \in Nat /\ now' >= now
      BY <3>2, <2>n
    <3>4. TicketsKept' /\ StreamsKept'
      BY <3>1, <3>2, <3>3, <2>i, TicketsStay
    <3>5. CASE UNCHANGED <<minted, tokens>>
      <4>1. GateTypeOK'
        BY <3>1, <3>2, <3>3, <3>5, <2>i DEF GateTypeOK
      <4>2. TokensKept' /\ TerminalsByBoth'
        BY <3>1, <3>2, <3>5, <2>i, TokensStay DEF TerminalsByBoth, Ours
      <4> QED  BY <4>1, <4>2, <3>4 DEF GateInv
    <3>6. CASE mintStepUpToken(minted + 1) /\ now' = now
      <4> DEFINE m == minted + 1
                 mark == [at |-> now, life |-> stepUpRestarts]
      <4>1. minted' = m /\ m \in Nat /\ m # minted
        BY <3>6, <2>i DEF mintStepUpToken, GateTypeOK
      <4>2. /\ DOMAIN tokens' = {u \in DOMAIN tokens : now < tokens[u]} \cup {m}
            /\ tokens'[m] = now + STEP_UP_TOKEN_TTL_MS
            /\ \A u \in DOMAIN tokens' \ {m} : tokens'[u] = tokens[u]
        BY <3>6 DEF mintStepUpToken, pruneExpiredStepUpTokens
      <4>3. earned' = Append(earned, mark)
        BY <3>1, <4>1
      <4>4. mark \in Exchanges
        BY <2>i DEF Exchanges, GateTypeOK
      <4>5. /\ earned' \in Seq(Exchanges) /\ Len(earned') = m /\ earned'[m] = mark
            /\ \A k \in 1 .. minted : earned'[k] = earned[k]
        BY <4>3, <4>4, <2>i DEF GateTypeOK
      <4>6. GateTypeOK'
        BY <3>1, <3>2, <3>3, <4>1, <4>5, <2>i DEF GateTypeOK
      <4>7. TokensKept'
        <5>1. DOMAIN tokens' \subseteq 1 .. minted'
          BY <4>1, <4>2, <2>i DEF TokensKept, GateTypeOK
        <5>2. ASSUME NEW t \in DOMAIN tokens'
              PROVE  tokens'[t] = earned'[t].at + STEP_UP_TOKEN_TTL_MS /\ earned'[t].life = stepUpRestarts'
          <6>1. CASE t = m
            BY <6>1, <4>2, <4>5, <3>2
          <6>2. CASE t # m
            BY <6>2, <4>2, <4>5, <3>2, <2>i DEF TokensKept
          <6> QED  BY <6>1, <6>2
        <5> QED  BY <5>1, <5>2 DEF TokensKept
      <4>8. TerminalsByBoth'
        <5>1. DOMAIN earned = 1 .. minted /\ DOMAIN earned' = 1 .. m
          BY <4>5, <2>i DEF GateTypeOK
        <5> QED  BY <5>1, <4>5, <3>1, <2>i DEF TerminalsByBoth, Ours, GateTypeOK
      <4> QED  BY <4>6, <4>7, <4>8, <3>4 DEF GateInv
    <3> QED  BY <3>2, <3>5, <3>6
  <2>8. CASE UNCHANGED <<stepUpVars, gateVars>>
    <3>1. GateTypeOK'
      BY <2>8, <2>i DEF GateTypeOK, stepUpVars, gateVars
    <3>2. TokensKept' /\ TerminalsByBoth'
      BY <2>8, <2>i, TokensStay DEF stepUpVars, gateVars, TerminalsByBoth, Ours
    <3>3. TicketsKept' /\ StreamsKept'
      BY <2>8, <2>i, <2>n, TicketsStay DEF stepUpVars, gateVars
    <3> QED  BY <3>1, <3>2, <3>3 DEF GateInv
  <2> QED
    BY <2>1, <2>2, <2>3, <2>4, <2>5, <2>6, <2>7, <2>8 DEF GateNext
<1> QED
  BY <1>1, <1>2, PTL DEF GateSpec

\* Every stream was opened by a young ticket of its own that was traded for a
\* reader's token, every young ticket opens one, and every terminal was opened
\* by the operator's token and a young one of the step-up.
THEOREM OpenedRight == GateSpec => []OpenedByRight
<1>1. ASSUME GateInv PROVE OpenedByRight
  <2>i. GateTypeOK /\ TicketsKept /\ StreamsKept /\ TerminalsByBoth
    BY <1>1 DEF GateInv
  <2>1. ASSUME NEW d \in doors, d.what = "stream"
        PROVE  /\ d.at < traded[d.by].at + TICKET_TTL_MS /\ d.life = traded[d.by].life
               /\ Ours(traded[d.by].token, traded[d.by].origin)
               /\ \E s \in traded[d.by].token.scopes : s.verb = "read"
               /\ \A e \in doors : e.what = "stream" /\ e.by = d.by => e = d
    <3>1. d.by \in 1 .. nonces /\ Young(d.by, d.at, d.life)
          /\ \A e \in doors : e.what = "stream" /\ e.by = d.by => e = d
      BY <2>1, <2>i DEF StreamsKept
    <3>2. Ours(traded[d.by].token, traded[d.by].origin) /\ grantsScope(traded[d.by].token.scopes, "read")
      BY <3>1, <2>i DEF TicketsKept
    <3>3. \E s \in traded[d.by].token.scopes : s.verb = "read"
      BY <3>2 DEF grantsScope
    <3> QED  BY <3>1, <3>2, <3>3 DEF Young
  <2>2. ASSUME NEW r \in turned
        PROVE  \/ r.at >= traded[r.by].at + TICKET_TTL_MS
               \/ r.life # traded[r.by].life
               \/ \E d \in doors : d.what = "stream" /\ d.by = r.by
    <3>1. r.at \in Nat /\ r.by \in 1 .. nonces /\ (~Young(r.by, r.at, r.life) \/ StreamBy(r.by))
      BY <2>i DEF StreamsKept
    <3>2. traded[r.by].at + TICKET_TTL_MS \in Nat
      BY <3>1, <2>i, TradesTyped, GateAssumption
    <3> QED  BY <3>1, <3>2 DEF Young, StreamBy
  <2> QED  BY <2>1, <2>2, <2>i DEF OpenedByRight, StreamsByTicket
<1> QED
  BY <1>1, GateIsKept, PTL

-----------------------------------------------------------------------------
(* Terminal: the relay of a terminal's output.                             *)

\* What induction over the natural numbers comes to for a set.
LEMMA AllNumbers ==
  ASSUME NEW S, 0 \in S, \A n \in Nat : n \in S => n + 1 \in S
  PROVE  Nat \subseteq S
<1> SUFFICES ASSUME NEW x \in Nat, x \notin S PROVE FALSE
  OBVIOUS
<1> DEFINE T == {y \in 0 .. x : y \notin S}
           U == T \ {x}
           f == [y \in T |-> y - 1]
<1>1. IsFiniteSet(T) /\ x \in T
  <2>1. IsFiniteSet(0 .. x)
    BY FS_Interval
  <2> QED  BY <2>1, FS_Subset
<1>2. IsFiniteSet(U) /\ Cardinality(U) = Cardinality(T) - 1 /\ Cardinality(T) \in Nat
  BY <1>1, FS_RemoveElement, FS_CardinalityType
<1>3. f \in [T -> U]
  <2> SUFFICES ASSUME NEW y \in T PROVE y - 1 \in U
    OBVIOUS
  <2>1. y \in 0 .. x /\ y \notin S /\ y # 0
    OBVIOUS
  <2>2. y - 1 \in Nat /\ y - 1 < x /\ (y - 1) + 1 = y
    BY <2>1
  <2>3. y - 1 \notin S
    BY <2>1, <2>2
  <2> QED  BY <2>2, <2>3
<1>4. PICK a \in T, b \in T : a # b /\ f[a] = f[b]
  <2>1. Cardinality(U) < Cardinality(T)
    BY <1>2
  <2> HIDE DEF T, U, f
  <2> QED  BY <1>1, <1>2, <1>3, <2>1, FS_PigeonHole
<1> QED  BY <1>4

LEMMA Least ==
  ASSUME NEW S \in SUBSET Nat, S # {}
  PROVE  \E i \in S : \A j \in S : i <= j
<1> SUFFICES ASSUME ~\E i \in S : \A j \in S : i <= j PROVE FALSE
  OBVIOUS
<1> DEFINE T == {n \in Nat : \A j \in S : n <= j}
<1>1. 0 \in T
  OBVIOUS
<1>2. ASSUME NEW n \in Nat, n \in T PROVE n + 1 \in T
  <2>1. n \notin S
    BY <1>2
  <2> QED  BY <1>2, <2>1
<1>3. Nat \subseteq T
  <2> HIDE DEF T
  <2> QED  BY <1>1, <1>2, AllNumbers
<1>4. PICK j : j \in S
  OBVIOUS
<1>5. j + 1 \in T
  BY <1>3, <1>4
<1> QED  BY <1>4, <1>5

\* Partial sums of the sizes of a list of chunks.
Sums(f, s) ==
  /\ f \in [0 .. Len(s) -> Nat] /\ f[0] = 0
  /\ \A i \in 1 .. Len(s) : f[i] = f[i - 1] + s[i].n

LEMMA SumsAre ==
  ASSUME NEW S, \A c \in S : c.n \in Nat, NEW s \in Seq(S)
  PROVE  \E f : Sums(f, s) /\ Amount(s) = f[Len(s)]
<1> DEFINE Step(f, i) == IF i = 0 THEN 0 ELSE f[i - 1] + s[i].n
           Fits(n, f) == f \in [0 .. n -> Nat] /\ \A i \in 0 .. n : f[i] = Step(f, i)
           Has(n) == \E f : Fits(n, f)
           H == {n \in Nat : n <= Len(s) => Has(n)}
<1>n. Len(s) \in Nat /\ \A i \in 1 .. Len(s) : s[i].n \in Nat
  OBVIOUS
<1>1. 0 \in H
  <2> DEFINE f == [i \in 0 .. 0 |-> 0]
  <2>1. Fits(0, f)
    OBVIOUS
  <2>2. Has(0)
    BY <2>1
  <2> HIDE DEF Has
  <2> QED  BY <2>2
<1>2. ASSUME NEW n \in Nat, n \in H, n + 1 <= Len(s) PROVE Has(n + 1)
  <2>0. Has(n)
    <3> HIDE DEF Has
    <3> QED  BY <1>2, <1>n
  <2>1. PICK f : Fits(n, f)
    BY <2>0
  <2> DEFINE g == [i \in 0 .. n + 1 |-> IF i <= n THEN f[i] ELSE Step(f, n + 1)]
  <2>2. Step(f, n + 1) \in Nat
    <3>1. f[n] \in Nat /\ s[n + 1].n \in Nat /\ n + 1 # 0 /\ (n + 1) - 1 = n
      BY <2>1, <1>2, <1>n
    <3> QED  BY <3>1
  <2>3. g \in [0 .. n + 1 -> Nat]
    BY <2>1, <2>2
  <2>4. ASSUME NEW i \in 0 .. n + 1 PROVE g[i] = Step(g, i)
    <3>1. CASE i = n + 1
      BY <3>1
    <3>2. CASE i \in 0 .. n
      <4>1. f[i] = Step(f, i)
        BY <2>1, <3>2
      <4>2. i # 0 => g[i - 1] = f[i - 1]
        BY <3>2
      <4>3. g[i] = f[i]
        BY <3>2
      <4> QED  BY <4>1, <4>2, <4>3
    <3> QED  BY <3>1, <3>2
  <2> HIDE DEF g, Step
  <2> QED  BY <2>3, <2>4
<1>3. Has(Len(s))
  <2> HIDE DEF Has
  <2>1. \A n \in Nat : n \in H => n + 1 \in H
    BY <1>2
  <2>2. Len(s) \in H
    <3> HIDE DEF H
    <3> QED  BY <1>1, <1>n, <2>1, AllNumbers
  <2> QED  BY <2>2
<1>4. PICK f : Fits(Len(s), f)
  BY <1>3
<1> DEFINE m == CHOOSE g : g = [i \in 0 .. Len(s) |-> Step(g, i)]
<1>5. m = [i \in 0 .. Len(s) |-> Step(m, i)]
  <2>1. f = [i \in 0 .. Len(s) |-> Step(f, i)]
    <3> HIDE DEF Step
    <3> QED  BY <1>4
  <2> HIDE DEF Step
  <2> QED  BY <2>1
<1> DEFINE L == {n \in Nat : n <= Len(s) => m[n] \in Nat}
<1> HIDE DEF m
<1>e. /\ DOMAIN m = 0 .. Len(s) /\ m[0] = 0
      /\ \A i \in 1 .. Len(s) : m[i] = m[i - 1] + s[i].n
  BY <1>5, <1>n
<1>6. 0 \in L
  BY <1>e
<1>7. ASSUME NEW n \in Nat, n \in L PROVE n + 1 \in L
  <2> SUFFICES ASSUME n + 1 <= Len(s) PROVE m[n + 1] \in Nat
    OBVIOUS
  <2>1. n + 1 \in 1 .. Len(s) /\ m[n] \in Nat /\ (n + 1) - 1 = n
    BY <1>7, <1>n
  <2> QED  BY <2>1, <1>e, <1>n
<1>8. \A i \in 0 .. Len(s) : m[i] \in Nat
  <2>1. Nat \subseteq L
    <3> HIDE DEF L
    <3> QED  BY <1>6, <1>7, AllNumbers
  <2> QED  BY <2>1, <1>n
<1>9. Amount(s) = m[Len(s)]
  BY DEF Amount, m
<1>10. m \in [0 .. Len(s) -> Nat]
  <2>1. m = [i \in 0 .. Len(s) |-> m[i]]
    BY <1>5
  <2> QED  BY <2>1, <1>8
<1> QED  BY <1>e, <1>9, <1>10 DEF Sums

\* The sums of a part of a list are those of the list, less what is before it.
LEMMA PartSums ==
  ASSUME NEW s, NEW t, NEW f, NEW g, Sums(f, s), Sums(g, t), Len(s) \in Nat, Len(t) \in Nat,
         \A i \in 1 .. Len(s) : s[i].n \in Nat,
         NEW k \in Nat, k + Len(t) <= Len(s), \A i \in 1 .. Len(t) : t[i] = s[k + i]
  PROVE  f[k + Len(t)] = f[k] + g[Len(t)]
<1> DEFINE H == {n \in Nat : n <= Len(t) => f[k + n] = f[k] + g[n]}
<1>1. 0 \in H
  BY DEF Sums
<1>2. ASSUME NEW n \in Nat, n \in H PROVE n + 1 \in H
  <2> SUFFICES ASSUME n + 1 <= Len(t) PROVE f[k + (n + 1)] = f[k] + g[n + 1]
    OBVIOUS
  <2>1. /\ n + 1 \in 1 .. Len(t) /\ k + (n + 1) \in 1 .. Len(s) /\ (n + 1) - 1 = n
        /\ (k + (n + 1)) - 1 = k + n /\ n \in 0 .. Len(t) /\ k \in 0 .. Len(s)
    OBVIOUS
  <2>2. f[k + n] = f[k] + g[n] /\ t[n + 1] = s[k + (n + 1)]
    BY <1>2, <2>1
  <2>3. g[n + 1] = g[n] + t[n + 1].n /\ f[k + (n + 1)] = f[k + n] + s[k + (n + 1)].n
    BY <2>1 DEF Sums
  <2>4. f[k] \in Nat /\ g[n] \in Nat /\ s[k + (n + 1)].n \in Nat
    BY <2>1 DEF Sums
  <2> QED  BY <2>2, <2>3, <2>4
<1>3. Nat \subseteq H
  <2> HIDE DEF H
  <2> QED  BY <1>1, <1>2, AllNumbers
<1> QED  BY <1>3

LEMMA AmountOfEnd ==
  ASSUME NEW S, \A c \in S : c.n \in Nat, NEW s \in Seq(S), NEW t \in Seq(S),
         NEW k \in Nat, k + Len(t) = Len(s), \A i \in 1 .. Len(t) : t[i] = s[k + i]
  PROVE  Amount(t) <= Amount(s)
<1>1. PICK f : Sums(f, s) /\ Amount(s) = f[Len(s)]
  BY SumsAre
<1>2. PICK g : Sums(g, t) /\ Amount(t) = g[Len(t)]
  BY SumsAre
<1>3. /\ Len(s) \in Nat /\ Len(t) \in Nat /\ \A i \in 1 .. Len(s) : s[i].n \in Nat
      /\ k + Len(t) <= Len(s) /\ k \in 0 .. Len(s) /\ Len(t) \in 0 .. Len(t)
  OBVIOUS
<1>4. f[k + Len(t)] = f[k] + g[Len(t)]
  BY <1>1, <1>2, <1>3, PartSums
<1>5. f[k] \in Nat /\ g[Len(t)] \in Nat /\ f[Len(s)] = f[k] + g[Len(t)]
  BY <1>1, <1>2, <1>3, <1>4 DEF Sums
<1> QED  BY <1>1, <1>2, <1>5

LEMMA AmountIsNat ==
  ASSUME NEW S, \A c \in S : c.n \in Nat, NEW s \in Seq(S)
  PROVE  Amount(s) \in Nat /\ (s = <<>> => Amount(s) = 0)
<1>1. PICK f : Sums(f, s) /\ Amount(s) = f[Len(s)]
  BY SumsAre
<1>2. Len(s) \in Nat /\ (s = <<>> => Len(s) = 0)
  OBVIOUS
<1> QED  BY <1>1, <1>2 DEF Sums

LEMMA AmountOfOneMore ==
  ASSUME NEW S, \A c \in S : c.n \in Nat, NEW s \in Seq(S), NEW t \in Seq(S), NEW c \in S,
         Len(t) = Len(s) + 1, \A i \in 1 .. Len(s) : t[i] = s[i], t[Len(t)] = c
  PROVE  Amount(t) = Amount(s) + c.n
<1>1. PICK f : Sums(f, s) /\ Amount(s) = f[Len(s)]
  BY SumsAre
<1>2. PICK g : Sums(g, t) /\ Amount(t) = g[Len(t)]
  BY SumsAre
<1>3. /\ Len(s) \in Nat /\ Len(t) \in Nat /\ \A i \in 1 .. Len(t) : t[i].n \in Nat
      /\ 0 + Len(s) <= Len(t) /\ \A i \in 1 .. Len(s) : s[i] = t[0 + i]
  OBVIOUS
<1>4. g[0 + Len(s)] = g[0] + f[Len(s)]
  BY <1>1, <1>2, <1>3, PartSums
<1>5. g[0] = 0 /\ g[Len(s)] \in Nat /\ f[Len(s)] \in Nat /\ g[Len(t)] = g[Len(s)] + t[Len(t)].n
  <2>1. Len(s) \in 0 .. Len(t) /\ Len(t) \in 1 .. Len(t) /\ Len(t) - 1 = Len(s)
    BY <1>3
  <2> QED  BY <1>1, <1>2, <1>3, <2>1 DEF Sums
<1> QED  BY <1>1, <1>2, <1>3, <1>4, <1>5

\* What flushQueue sends: with all but the last chunk sent the buffer is below
\* the mark, and with the last it has reached it, unless the queue is empty.
LEMMA FlushedIs ==
  ASSUME NEW S, \A c \in S : c.n \in Nat, NEW b \in Seq(S), NEW q \in Seq(S)
  PROVE  /\ Flushed(b, q) \in 0 .. Len(q)
         /\ Flushed(b, q) < Len(q) => Amount(b \o SubSeq(q, 1, Flushed(b, q))) >= pauseAt
         /\ \A i \in 0 .. Flushed(b, q) - 1 : Amount(b \o SubSeq(q, 1, i)) < pauseAt
<1> DEFINE A(k) == Amount(b \o SubSeq(q, 1, k))
           T == {k \in 0 .. Len(q) : k < Len(q) => A(k) >= pauseAt}
<1>1. Len(q) \in T /\ T \in SUBSET Nat
  OBVIOUS
<1>2. PICK k \in T : \A j \in T : k <= j
  <2> HIDE DEF T
  <2> QED  BY <1>1, Least
<1>3. \A i \in 0 .. k - 1 : A(i) < pauseAt
  <2> SUFFICES ASSUME NEW i \in 0 .. k - 1 PROVE A(i) < pauseAt
    OBVIOUS
  <2>1. i \in 0 .. Len(q) /\ i < k /\ i < Len(q)
    BY <1>2
  <2>2. ~(A(i) >= pauseAt)
    BY <1>2, <2>1
  <2>3. A(i) \in Nat
    <3>1. b \o SubSeq(q, 1, i) \in Seq(S)
      BY <2>1
    <3> QED  BY <3>1, AmountIsNat
  <2>4. pauseAt \in Nat
    BY TerminalAssumption DEF pauseAt
  <2> QED  BY <2>2, <2>3, <2>4
<1> DEFINE Ok(j) == (j < Len(q) => A(j) >= pauseAt) /\ \A i \in 0 .. j - 1 : A(i) < pauseAt
<1>4. Flushed(b, q) = CHOOSE j \in 0 .. Len(q) : Ok(j)
  BY DEF Flushed
<1>5. k \in 0 .. Len(q) /\ Ok(k)
  BY <1>2, <1>3
<1> QED
  <2>1. Flushed(b, q) \in 0 .. Len(q) /\ Ok(Flushed(b, q))
    <3> HIDE DEF Ok
    <3> QED  BY <1>4, <1>5
  <2> QED  BY <2>1

Chunk == [id : Nat, n : Sizes]

TermTyped ==
  /\ socket \in {"open", "closing", "shut"} /\ viewer \in {"none", "attached", "gone"}
  /\ buffer \in Seq(Chunk) /\ queue \in Seq(Chunk)
  /\ shown \in Seq(Nat) /\ given \in Nat
  /\ {due, paused, torn} \subseteq BOOLEAN

\* What the pty gave is shown, buffered or queued, in order.
Counted(s) == \A i \in 1 .. Len(s) : s[i] = i
From(s, k) == \A i \in 1 .. Len(s) : s[i].id = k + i
Numbered ==
  /\ Counted(shown) /\ From(buffer, Len(shown)) /\ From(queue, Len(shown) + Len(buffer))
  /\ Len(shown) + Len(buffer) + Len(queue) = given

\* Only a paused terminal queues, and one that is not paused is below the mark.
Paced ==
  /\ ~paused => queue = <<>>
  /\ Live /\ ~paused => Amount(buffer) < pauseAt
  /\ viewer = "none" => buffer = <<>> /\ queue = <<>> /\ ~paused

FlowInv == TermTyped /\ Numbered /\ Paced /\ BelowTheCap /\ NeverStalls /\ ViewerReleased

\* Sums and marks.
LEMMA Marks ==
  /\ pauseAt \in Nat /\ resumeAt \in Nat /\ 0 < resumeAt /\ resumeAt < pauseAt /\ pauseAt <= HUB_WS_CAP_BYTES
  /\ HUB_WS_CAP_BYTES \in Nat /\ MAX_QUEUE_BYTES \in Nat /\ 0 < HUB_WS_CAP_BYTES
  /\ \A n \in Sizes : n \in Nat /\ pauseAt + n <= HUB_WS_CAP_BYTES
BY TerminalAssumption DEF pauseAt, resumeAt

LEMMA ChunkSizes == \A c \in Chunk : c.n \in Nat
BY Marks DEF Chunk

LEMMA IdsAre ==
  ASSUME NEW s \in Seq(Chunk)
  PROVE  /\ Ids(s) \in Seq(Nat) /\ Len(Ids(s)) = Len(s) /\ Len(s) \in Nat
         /\ \A i \in 1 .. Len(s) : Ids(s)[i] = s[i].id
<1>1. Len(s) \in Nat /\ DOMAIN s = 1 .. Len(s) /\ \A i \in 1 .. Len(s) : s[i] \in Chunk
  BY LenProperties, ElementOfSeq
<1>2. Ids(s) = [i \in 1 .. Len(s) |-> s[i].id]
  BY <1>1 DEF Ids
<1>3. \A i \in 1 .. Len(s) : s[i].id \in Nat
  BY <1>1 DEF Chunk
<1>4. Ids(s) \in [1 .. Len(s) -> Nat]
  BY <1>2, <1>3
<1>5. Ids(s) \in Seq(Nat)
  BY <1>1, <1>4, SeqDef
<1>6. DOMAIN Ids(s) = 1 .. Len(Ids(s)) /\ Len(Ids(s)) \in Nat
  BY <1>5, LenProperties
<1> QED  BY <1>1, <1>2, <1>4, <1>5, <1>6

\* Lists that go on from one another are one list.
CountsFrom(s, k) == \A i \in 1 .. Len(s) : s[i] = k + i
Joined(a, b, c, n) == a \o b \o c = [i \in 1 .. n |-> i]
LEMMA CountedOn ==
  ASSUME NEW a \in Seq(Nat), NEW b \in Seq(Nat), NEW c \in Seq(Nat),
         CountsFrom(a, 0), CountsFrom(b, Len(a)), CountsFrom(c, Len(a) + Len(b)),
         NEW n, n = Len(a) + Len(b) + Len(c)
  PROVE  Joined(a, b, c, n)
<1>c. /\ \A i \in 1 .. Len(a) : a[i] = i
      /\ \A i \in 1 .. Len(b) : b[i] = Len(a) + i
      /\ \A i \in 1 .. Len(c) : c[i] = Len(a) + Len(b) + i
  BY DEF CountsFrom
<1>0. Len(a) \in Nat /\ Len(b) \in Nat /\ Len(c) \in Nat /\ n \in Nat
  OBVIOUS
<1>1. /\ a \o b \in Seq(Nat) /\ Len(a \o b) = Len(a) + Len(b)
      /\ \A i \in 1 .. Len(a) + Len(b) : (a \o b)[i] = i
  BY <1>0, <1>c, ConcatProperties
<1>2. /\ a \o b \o c \in Seq(Nat) /\ Len(a \o b \o c) = n
      /\ \A i \in 1 .. n : (a \o b \o c)[i] = IF i <= Len(a) + Len(b) THEN (a \o b)[i] ELSE c[i - (Len(a) + Len(b))]
  BY <1>1, ConcatProperties
<1>3. ASSUME NEW i \in 1 .. n PROVE (a \o b \o c)[i] = i
  <2>1. CASE i <= Len(a) + Len(b)
    BY <1>0, <1>1, <1>2, <2>1
  <2>2. CASE i > Len(a) + Len(b)
    <3>1. i - (Len(a) + Len(b)) \in 1 .. Len(c)
      BY <1>0, <2>2
    <3> QED  BY <1>0, <1>c, <1>2, <2>2, <3>1
  <2> QED  BY <1>0, <2>1, <2>2
<1>4. ASSUME NEW x \in Seq(Nat), Len(x) = n, \A i \in 1 .. n : x[i] = i
      PROVE  x = [i \in 1 .. n |-> i]
  <2>1. x \in [1 .. n -> Nat]
    BY <1>4, LenProperties
  <2> QED  BY <1>4, <2>1
<1>5. a \o b \o c = [i \in 1 .. n |-> i]
  BY <1>2, <1>3, <1>4
<1> QED  BY <1>5 DEF Joined

LEMMA InOrderMeans ==
  ASSUME TermTyped, Numbered
  PROVE  OutputInOrder
<1>1. /\ Len(shown) \in Nat /\ DOMAIN shown = 1 .. Len(shown) /\ shown \in Seq(Nat)
      /\ Ids(buffer) \in Seq(Nat) /\ Len(Ids(buffer)) = Len(buffer)
      /\ \A i \in 1 .. Len(buffer) : Ids(buffer)[i] = buffer[i].id
      /\ Ids(queue) \in Seq(Nat) /\ Len(Ids(queue)) = Len(queue)
      /\ \A i \in 1 .. Len(queue) : Ids(queue)[i] = queue[i].id
  BY IdsAre, LenProperties DEF TermTyped
<1>2. /\ \A i \in 1 .. Len(Ids(buffer)) : Ids(buffer)[i] = Len(shown) + i
      /\ \A i \in 1 .. Len(Ids(queue)) : Ids(queue)[i] = Len(shown) + Len(Ids(buffer)) + i
  BY <1>1 DEF Numbered, From
<1>3. shown \o Ids(buffer) \o Ids(queue) = [i \in 1 .. given |-> i]
  <2> PICK a, b, c : a = shown /\ b = Ids(buffer) /\ c = Ids(queue)
    OBVIOUS
  <2>1. given = Len(a) + Len(b) + Len(c)
    BY <1>1 DEF Numbered
  <2>2. a \in Seq(Nat) /\ b \in Seq(Nat) /\ c \in Seq(Nat)
    BY <1>1
  <2>3. CountsFrom(a, 0)
    BY <1>1 DEF Numbered, Counted, CountsFrom
  <2>4. CountsFrom(b, Len(a)) /\ CountsFrom(c, Len(a) + Len(b))
    BY <1>2 DEF CountsFrom
  <2>5. Joined(a, b, c, given)
    BY <2>1, <2>2, <2>3, <2>4, CountedOn
  <2> QED  BY <2>5 DEF Joined
<1> QED  BY <1>1, <1>3 DEF OutputInOrder, Numbered, Counted

LEMMA FlowBegins == TerminalInit => FlowInv
<1> SUFFICES ASSUME TerminalInit PROVE FlowInv
  OBVIOUS
<1>1. <<>> \in Seq(Chunk) /\ <<>> \in Seq(Nat) /\ Len(<<>>) = 0
  OBVIOUS
<1>2. Amount(<<>>) = 0
  BY <1>1, ChunkSizes, AmountIsNat
<1>3. TermTyped
  <2>1. 0 \in Nat /\ {FALSE} \subseteq BOOLEAN
    OBVIOUS
  <2> QED  BY <1>1, <2>1 DEF TerminalInit, TermTyped
<1>4. Numbered
  BY <1>1 DEF TerminalInit, Numbered, Counted, From
<1> QED
  BY <1>2, <1>3, <1>4, Marks DEF TerminalInit, FlowInv, Paced, BelowTheCap, NeverStalls, ViewerReleased, Live

\* A step of the viewer, the page or the socket that moves no chunk.
LEMMA NoChunkMoves ==
  ASSUME FlowInv, UNCHANGED <<buffer, queue, paused, given, shown>>,
         due' \in BOOLEAN, torn' \in BOOLEAN, socket' \in {"open", "closing", "shut"},
         viewer' \in {"none", "attached", "gone"},
         Live' => (Live \/ viewer = "none") /\ (due' = due),
         viewer' = "none" => viewer = "none",
         socket' = "shut" => viewer' # "attached"
  PROVE  FlowInv'
<1>1. TermTyped' /\ Numbered' /\ ViewerReleased'
  BY DEF FlowInv, TermTyped, Numbered, ViewerReleased
<1>2. Amount(<<>>) = 0
  <2>1. <<>> \in Seq(Chunk)
    OBVIOUS
  <2> QED  BY <2>1, ChunkSizes, AmountIsNat
<1>3. Paced' /\ BelowTheCap' /\ NeverStalls'
  BY <1>2, Marks DEF FlowInv, Paced, BelowTheCap, NeverStalls
<1> QED  BY <1>1, <1>3 DEF FlowInv

\* A list and one more.
LEMMA OneMoreChunk ==
  ASSUME NEW s \in Seq(Chunk), NEW c \in Chunk, NEW t, t = Append(s, c)
  PROVE  t \in Seq(Chunk) /\ Len(t) = Len(s) + 1 /\ t # <<>>
OBVIOUS

LEMMA AmountAdds ==
  ASSUME NEW s \in Seq(Chunk), NEW c \in Chunk, NEW t, t = Append(s, c)
  PROVE  Amount(t) = Amount(s) + c.n
<1>1. t \in Seq(Chunk) /\ Len(t) = Len(s) + 1 /\ t[Len(t)] = c /\ \A i \in 1 .. Len(s) : t[i] = s[i]
  OBVIOUS
<1> QED  BY <1>1, ChunkSizes, AmountOfOneMore

LEMMA AppendCounts ==
  ASSUME NEW s \in Seq(Nat), Counted(s), NEW t, t = Append(s, Len(s) + 1)
  PROVE  t \in Seq(Nat) /\ Len(t) = Len(s) + 1 /\ Counted(t) /\ Len(s) \in Nat
<1>1. t \in Seq(Nat) /\ Len(t) = Len(s) + 1 /\ Len(s) \in Nat /\ t[Len(t)] = Len(t)
  OBVIOUS
<1>2. \A i \in 1 .. Len(s) : t[i] = i
  BY DEF Counted
<1>3. \A i \in 1 .. Len(t) : i = Len(t) \/ i \in 1 .. Len(s)
  BY <1>1
<1> QED  BY <1>1, <1>2, <1>3 DEF Counted

LEMMA AppendGoesOn ==
  ASSUME NEW s \in Seq(Chunk), NEW k \in Nat, From(s, k), NEW c \in Chunk, c.id = k + Len(s) + 1, NEW t, t = Append(s, c)
  PROVE  From(t, k)
<1>1. Len(t) = Len(s) + 1 /\ Len(s) \in Nat /\ t[Len(t)] = c
  OBVIOUS
<1>2. \A i \in 1 .. Len(s) : t[i].id = k + i
  BY DEF From
<1>3. \A i \in 1 .. Len(t) : i = Len(t) \/ i \in 1 .. Len(s)
  BY <1>1
<1>4. c.id = k + Len(t)
  BY <1>1
<1> QED  BY <1>1, <1>2, <1>3, <1>4 DEF From

LEMMA TailGoesOn ==
  ASSUME NEW s \in Seq(Chunk), s # <<>>, NEW k \in Nat, From(s, k), NEW t, t = Tail(s)
  PROVE  /\ Head(s).id = k + 1 /\ From(t, k + 1) /\ t \in Seq(Chunk) /\ 1 + Len(t) = Len(s) /\ Len(t) \in Nat
         /\ Amount(t) <= Amount(s) /\ Amount(s) \in Nat /\ Amount(t) \in Nat
<1>1. /\ t \in Seq(Chunk) /\ 1 + Len(t) = Len(s) /\ Len(t) \in Nat /\ Len(s) \in Nat
      /\ Head(s) = s[1] /\ \A i \in 1 .. Len(t) : t[i] = s[1 + i]
  BY HeadTailProperties, LenProperties
<1>2. s[1].id = k + 1
  BY <1>1 DEF From
<1>3. ASSUME NEW i \in 1 .. Len(t) PROVE t[i].id = (k + 1) + i
  <2>1. 1 + i \in 1 .. Len(s) /\ k + (1 + i) = (k + 1) + i
    BY <1>1
  <2> QED  BY <1>1, <2>1 DEF From
<1>4. Amount(t) <= Amount(s)
  BY <1>1, ChunkSizes, AmountOfEnd
<1>5. Amount(s) \in Nat /\ Amount(t) \in Nat
  BY <1>1, ChunkSizes, AmountIsNat
<1> QED  BY <1>1, <1>2, <1>3, <1>4, <1>5 DEF From

LEMMA OutputFlows ==
  ASSUME FlowInv, NEW n \in Sizes, Output(n)
  PROVE  FlowInv'
<1> PICK c : c = [id |-> given + 1, n |-> n]
  OBVIOUS
<1>t. TermTyped /\ Numbered
  BY DEF FlowInv
<1>b. buffer \in Seq(Chunk) /\ queue \in Seq(Chunk) /\ shown \in Seq(Nat)
  BY <1>t DEF TermTyped
<1>n. Len(shown) \in Nat /\ Len(buffer) \in Nat /\ Len(queue) \in Nat /\ Len(shown) + Len(buffer) \in Nat
  BY <1>b, LenProperties
<1>g. given \in Nat /\ given = Len(shown) + Len(buffer) + Len(queue)
  BY <1>t DEF TermTyped, Numbered
<1>c. c \in Chunk
  BY <1>g DEF Chunk
<1>d. c.n = n /\ c.id = given + 1
  OBVIOUS
<1>o. /\ Live /\ given' = given + 1 /\ due' = due
      /\ IF paused
          THEN /\ queue' = Append(queue, c) /\ UNCHANGED <<buffer, shown, paused>>
               /\ IF Amount(queue') > MAX_QUEUE_BYTES THEN Teardown ELSE UNCHANGED <<torn, viewer, socket>>
          ELSE /\ Forwarded(c) /\ paused' = (Amount(buffer') >= pauseAt)
               /\ UNCHANGED <<queue, torn, viewer, socket>>
  BY DEF Output
<1>s. /\ socket' \in {"open", "closing", "shut"} /\ viewer' \in {"attached", "gone"}
      /\ torn' \in BOOLEAN /\ paused' \in BOOLEAN /\ due' \in BOOLEAN /\ ViewerReleased'
  <2>1. viewer = "attached" /\ socket # "shut" /\ ~torn
    BY <1>o DEF Live, FlowInv, ViewerReleased
  <2>2. paused' \in BOOLEAN
    <3>1. CASE paused
      BY <1>o, <1>t, <3>1 DEF TermTyped
    <3>2. CASE ~paused
      BY <1>o, <3>2
    <3> QED  BY <3>1, <3>2
  <2>3. Teardown \/ UNCHANGED <<torn, viewer, socket>>
    BY <1>o
  <2> QED  BY <1>o, <1>t, <2>1, <2>2, <2>3 DEF Teardown, TermTyped, ViewerReleased
<1>a. Amount(<<>>) = 0 /\ Amount(buffer) \in Nat /\ Amount(queue) \in Nat
  <2>1. <<>> \in Seq(Chunk)
    OBVIOUS
  <2> QED  BY <1>b, <2>1, ChunkSizes, AmountIsNat
<1>1. CASE paused
  <2>1. /\ queue' = Append(queue, c) /\ UNCHANGED <<buffer, shown, paused>>
        /\ Amount(queue') > MAX_QUEUE_BYTES => ~Live'
    BY <1>1, <1>o DEF Teardown, Live
  <2>2. /\ queue' \in Seq(Chunk) /\ Len(queue') = Len(queue) + 1
        /\ Amount(queue') = Amount(queue) + c.n
    <3> PICK t : t = queue'
      OBVIOUS
    <3>1. t = Append(queue, c)
      BY <2>1
    <3>2. t \in Seq(Chunk) /\ Len(t) = Len(queue) + 1
      BY <1>b, <1>c, <3>1, OneMoreChunk
    <3>3. Amount(t) = Amount(queue) + c.n
      BY <1>b, <1>c, <3>1, AmountAdds
    <3> QED  BY <3>2, <3>3
  <2>3. TermTyped'
    BY <1>t, <1>o, <1>s, <2>1, <2>2 DEF TermTyped
  <2>4. Numbered'
    <3>1. From(queue', Len(shown) + Len(buffer))
      <4>1. c.id = (Len(shown) + Len(buffer)) + Len(queue) + 1
        BY <1>g, <1>d
      <4>2. From(queue, Len(shown) + Len(buffer))
        BY <1>t DEF Numbered
      <4> QED  BY <1>b, <1>n, <1>c, <2>1, <4>1, <4>2, AppendGoesOn
    <3>2. Len(shown') + Len(buffer') + Len(queue') = given'
      BY <1>n, <1>g, <1>o, <2>1, <2>2
    <3> QED  BY <1>t, <2>1, <3>1, <3>2 DEF Numbered
  <2>5. Amount(queue') \in Nat
    BY <1>a, <1>d, <2>2, Marks
  <2>6. Paced' /\ BelowTheCap' /\ NeverStalls'
    BY <1>1, <1>o, <1>s, <2>1, <2>5, Marks DEF FlowInv, Paced, BelowTheCap, NeverStalls
  <2> QED  BY <1>s, <2>3, <2>4, <2>6 DEF FlowInv
<1>2. CASE ~paused
  <2>0. queue = <<>> /\ Len(queue) = 0 /\ Amount(buffer) < pauseAt
    BY <1>2, <1>o DEF FlowInv, Paced
  <2>1. /\ \/ buffer' = Append(buffer, c) /\ shown' = shown
           \/ buffer = <<>> /\ shown' = Append(shown, c.id) /\ buffer' = buffer
        /\ paused' = (Amount(buffer') >= pauseAt) /\ UNCHANGED <<queue, torn, viewer, socket>>
    BY <1>2, <1>o DEF Forwarded
  <2>2. CASE buffer' = Append(buffer, c) /\ shown' = shown
    <3>1. /\ buffer' \in Seq(Chunk) /\ Len(buffer') = Len(buffer) + 1
          /\ buffer' # <<>> /\ Amount(buffer') = Amount(buffer) + c.n
      <4> PICK t : t = buffer'
        OBVIOUS
      <4>1. t = Append(buffer, c)
        BY <2>2
      <4>2. t \in Seq(Chunk) /\ Len(t) = Len(buffer) + 1 /\ t # <<>>
        BY <1>b, <1>c, <4>1, OneMoreChunk
      <4>3. Amount(t) = Amount(buffer) + c.n
        BY <1>b, <1>c, <4>1, AmountAdds
      <4> QED  BY <4>2, <4>3
    <3>2. TermTyped'
      BY <1>t, <1>o, <1>s, <2>1, <2>2, <3>1 DEF TermTyped
    <3>3. Numbered'
      <4>1. c.id = Len(shown) + Len(buffer) + 1
        BY <1>n, <1>g, <1>d, <2>0
      <4>2. From(buffer', Len(shown))
        <5>1. From(buffer, Len(shown))
          BY <1>t DEF Numbered
        <5> QED  BY <1>b, <1>n, <1>c, <2>2, <4>1, <5>1, AppendGoesOn
      <4>3. queue' = <<>> /\ Len(queue') = 0 /\ From(queue', Len(shown') + Len(buffer'))
        BY <2>0, <2>1 DEF From
      <4>4. Len(shown') + Len(buffer') + Len(queue') = given'
        BY <1>n, <1>g, <1>o, <2>0, <2>2, <3>1, <4>3
      <4> QED  BY <1>t, <2>2, <4>2, <4>3, <4>4 DEF Numbered
    <3>4. Amount(buffer') \in Nat /\ Amount(buffer') < HUB_WS_CAP_BYTES
      BY <1>a, <1>d, <2>0, <3>1, Marks
    <3>5. Paced'
      <4>1. ASSUME ~paused' PROVE Amount(buffer') < pauseAt
        <5>1. ~(Amount(buffer') >= pauseAt)
          BY <2>1, <4>1, Zenon
        <5> QED  BY <5>1, <3>4, Marks
      <4>2. pauseAt' = pauseAt
        BY DEF pauseAt
      <4> QED  BY <1>s, <2>0, <2>1, <4>1, <4>2 DEF Paced
    <3>6. BelowTheCap'
      BY <1>a, <2>0, <2>1, <3>4, Marks DEF BelowTheCap
    <3>7. NeverStalls'
      BY <3>1 DEF NeverStalls
    <3> QED  BY <1>s, <3>2, <3>3, <3>5, <3>6, <3>7 DEF FlowInv
  <2>3. CASE buffer = <<>> /\ shown' = Append(shown, c.id) /\ buffer' = buffer
    <3>0. Len(buffer) = 0 /\ Len(buffer') = 0 /\ Len(queue') = 0 /\ c.id = Len(shown) + 1
      BY <1>n, <1>g, <1>d, <2>0, <2>1, <2>3
    <3>1. shown' \in Seq(Nat) /\ Len(shown') = Len(shown) + 1 /\ Counted(shown')
      <4>1. Counted(shown)
        BY <1>t DEF Numbered
      <4> QED  BY <1>b, <2>3, <3>0, <4>1, AppendCounts
    <3>2. TermTyped'
      BY <1>t, <1>o, <1>s, <2>1, <2>3, <3>1 DEF TermTyped
    <3>3. Numbered'
      <4>1. From(buffer', Len(shown')) /\ From(queue', Len(shown') + Len(buffer'))
        BY <3>0 DEF From
      <4>2. Len(shown') + Len(buffer') + Len(queue') = given'
        BY <1>n, <1>d, <1>o, <3>0, <3>1
      <4> QED  BY <3>1, <4>1, <4>2 DEF Numbered
    <3>4. Paced' /\ BelowTheCap' /\ NeverStalls'
      BY <1>a, <1>s, <2>0, <2>1, <2>3, Marks DEF FlowInv, Paced, BelowTheCap, NeverStalls, Live
    <3> QED  BY <1>s, <3>2, <3>3, <3>4 DEF FlowInv
  <2> QED  BY <2>1, <2>2, <2>3
<1> QED  BY <1>1, <1>2

LEMMA LeavesFlows ==
  ASSUME FlowInv, Leaves
  PROVE  FlowInv'
<1>t. TermTyped /\ Numbered
  BY DEF FlowInv
<1>b. buffer \in Seq(Chunk) /\ queue \in Seq(Chunk) /\ shown \in Seq(Nat)
  BY <1>t DEF TermTyped
<1>n. Len(shown) \in Nat /\ Len(buffer) \in Nat /\ Len(queue) \in Nat /\ Len(shown) + Len(buffer) \in Nat
  BY <1>b, LenProperties
<1>g. given \in Nat /\ given = Len(shown) + Len(buffer) + Len(queue)
  BY <1>t DEF TermTyped, Numbered
<1>1. /\ buffer # <<>> /\ shown' = Append(shown, Head(buffer).id) /\ buffer' = Tail(buffer) /\ due' = TRUE
      /\ UNCHANGED <<socket, viewer, queue, paused, torn, given>>
  BY DEF Leaves
<1>2. /\ buffer' \in Seq(Chunk) /\ 1 + Len(buffer') = Len(buffer) /\ Len(buffer') \in Nat
      /\ Head(buffer).id = Len(shown) + 1 /\ From(buffer', Len(shown) + 1)
      /\ Amount(buffer') <= Amount(buffer) /\ Amount(buffer) \in Nat /\ Amount(buffer') \in Nat
  <2>1. From(buffer, Len(shown))
    BY <1>t DEF Numbered
  <2> QED  BY <1>b, <1>n, <1>1, <2>1, TailGoesOn
<1>3. shown' \in Seq(Nat) /\ Len(shown') = Len(shown) + 1 /\ Counted(shown')
  <2>1. Counted(shown) /\ shown' = Append(shown, Len(shown) + 1)
    BY <1>t, <1>1, <1>2 DEF Numbered
  <2> QED  BY <1>b, <2>1, AppendCounts
<1>4. TermTyped'
  BY <1>t, <1>1, <1>2, <1>3 DEF TermTyped
<1>5. Numbered'
  <2>1. Len(shown') + Len(buffer') = Len(shown) + Len(buffer)
    <3>1. 1 + Len(buffer') = Len(buffer) /\ Len(buffer') \in Nat /\ Len(shown') = Len(shown) + 1
      BY <1>2, <1>3
    <3> QED  BY <1>n, <3>1
  <2> QED  BY <1>t, <1>1, <1>2, <1>3, <2>1 DEF Numbered
<1>6. Paced' /\ BelowTheCap' /\ NeverStalls' /\ ViewerReleased'
  BY <1>1, <1>2, Marks DEF FlowInv, Paced, BelowTheCap, NeverStalls, ViewerReleased, Live
<1> QED  BY <1>4, <1>5, <1>6 DEF FlowInv

\* The end of a list, and its beginning.
LEMMA RestOf ==
  ASSUME NEW s \in Seq(Chunk), NEW j \in 0 .. Len(s), NEW t, t = SubSeq(s, j + 1, Len(s))
  PROVE  /\ t \in Seq(Chunk) /\ j + Len(t) = Len(s) /\ Len(t) \in Nat /\ j \in Nat
         /\ \A i \in 1 .. Len(t) : t[i] = s[j + i]
<1>1. Len(s) \in Nat /\ j \in Nat /\ j <= Len(s)
  BY LenProperties
<1>2. t \in Seq(Chunk)
  BY <1>1, SubSeqProperties
<1>3. Len(t) = Len(s) - j
  <2>1. CASE j = Len(s)
    BY <1>1, <2>1, SubSeqProperties
  <2>2. CASE j < Len(s)
    BY <1>1, <2>2, SubSeqProperties
  <2> QED  BY <1>1, <2>1, <2>2
<1>4. \A i \in 1 .. Len(t) : t[i] = s[j + i]
  BY <1>1, <1>3, SubSeqProperties
<1>5. j + Len(t) = Len(s) /\ Len(t) \in Nat
  BY <1>1, <1>3
<1>6. /\ t \in Seq(Chunk) /\ j + Len(t) = Len(s) /\ Len(t) \in Nat /\ j \in Nat
  BY <1>1, <1>2, <1>5
<1> QED  BY <1>4, <1>6

LEMMA AmountOfTheEnd ==
  ASSUME NEW s \in Seq(Chunk), NEW j \in 0 .. Len(s), NEW t, t = SubSeq(s, j + 1, Len(s))
  PROVE  Amount(t) <= Amount(s) /\ Amount(t) \in Nat /\ Amount(s) \in Nat
<1>1. t \in Seq(Chunk) /\ j + Len(t) = Len(s) /\ j \in Nat /\ \A i \in 1 .. Len(t) : t[i] = s[j + i]
  BY RestOf
<1> QED  BY <1>1, ChunkSizes, AmountOfEnd, AmountIsNat

LEMMA EndGoesOn ==
  ASSUME NEW s \in Seq(Chunk), NEW j \in 0 .. Len(s), NEW t, t = SubSeq(s, j + 1, Len(s)),
         NEW k \in Nat, From(s, k), NEW m, m = k + j
  PROVE  From(t, m)
<1>1. /\ t \in Seq(Chunk) /\ j + Len(t) = Len(s) /\ Len(t) \in Nat /\ j \in Nat
      /\ \A i \in 1 .. Len(t) : t[i] = s[j + i]
  BY RestOf
<1>2. ASSUME NEW i \in 1 .. Len(t) PROVE t[i].id = m + i
  <2>1. j + i \in 1 .. Len(s) /\ k + (j + i) = m + i
    <3>1. j + Len(t) = Len(s) /\ Len(t) \in Nat /\ j \in Nat
      BY <1>1
    <3> QED  BY <3>1
  <2> QED  BY <1>1, <2>1 DEF From
<1> QED  BY <1>2 DEF From

LEMMA StartOf ==
  ASSUME NEW s \in Seq(Chunk), NEW k \in 0 .. Len(s), NEW t, t = SubSeq(s, 1, k)
  PROVE  /\ t \in Seq(Chunk) /\ Len(t) = k /\ k \in Nat
         /\ \A i \in 1 .. k : t[i] = s[i]
<1>1. Len(s) \in Nat /\ k \in Nat /\ k <= Len(s)
  BY LenProperties
<1>2. t \in Seq(Chunk)
  BY <1>1, SubSeqProperties
<1>3. Len(t) = k
  <2>1. CASE k = 0
    BY <1>1, <2>1, SubSeqProperties
  <2>2. CASE k > 0
    BY <1>1, <2>2, SubSeqProperties
  <2> QED  BY <1>1, <2>1, <2>2
<1>4. \A i \in 1 .. k : t[i] = s[i]
  BY <1>1, SubSeqProperties
<1> QED  BY <1>1, <1>2, <1>3, <1>4

LEMMA StartGoesOn ==
  ASSUME NEW s \in Seq(Chunk), NEW k \in 0 .. Len(s), NEW t, t = SubSeq(s, 1, k), NEW m \in Nat, From(s, m)
  PROVE  From(t, m)
<1>1. Len(t) = k /\ k \in Nat /\ Len(s) \in Nat /\ \A i \in 1 .. k : t[i] = s[i]
  BY StartOf, LenProperties
<1>2. \A i \in 1 .. k : i \in 1 .. Len(s)
  BY <1>1
<1> QED  BY <1>1, <1>2 DEF From

\* A list after a list.
LEMMA Joins ==
  ASSUME NEW b \in Seq(Chunk), NEW t \in Seq(Chunk), NEW u, u = b \o t
  PROVE  /\ u \in Seq(Chunk) /\ Len(u) = Len(b) + Len(t) /\ Len(b) \in Nat /\ Len(t) \in Nat
         /\ \A i \in 1 .. Len(b) : u[i] = b[i]
         /\ \A i \in 1 .. Len(t) : u[Len(b) + i] = t[i]
<1>1. Len(b) \in Nat /\ Len(t) \in Nat
  BY LenProperties
<1>2. u \in Seq(Chunk) /\ Len(u) = Len(b) + Len(t)
  BY ConcatProperties
<1>3. \A i \in 1 .. Len(b) + Len(t) : u[i] = IF i <= Len(b) THEN b[i] ELSE t[i - Len(b)]
  BY ConcatProperties
<1>4. \A i \in 1 .. Len(b) : u[i] = b[i]
  BY <1>1, <1>3
<1>5. ASSUME NEW i \in 1 .. Len(t) PROVE u[Len(b) + i] = t[i]
  <2>1. Len(b) + i \in 1 .. Len(b) + Len(t) /\ ~(Len(b) + i <= Len(b)) /\ (Len(b) + i) - Len(b) = i
    BY <1>1
  <2> QED  BY <1>3, <2>1
<1> QED  BY <1>1, <1>2, <1>4, <1>5

LEMMA JoinGoesOn ==
  ASSUME NEW b \in Seq(Chunk), NEW t \in Seq(Chunk), NEW u, u = b \o t,
         NEW p \in Nat, From(b, p), From(t, p + Len(b))
  PROVE  From(u, p)
<1>1. /\ Len(u) = Len(b) + Len(t) /\ Len(b) \in Nat /\ Len(t) \in Nat
      /\ \A i \in 1 .. Len(b) : u[i] = b[i]
      /\ \A i \in 1 .. Len(t) : u[Len(b) + i] = t[i]
  BY Joins
<1>2. ASSUME NEW i \in 1 .. Len(u) PROVE u[i].id = p + i
  <2>1. CASE i <= Len(b)
    <3>1. i \in 1 .. Len(b)
      BY <1>1, <2>1
    <3> QED  BY <1>1, <3>1 DEF From
  <2>2. CASE ~(i <= Len(b))
    <3> PICK m : m = i - Len(b)
      OBVIOUS
    <3>1. m \in 1 .. Len(t) /\ i = Len(b) + m /\ (p + Len(b)) + m = p + i
      BY <1>1, <2>2
    <3>2. t[m].id = (p + Len(b)) + m
      BY <3>1 DEF From
    <3> QED  BY <1>1, <3>1, <3>2
  <2> QED  BY <2>1, <2>2
<1> QED  BY <1>2 DEF From

\* The page is shown the first j chunks of a queue that goes on from it.
LEMMA ShownGoesOn ==
  ASSUME NEW s \in Seq(Nat), Counted(s), NEW q \in Seq(Chunk), NEW j \in 0 .. Len(q),
         j > 0 => From(q, Len(s)), NEW t, t = s \o [i \in 1 .. j |-> q[i].id]
  PROVE  t \in Seq(Nat) /\ Len(t) = Len(s) + j /\ Counted(t)
<1> PICK x : x = [i \in 1 .. j |-> q[i].id]
  OBVIOUS
<1>1. Len(s) \in Nat /\ j \in Nat /\ \A i \in 1 .. j : i \in 1 .. Len(q) /\ q[i].id \in Nat
  <2>1. Len(q) \in Nat /\ Len(s) \in Nat /\ \A i \in 1 .. Len(q) : q[i] \in Chunk
    BY LenProperties, ElementOfSeq
  <2> QED  BY <2>1 DEF Chunk
<1>2. x \in [1 .. j -> Nat]
  BY <1>1
<1>3. x \in Seq(Nat) /\ Len(x) = j
  BY <1>1, <1>2, SeqDef, LenProperties
<1>4. \A i \in 1 .. j : x[i] = Len(s) + i
  BY <1>1 DEF From
<1>5. /\ t \in Seq(Nat) /\ Len(t) = Len(s) + j
      /\ \A i \in 1 .. Len(s) + j : t[i] = IF i <= Len(s) THEN s[i] ELSE x[i - Len(s)]
  BY <1>1, <1>3, ConcatProperties
<1>6. ASSUME NEW i \in 1 .. Len(s) + j PROVE t[i] = i
  <2>1. CASE i <= Len(s)
    <3>1. i \in 1 .. Len(s) /\ t[i] = s[i]
      BY <1>1, <1>5, <2>1
    <3> QED  BY <3>1 DEF Counted
  <2>2. CASE ~(i <= Len(s))
    <3>1. i - Len(s) \in 1 .. j /\ Len(s) + (i - Len(s)) = i
      BY <1>1, <2>2
    <3> QED  BY <1>4, <1>5, <2>2, <3>1
  <2> QED  BY <2>1, <2>2
<1> QED  BY <1>5, <1>6 DEF Counted

\* Two lists that go on from b with k and with k - 1 chunks of q.
GoesOn(u, b, q, k) ==
  /\ u \in Seq(Chunk) /\ Len(u) = Len(b) + k
  /\ \A i \in 1 .. Len(b) : u[i] = b[i]
  /\ \A i \in 1 .. k : u[Len(b) + i] = q[i]

LEMMA LastOfTheStart ==
  ASSUME NEW b \in Seq(Chunk), NEW q \in Seq(Chunk), NEW k \in 1 .. Len(q),
         NEW u, GoesOn(u, b, q, k), NEW v, GoesOn(v, b, q, k - 1), NEW c, c = q[k]
  PROVE  Amount(u) = Amount(v) + c.n
<1>g. /\ u \in Seq(Chunk) /\ v \in Seq(Chunk) /\ Len(u) = Len(b) + k /\ Len(v) = Len(b) + (k - 1)
      /\ \A i \in 1 .. Len(b) : u[i] = b[i] /\ v[i] = b[i]
      /\ \A i \in 1 .. k : u[Len(b) + i] = q[i]
      /\ \A i \in 1 .. k - 1 : v[Len(b) + i] = q[i]
  BY DEF GoesOn
<1>1. Len(b) \in Nat /\ k \in Nat /\ k > 0 /\ Len(q) \in Nat
  BY LenProperties
<1>2. Len(u) = Len(v) + 1 /\ Len(v) \in Nat
  BY <1>1, <1>g
<1>3. q[k] \in Chunk
  BY ElementOfSeq
<1>4. u[Len(u)] = q[k]
  BY <1>1, <1>g
<1>5. ASSUME NEW i \in 1 .. Len(v) PROVE u[i] = v[i]
  <2>1. CASE i <= Len(b)
    <3>1. i \in 1 .. Len(b)
      BY <1>1, <2>1
    <3> QED  BY <1>g, <3>1
  <2>2. CASE ~(i <= Len(b))
    <3> PICK m : m = i - Len(b)
      OBVIOUS
    <3>1. m \in 1 .. k - 1 /\ m \in 1 .. k /\ i = Len(b) + m
      BY <1>1, <1>g, <2>2
    <3> QED  BY <1>g, <3>1
  <2> QED  BY <2>1, <2>2
<1>6. c \in Chunk /\ u[Len(u)] = c /\ \A i \in 1 .. Len(v) : u[i] = v[i]
  BY <1>3, <1>4, <1>5
<1> QED  BY <1>2, <1>6, <1>g, ChunkSizes, AmountOfOneMore

\* What flushQueue sends leaves the buffer below the cap.
LEMMA FlushStaysBelow ==
  ASSUME NEW b \in Seq(Chunk), NEW q \in Seq(Chunk), Amount(b) < HUB_WS_CAP_BYTES,
         NEW k, k = Flushed(b, q), NEW u, u = b \o SubSeq(q, 1, k)
  PROVE  /\ Amount(u) < HUB_WS_CAP_BYTES
         /\ k < Len(q) => Amount(u) >= pauseAt
         /\ k = 0 => u = b
<1>1. /\ k \in 0 .. Len(q) /\ (k < Len(q) => Amount(u) >= pauseAt)
      /\ \A i \in 0 .. k - 1 : Amount(b \o SubSeq(q, 1, i)) < pauseAt
  BY ChunkSizes, FlushedIs
<1>2. k \in Nat /\ Len(q) \in Nat /\ k <= Len(q)
  BY <1>1, LenProperties
<1>3. CASE k = 0
  <2>1. SubSeq(q, 1, 0) = <<>>
    OBVIOUS
  <2>2. b \o <<>> = b
    OBVIOUS
  <2> QED  BY <1>1, <1>3, <2>1, <2>2
<1>4. CASE k > 0
  <2> PICK x, y, v : x = SubSeq(q, 1, k) /\ y = SubSeq(q, 1, k - 1) /\ v = b \o y
    OBVIOUS
  <2>1. k - 1 \in 0 .. Len(q) /\ k - 1 \in 0 .. k - 1 /\ k - 1 \in Nat
    BY <1>2, <1>4
  <2>2. x \in Seq(Chunk) /\ Len(x) = k /\ \A i \in 1 .. k : x[i] = q[i]
    BY <1>1, StartOf
  <2>3. y \in Seq(Chunk) /\ Len(y) = k - 1 /\ \A i \in 1 .. k - 1 : y[i] = q[i]
    BY <2>1, StartOf
  <2>4. /\ u \in Seq(Chunk) /\ Len(u) = Len(b) + k /\ Len(b) \in Nat
        /\ \A i \in 1 .. Len(b) : u[i] = b[i]
        /\ \A i \in 1 .. k : u[Len(b) + i] = q[i]
    <3>1. u = b \o x
      OBVIOUS
    <3> QED  BY <2>2, <3>1, Joins
  <2>5. /\ v \in Seq(Chunk) /\ Len(v) = Len(b) + (k - 1)
        /\ \A i \in 1 .. Len(b) : v[i] = b[i]
        /\ \A i \in 1 .. k - 1 : v[Len(b) + i] = q[i]
    BY <2>3, Joins
  <2>6. q[k] \in Chunk
    BY <1>2, <1>4, ElementOfSeq
  <2>10. Amount(u) = Amount(v) + q[k].n
    <3>1. k \in 1 .. Len(q)
      BY <1>2, <1>4
    <3>2. GoesOn(u, b, q, k)
      BY <2>4 DEF GoesOn
    <3>3. GoesOn(v, b, q, k - 1)
      BY <2>5 DEF GoesOn
    <3> QED  BY <3>1, <3>2, <3>3, LastOfTheStart
  <2>11. Amount(v) < pauseAt
    BY <1>1, <2>1
  <2>12. Amount(v) \in Nat /\ q[k].n \in Sizes
    <3>1. Amount(v) \in Nat
      BY <2>5, ChunkSizes, AmountIsNat
    <3> QED  BY <2>6, <3>1 DEF Chunk
  <2>13. Amount(u) < HUB_WS_CAP_BYTES
    BY <2>10, <2>11, <2>12, Marks
  <2> QED  BY <1>1, <1>4, <2>13
<1> QED  BY <1>2, <1>3, <1>4

LEMMA DrainFlows ==
  ASSUME FlowInv, Drain
  PROVE  FlowInv'
<1>t. TermTyped /\ Numbered
  BY DEF FlowInv
<1>b. buffer \in Seq(Chunk) /\ queue \in Seq(Chunk) /\ shown \in Seq(Nat) /\ paused \in BOOLEAN
  BY <1>t DEF TermTyped
<1>n. Len(shown) \in Nat /\ Len(buffer) \in Nat /\ Len(queue) \in Nat /\ Len(shown) + Len(buffer) \in Nat
  BY <1>b, LenProperties
<1>u. due' = FALSE /\ UNCHANGED <<socket, viewer, torn, given>> /\ (Live' <=> Live)
  BY DEF Drain, Live
<1>1. CASE ~Live
  <2>1. UNCHANGED <<buffer, queue, shown, paused>>
    BY <1>1 DEF Drain
  <2>2. TermTyped' /\ Numbered'
    BY <1>t, <1>u, <2>1 DEF TermTyped, Numbered
  <2>3. Paced' /\ BelowTheCap' /\ NeverStalls' /\ ViewerReleased'
    BY <1>1, <1>u, <2>1 DEF FlowInv, Paced, BelowTheCap, NeverStalls, ViewerReleased
  <2> QED  BY <2>2, <2>3 DEF FlowInv
<1>2. CASE Live
  <2>1. PICK j, rest, k :
          /\ j \in 0 .. Len(queue) /\ rest = SubSeq(queue, j + 1, Len(queue)) /\ k = Flushed(buffer, rest)
          /\ j > 0 => buffer = <<>>
          /\ shown' = shown \o [i \in 1 .. j |-> queue[i].id]
          /\ buffer' = buffer \o SubSeq(rest, 1, k)
          /\ queue' = SubSeq(rest, k + 1, Len(rest))
          /\ paused' = (paused /\ ~Resumes(buffer', queue'))
    BY <1>2 DEF Drain
  <2> PICK q, b, x, y : q = queue' /\ b = buffer' /\ x = SubSeq(rest, 1, k) /\ y = shown'
    OBVIOUS
  <2>j. j \in 0 .. Len(queue)
    BY <2>1
  <2>2. rest \in Seq(Chunk) /\ j + Len(rest) = Len(queue) /\ Len(rest) \in Nat /\ j \in Nat
    BY <1>b, <2>1, RestOf
  <2>3. k \in 0 .. Len(rest)
    BY <1>b, <2>1, <2>2, ChunkSizes, FlushedIs
  <2>4. q = SubSeq(rest, k + 1, Len(rest)) /\ b = buffer \o x
    BY <2>1
  <2>5. x \in Seq(Chunk) /\ Len(x) = k /\ k \in Nat
    BY <2>2, <2>3, StartOf
  <2>6. b \in Seq(Chunk) /\ Len(b) = Len(buffer) + k
    BY <1>b, <2>4, <2>5, Joins
  <2>7. q \in Seq(Chunk) /\ k + Len(q) = Len(rest) /\ Len(q) \in Nat
    BY <2>2, <2>3, <2>4, RestOf
  <2>8. Len(buffer) = 0 \/ j = 0
    BY <2>1, <2>2
  <2>f. From(buffer, Len(shown)) /\ From(queue, Len(shown) + Len(buffer)) /\ Counted(shown)
    BY <1>t DEF Numbered
  <2>9. y \in Seq(Nat) /\ Len(y) = Len(shown) + j /\ Counted(y)
    <3>1. j > 0 => From(queue, Len(shown))
      BY <1>n, <2>2, <2>8, <2>f
    <3>2. y = shown \o [i \in 1 .. j |-> queue[i].id]
      BY <2>1
    <3> QED  BY <1>b, <2>f, <2>j, <3>1, <3>2, ShownGoesOn
  <2>10. From(b, Len(y)) /\ From(q, Len(y) + Len(b))
    <3>1. From(rest, Len(y) + Len(buffer))
      <4> PICK m, p : m = Len(y) + Len(buffer) /\ p = Len(shown) + Len(buffer)
        OBVIOUS
      <4>1. p \in Nat /\ m = p + j
        <5>1. Len(y) = Len(shown) + j /\ j \in Nat
          BY <2>2, <2>9
        <5> QED  BY <1>n, <5>1
      <4>2. rest = SubSeq(queue, j + 1, Len(queue)) /\ From(queue, p)
        BY <2>1, <2>f
      <4>3. From(rest, m)
        BY <1>b, <2>j, <4>1, <4>2, EndGoesOn
      <4> QED  BY <4>3
    <3>2. From(buffer, Len(y))
      <4>1. CASE j = 0
        <5>1. Len(y) = Len(shown)
          BY <1>n, <2>9, <4>1
        <5> QED  BY <2>f, <5>1
      <4>2. CASE Len(buffer) = 0
        BY <4>2 DEF From
      <4> QED  BY <2>8, <4>1, <4>2
    <3>3. Len(y) \in Nat /\ Len(y) + Len(buffer) \in Nat
      BY <1>n, <2>2, <2>9
    <3>4. From(x, Len(y) + Len(buffer))
      BY <2>2, <2>3, <3>1, <3>3, StartGoesOn
    <3>5. From(b, Len(y))
      BY <1>b, <2>4, <2>5, <3>2, <3>3, <3>4, JoinGoesOn
    <3>6. Len(y) + Len(b) = (Len(y) + Len(buffer)) + k
      BY <1>n, <2>5, <2>6, <3>3
    <3>7. From(q, Len(y) + Len(b))
      BY <2>2, <2>3, <2>4, <3>1, <3>3, <3>6, EndGoesOn
    <3> QED  BY <3>5, <3>7
  <2>11. Len(y) + Len(b) + Len(q) = given
    <3>1. Len(shown) + Len(buffer) + Len(queue) = given
      BY <1>t DEF Numbered
    <3>2. /\ Len(y) = Len(shown) + j /\ Len(b) = Len(buffer) + k /\ k + Len(q) = Len(rest)
          /\ j + Len(rest) = Len(queue) /\ Len(q) \in Nat /\ j \in Nat /\ k \in Nat
      BY <2>2, <2>5, <2>6, <2>7, <2>9
    <3> QED  BY <1>n, <3>1, <3>2
  <2>12. Numbered'
    BY <1>u, <2>9, <2>10, <2>11 DEF Numbered
  <2>13. paused' \in BOOLEAN
    BY <2>1
  <2>14. TermTyped'
    BY <1>t, <1>u, <2>6, <2>7, <2>9, <2>13 DEF TermTyped
  <2>15. /\ Amount(b) < HUB_WS_CAP_BYTES
         /\ k < Len(rest) => Amount(b) >= pauseAt
         /\ k = 0 => b = buffer
    <3>1. Amount(buffer) < HUB_WS_CAP_BYTES
      BY DEF FlowInv, BelowTheCap
    <3>2. b = buffer \o SubSeq(rest, 1, k) /\ k = Flushed(buffer, rest)
      BY <2>1
    <3> QED  BY <1>b, <2>2, <3>1, <3>2, FlushStaysBelow
  <2>16. Amount(q) <= Amount(rest) /\ Amount(q) \in Nat /\ Amount(rest) \in Nat
    BY <2>2, <2>3, <2>4, AmountOfTheEnd
  <2>17. Amount(rest) <= Amount(queue) /\ Amount(queue) \in Nat
    BY <1>b, <2>1, AmountOfTheEnd
  <2>18. Amount(q) <= MAX_QUEUE_BYTES
    <3>1. Amount(queue) <= MAX_QUEUE_BYTES
      BY <1>2 DEF FlowInv, BelowTheCap
    <3> QED  BY <2>16, <2>17, <3>1, Marks
  <2>19. Amount(b) \in Nat /\ (b = <<>> => Amount(b) = 0)
    BY <2>6, ChunkSizes, AmountIsNat
  <2>20. q # <<>> => b # <<>>
    <3>1. ASSUME q # <<>> PROVE k < Len(rest)
      <4>1. Len(q) # 0
        BY <2>7, <3>1, EmptySeq
      <4> QED  BY <2>5, <2>7, <4>1
    <3> QED  BY <2>15, <2>19, <3>1, Marks
  <2>21. paused' => b # <<>>
    <3>1. ASSUME paused', b = <<>> PROVE FALSE
      <4>1. ~Resumes(b, q)
        BY <2>1, <3>1
      <4>2. Amount(b) = 0 /\ 0 <= resumeAt
        BY <2>19, <3>1, Marks
      <4>3. q # <<>>
        BY <4>1, <4>2 DEF Resumes
      <4> QED  BY <2>20, <3>1, <4>3
    <3> QED  BY <3>1
  <2>22. ~paused' => q = <<>> /\ Amount(b) < pauseAt
    <3> SUFFICES ASSUME ~paused' PROVE q = <<>> /\ Amount(b) < pauseAt
      OBVIOUS
    <3>1. ~paused \/ Resumes(b, q)
      BY <1>b, <2>1
    <3>2. CASE Resumes(b, q)
      <4>1. q = <<>> /\ Amount(b) <= resumeAt
        BY <3>2 DEF Resumes
      <4> QED  BY <2>19, <4>1, Marks
    <3>3. CASE ~paused
      <4>1. queue = <<>> /\ Amount(buffer) < pauseAt
        BY <1>2, <3>3 DEF FlowInv, Paced
      <4>2. Len(queue) = 0
        BY <4>1
      <4>3. k = 0 /\ Len(q) = 0
        <5>1. k + Len(q) = Len(rest) /\ j + Len(rest) = 0 /\ Len(q) \in Nat /\ j \in Nat /\ k \in Nat
          BY <2>2, <2>5, <2>7, <4>2
        <5>2. j + (k + Len(q)) = 0
          BY <5>1
        <5> QED  BY <5>1, <5>2
      <4>4. q = <<>>
        BY <2>7, <4>3, EmptySeq
      <4> QED  BY <2>15, <4>1, <4>3, <4>4
    <3> QED  BY <3>1, <3>2, <3>3
  <2>23. pauseAt' = pauseAt
    BY DEF pauseAt
  <2>24. Paced'
    <3>1. viewer' # "none"
      BY <1>2, <1>u DEF Live
    <3> QED  BY <2>22, <2>23, <3>1 DEF Paced
  <2>25. BelowTheCap'
    BY <2>15, <2>18 DEF BelowTheCap
  <2>26. NeverStalls'
    BY <2>20, <2>21 DEF NeverStalls
  <2>27. ViewerReleased'
    BY <1>u DEF FlowInv, ViewerReleased
  <2> QED  BY <2>12, <2>14, <2>24, <2>25, <2>26, <2>27 DEF FlowInv
<1> QED  BY <1>1, <1>2

LEMMA FlowStep ==
  ASSUME FlowInv, [TerminalNext]_terminalVars
  PROVE  FlowInv'
<1>t. TermTyped /\ ViewerReleased
  BY DEF FlowInv
<1>1. CASE Attach
  BY <1>t, <1>1, NoChunkMoves DEF Attach, TermTyped, Live
<1>2. CASE Leaves
  BY <1>2, LeavesFlows
<1>3. CASE Drain
  BY <1>3, DrainFlows
<1>4. CASE PtyExits
  BY <1>t, <1>4, NoChunkMoves DEF PtyExits, Teardown, TermTyped, Live
<1>5. CASE SocketCloses
  BY <1>t, <1>5, NoChunkMoves DEF SocketCloses, TermTyped, Live
<1>6. ASSUME NEW n \in Sizes, Output(n) PROVE FlowInv'
  BY <1>6, OutputFlows
<1>7. ASSUME NEW f \in Frames, Message(f) PROVE FlowInv'
  BY <1>t, <1>7, NoChunkMoves DEF Message, TermTyped, Live, ViewerReleased
<1>8. CASE UNCHANGED terminalVars
  BY <1>t, <1>8, NoChunkMoves DEF terminalVars, TermTyped, Live, ViewerReleased
<1> QED  BY <1>1, <1>2, <1>3, <1>4, <1>5, <1>6, <1>7, <1>8 DEF TerminalNext

\* The relay of terminal.ts shows the output in order and without a gap, keeps the
\* socket below the hub's cap and the queue within its own, wakes what waits, and
\* lets the viewer go with its socket.
THEOREM OutputReachesThePage == TerminalInit /\ [][TerminalNext]_terminalVars => []TerminalFlows
<1>1. FlowInv => TerminalFlows
  BY InOrderMeans DEF FlowInv, TerminalFlows
<1> QED  BY FlowBegins, FlowStep, <1>1, PTL

-----------------------------------------------------------------------------
(* Page: the dialog and the requests that wait for it.                     *)

Pins == Pin \cup {NoPin}
Calls == [at : {"idle", "verifying", "hashing", "answered"}, kind : {"exchange", "set"}, given : Pins,
          new : Pins, stored : Pins, answer : Answers, token : Nat, expiresAt : Nat]
Modes == {"none", "prompt", "setup", "settings"}
Jobs == [mode : Modes, step : {"none", "exchange", "set"}, given : Pins, new : Pins,
         retried : BOOLEAN, mounted : BOOLEAN]
Reqs == [at : {"new", "sending", "sent", "answered", "prompting", "done"}, token : Nat,
         stepUpRetried : BOOLEAN, granted : Nat, status : {"none", "ok", "setup", "token", "cancelled"}]
Dialogs == [mode : Modes, resolve : Action \cup {NoAction}, busy : BOOLEAN, hasPin : {"no", "yes", "unknown"}]
Held == [token : Nat, expiresAt : Nat]

StoreTyped ==
  /\ now \in Nat /\ minted \in Nat /\ pinHash \in Pins /\ call \in [Call -> Calls]
  /\ DOMAIN tokens \subseteq 1 .. minted /\ \A t \in DOMAIN tokens : tokens[t] \in Nat
PageTyped ==
  /\ job \in [Call -> Jobs] /\ req \in [Action -> Reqs] /\ open \in Dialogs /\ held \in Held

\* The store dates a token as its holder does, if it still has it.
Dates(t, at) == t \in DOMAIN tokens => tokens[t] = at
Lives(t) == t \in DOMAIN tokens /\ tokens[t] - now > EXPIRY_BUFFER_MS

\* A PIN that is there stays, and there are tokens only with one.
StoreKept ==
  /\ minted > 0 => pinHash # NoPin
  /\ \A c \in Call :
       /\ call[c].at = "verifying" => pinHash # NoPin
       /\ call[c].at = "hashing" => call[c].kind = "set"
       /\ call[c].at \in {"verifying", "hashing"} /\ call[c].kind = "set" => call[c].new \in Pin
       /\ call[c].token <= minted /\ Dates(call[c].token, call[c].expiresAt)

\* One submission at a time, while the dialog is busy; only one that a request
\* waits for exchanges a PIN.
JobsKept ==
  /\ \A c, d \in Call : job[c] # NoJob /\ job[d] # NoJob => c = d
  /\ \A c \in Call :
       /\ job[c] # NoJob => open.busy
       /\ job[c].step = "exchange" => job[c].mode \in {"prompt", "setup"}
       /\ job[c].mode \in {"prompt", "setup"} => open.resolve # NoAction
       /\ job[c] # NoJob /\ job[c].step # "exchange" => job[c].new \in Pin
       /\ job[c].step = "exchange" =>
            /\ call[c].at = "verifying" => call[c].kind = "exchange"
            /\ call[c].at # "hashing"
            /\ call[c].at = "answered" /\ call[c].answer = "ok" => call[c].token # None
  /\ open.mode = "none" => open.resolve = NoAction /\ ~open.busy
  /\ open.mode \in {"prompt", "setup"} => open.resolve # NoAction

\* One request at a time, and what it was granted is what it goes on with.
RequestKept(a) ==
  /\ req[a].at = "prompting" <=> open.resolve = a
  /\ req[a].at = "new" => ~req[a].stepUpRetried
  /\ req[a].granted <= minted
  /\ req[a].stepUpRetried =>
       /\ req[a].at = "sending" =>
            held.token = req[a].granted /\ req[a].granted # None /\ Dates(held.token, held.expiresAt)
       /\ req[a].at = "sent" => (Lives(req[a].granted) => req[a].token = req[a].granted)
       /\ req[a].at = "answered" => (Lives(req[a].granted) => req[a].status = "ok")
Active(a) == req[a].at \notin {"new", "done"}
RequestsKept ==
  /\ \A a, b \in Action : Active(a) /\ Active(b) => a = b
  /\ \A a \in Action : RequestKept(a)

PageInv == StoreTyped /\ PageTyped /\ StoreKept /\ JobsKept /\ RequestsKept

\* Time goes on, and what a store has of old tokens it had before.
Ages ==
  /\ now' >= now /\ minted' >= minted
  /\ \A t \in DOMAIN tokens' : t <= minted => t \in DOMAIN tokens /\ tokens'[t] = tokens[t]

LEMMA PageBegins == StepUpInit /\ PageInit => PageInv
<1> SUFFICES ASSUME StepUpInit, PageInit PROVE PageInv
  OBVIOUS
<1>1. NoPin \in Pins /\ "failed" \in Answers /\ None = 0 /\ None \in Nat
  BY DEF Pins, Answers, None
<1>2. Idle \in Calls /\ NoJob \in Jobs /\ Fresh \in Reqs /\ Closed \in Dialogs /\ Nothing \in Held
  BY <1>1 DEF Idle, Calls, NoJob, Jobs, Modes, Fresh, Reqs, Closed, Dialogs, Nothing, Held
<1>3. /\ now = 0 /\ minted = 0 /\ pinHash \in Pins /\ tokens = <<>> /\ held = Nothing /\ open = Closed
      /\ \A c \in Call : call[c] = Idle /\ job[c] = NoJob
      /\ \A a \in Action : req[a] = Fresh
  BY DEF StepUpInit, PageInit, Pins
<1>4. DOMAIN tokens = {}
  BY <1>3
<1>5. StoreTyped /\ PageTyped
  BY <1>2, <1>3, <1>4 DEF StepUpInit, PageInit, StoreTyped, PageTyped
<1>6. StoreKept
  BY <1>1, <1>3, <1>4 DEF StoreKept, Idle, Dates
<1>7. JobsKept
  <2>1. NoJob.step = "none" /\ NoJob.mode = "none" /\ Closed.mode = "none" /\ Closed.resolve = NoAction /\ ~Closed.busy
    BY DEF NoJob, Closed
  <2> QED  BY <1>3, <2>1 DEF JobsKept
<1>8. RequestsKept
  BY <1>1, <1>3, PageAssumption DEF RequestsKept, RequestKept, Active, Fresh, Closed
<1> QED  BY <1>5, <1>6, <1>7, <1>8 DEF PageInv

\* What ages stays dated, and is not brought back to life.
LEMMA AgesKeep ==
  ASSUME StoreTyped, StoreTyped', Ages, NEW t \in Nat, t <= minted
  PROVE  /\ \A at : Dates(t, at) => Dates(t, at)'
         /\ Lives(t)' => Lives(t)
<1>1. \A at : Dates(t, at) => Dates(t, at)'
  BY DEF Ages, Dates
<1>2. ASSUME Lives(t)' PROVE Lives(t)
  <2>1. /\ t \in DOMAIN tokens' /\ tokens'[t] - now' > EXPIRY_BUFFER_MS /\ t \in DOMAIN tokens /\ tokens'[t] = tokens[t]
        /\ EXPIRY_BUFFER_MS \in Nat
    BY <1>2, PageAssumption DEF Ages, Lives
  <2>2. tokens[t] \in Nat /\ now \in Nat /\ now' \in Nat /\ now' >= now
    BY <2>1 DEF StoreTyped, Ages
  <2>3. tokens[t] - now > EXPIRY_BUFFER_MS
    BY <2>1, <2>2
  <2> QED  BY <2>1, <2>3 DEF Lives
<1> QED  BY <1>1, <1>2

\* A call that changes, while the store only ages and the PIN stays.
LEMMA CallChanges ==
  ASSUME StoreTyped, StoreKept, Ages, now' \in Nat, minted' \in Nat, pinHash' \in Pins,
         pinHash = NoPin => minted' = minted, pinHash # NoPin => pinHash' # NoPin,
         DOMAIN tokens' \subseteq 1 .. minted', \A t \in DOMAIN tokens' : tokens'[t] \in Nat,
         NEW c, NEW u \in Calls, call' = [call EXCEPT ![c] = u],
         u.at = "verifying" => pinHash # NoPin,
         u.at = "hashing" => u.kind = "set",
         u.at \in {"verifying", "hashing"} /\ u.kind = "set" => u.new \in Pin,
         u.token <= minted', u.token \in DOMAIN tokens' => tokens'[u.token] = u.expiresAt
  PROVE  StoreTyped' /\ StoreKept'
<1>1. call' \in [Call -> Calls]
  BY DEF StoreTyped
<1>2. StoreTyped'
  BY <1>1 DEF StoreTyped
<1>3. minted' > 0 => pinHash' # NoPin
  BY DEF StoreTyped, StoreKept
<1>4. ASSUME NEW d \in Call
      PROVE  /\ call'[d].at = "verifying" => pinHash' # NoPin
             /\ call'[d].at = "hashing" => call'[d].kind = "set"
             /\ call'[d].at \in {"verifying", "hashing"} /\ call'[d].kind = "set" => call'[d].new \in Pin
             /\ call'[d].token <= minted' /\ Dates(call[d].token, call[d].expiresAt)'
  <2>1. CASE d = c
    <3>1. call'[d] = u
      BY <2>1 DEF StoreTyped
    <3> QED  BY <3>1 DEF Dates
  <2>2. CASE d # c
    <3>1. call'[d] = call[d] /\ call[d].token \in Nat
      BY <2>2 DEF StoreTyped, Calls
    <3>2. call[d].token <= minted /\ Dates(call[d].token, call[d].expiresAt)
      BY DEF StoreKept
    <3>3. call[d].token <= minted'
      BY <3>1, <3>2 DEF StoreTyped, Ages
    <3>4. Dates(call[d].token, call[d].expiresAt)'
      BY <3>1, <3>2 DEF Ages, Dates
    <3> QED  BY <3>1, <3>3, <3>4 DEF StoreKept
  <2> QED  BY <2>1, <2>2
<1> QED  BY <1>2, <1>3, <1>4 DEF StoreKept

\* Steps of the second factor.
Asks(c, j) == j.given \in Pins /\ j.new \in Pins /\ (j.step # "exchange" => j.new \in Pin) /\ Ask(c, j)

LEMMA IdleIs ==
  /\ Idle \in Calls /\ Idle.token = None /\ Idle.at = "idle" /\ Idle.kind = "exchange"
  /\ \A what \in Answers :
       /\ [Idle EXCEPT !.at = "answered", !.answer = what] \in Calls
       /\ [Idle EXCEPT !.at = "answered", !.answer = what].at = "answered"
       /\ [Idle EXCEPT !.at = "answered", !.answer = what].answer = what
       /\ [Idle EXCEPT !.at = "answered", !.answer = what].token = 0
<1>1. NoPin \in Pins /\ "failed" \in Answers /\ None = 0 /\ None \in Nat
  BY DEF Pins, Answers, None
<1>2. /\ Idle \in Calls /\ Idle.token = None /\ Idle.at = "idle" /\ Idle.kind = "exchange"
  BY <1>1 DEF Idle, Calls
<1> QED  BY <1>1, <1>2 DEF Calls

LEMMA AskKeeps ==
  ASSUME StoreTyped, StoreKept, NEW c \in Call, NEW j, Asks(c, j)
  PROVE  /\ StoreTyped' /\ StoreKept' /\ Ages
         /\ \A d \in Call : d # c => call'[d] = call[d]
         /\ j.step = "exchange" =>
              /\ call'[c].at = "verifying" => call'[c].kind = "exchange"
              /\ call'[c].at # "hashing"
              /\ ~(call'[c].at = "answered" /\ call'[c].answer = "ok")
<1>1. UNCHANGED <<now, pinHash, tokens, minted>>
  BY DEF Asks, Ask, PostExchange, PostPin
<1>2. Ages /\ now' \in Nat /\ minted' \in Nat /\ pinHash' \in Pins /\ DOMAIN tokens' \subseteq 1 .. minted'
      /\ \A t \in DOMAIN tokens' : tokens'[t] \in Nat
  BY <1>1 DEF Ages, StoreTyped
<1>3. "step_up_not_configured" \in Answers /\ "rate_limited" \in Answers
  BY DEF Answers
<1>4. PICK u \in Calls :
        /\ call' = [call EXCEPT ![c] = u] /\ u.token = 0
        /\ u.at \in {"verifying", "hashing", "answered"}
        /\ u.at = "verifying" => pinHash # NoPin
        /\ u.at = "hashing" => u.kind = "set"
        /\ u.at \in {"verifying", "hashing"} /\ u.kind = "set" => u.new \in Pin
        /\ j.step = "exchange" =>
             /\ u.at = "verifying" => u.kind = "exchange"
             /\ u.at # "hashing"
             /\ ~(u.at = "answered" /\ u.answer = "ok")
  <2>1. CASE \E what \in {"step_up_not_configured", "rate_limited"} : Answered(c, what)
    <3> PICK what \in {"step_up_not_configured", "rate_limited"} : Answered(c, what)
      BY <2>1
    <3> PICK u : u = [Idle EXCEPT !.at = "answered", !.answer = what]
      OBVIOUS
    <3>1. u \in Calls /\ u.at = "answered" /\ u.answer = what /\ u.token = 0
      BY <1>3, IdleIs
    <3>2. call' = [call EXCEPT ![c] = u]
      BY DEF Answered
    <3> QED  BY <3>1, <3>2
  <2>2. CASE /\ j.step = "exchange" /\ pinHash # NoPin
             /\ call' = [call EXCEPT ![c] = [Idle EXCEPT !.at = "verifying", !.given = j.given, !.stored = pinHash]]
    <3> PICK u : u = [Idle EXCEPT !.at = "verifying", !.given = j.given, !.stored = pinHash]
      OBVIOUS
    <3>1. u \in Calls /\ u.at = "verifying" /\ u.kind = "exchange" /\ u.token = 0
      BY IdleIs DEF Asks, StoreTyped, Calls, None
    <3> QED  BY <2>2, <3>1
  <2>3. CASE /\ j.step # "exchange" /\ j.new \in Pin
             /\ call' = [call EXCEPT ![c] = [Idle EXCEPT !.at = "hashing", !.kind = "set", !.new = j.new]]
    <3> PICK u : u = [Idle EXCEPT !.at = "hashing", !.kind = "set", !.new = j.new]
      OBVIOUS
    <3>1. u \in Calls /\ u.at = "hashing" /\ u.kind = "set" /\ u.token = 0 /\ u.new = j.new
      BY IdleIs DEF Asks, Calls, None
    <3> QED  BY <2>3, <3>1
  <2>4. CASE /\ j.step # "exchange" /\ j.new \in Pin /\ pinHash # NoPin
             /\ call' = [call EXCEPT ![c] = [Idle EXCEPT !.at = "verifying", !.kind = "set", !.given = j.given,
                                               !.new = j.new, !.stored = pinHash]]
    <3> PICK u : u = [Idle EXCEPT !.at = "verifying", !.kind = "set", !.given = j.given, !.new = j.new, !.stored = pinHash]
      OBVIOUS
    <3>1. u \in Calls /\ u.at = "verifying" /\ u.kind = "set" /\ u.token = 0 /\ u.new = j.new
      BY IdleIs DEF Asks, StoreTyped, Calls, None
    <3> QED  BY <2>4, <3>1
  <2>5. \/ \E what \in {"step_up_not_configured", "rate_limited"} : Answered(c, what)
        \/ /\ j.step = "exchange" /\ pinHash # NoPin
           /\ call' = [call EXCEPT ![c] = [Idle EXCEPT !.at = "verifying", !.given = j.given, !.stored = pinHash]]
        \/ /\ j.step # "exchange"
           /\ call' = [call EXCEPT ![c] = [Idle EXCEPT !.at = "hashing", !.kind = "set", !.new = j.new]]
        \/ /\ j.step # "exchange" /\ pinHash # NoPin
           /\ call' = [call EXCEPT ![c] = [Idle EXCEPT !.at = "verifying", !.kind = "set", !.given = j.given,
                                               !.new = j.new, !.stored = pinHash]]
    <3>1. CASE j.step = "exchange"
      BY <3>1 DEF Asks, Ask, PostExchange, isStepUpConfigured
    <3>2. CASE j.step # "exchange"
      BY <3>2 DEF Asks, Ask, PostPin, isStepUpConfigured
    <3> QED  BY <3>1, <3>2
  <2>6. j.step # "exchange" => j.new \in Pin
    BY DEF Asks
  <2> QED  BY <2>1, <2>2, <2>3, <2>4, <2>5, <2>6
<1>5. StoreTyped' /\ StoreKept'
  <2>1. u.token <= minted' /\ u.token \notin DOMAIN tokens'
    BY <1>2, <1>4
  <2> QED  BY <1>1, <1>2, <1>4, <2>1, CallChanges
<1>6. \A d \in Call : call'[d] = IF d = c THEN u ELSE call[d]
  BY <1>4 DEF StoreTyped
<1> QED  BY <1>2, <1>4, <1>5, <1>6

LEMMA StoreStays ==
  ASSUME StoreTyped, StoreKept, UNCHANGED <<now, minted, pinHash, call, tokens>>
  PROVE  StoreTyped' /\ StoreKept' /\ Ages
BY DEF StoreTyped, StoreKept, Ages, Dates

\* A request that a step leaves alone.
LEMMA RequestStays ==
  ASSUME StoreTyped, StoreTyped', Ages, PageTyped, NEW b \in Action, RequestKept(b), req'[b] = req[b],
         req[b].at = "prompting" <=> open'.resolve = b,
         held' = held \/ ~(req[b].at = "sending" /\ req[b].stepUpRetried)
  PROVE  RequestKept(b)'
<1>1. req[b].granted \in Nat /\ held.token \in Nat /\ minted \in Nat /\ minted' \in Nat /\ minted' >= minted
  BY DEF PageTyped, Reqs, Held, StoreTyped, Ages
<1>2. req[b].granted <= minted /\ req[b].granted <= minted'
  BY <1>1 DEF RequestKept
<1>3. Lives(req[b].granted)' => Lives(req[b].granted)
  <2> PICK t \in Nat : t = req[b].granted /\ t <= minted
    BY <1>1, <1>2
  <2>1. Lives(t)' => Lives(t)
    BY AgesKeep
  <2>2. Lives(t)' <=> Lives(req[b].granted)'
    BY DEF Lives
  <2> QED  BY <2>1, <2>2
<1>4. ASSUME req[b].stepUpRetried, req[b].at = "sending"
      PROVE  held'.token = req[b].granted /\ req[b].granted # None /\ Dates(held.token, held.expiresAt)'
  <2>1. held' = held /\ held.token = req[b].granted /\ req[b].granted # None /\ Dates(held.token, held.expiresAt)
    BY <1>4 DEF RequestKept
  <2>2. \A at : Dates(held.token, at) => (held.token \in DOMAIN tokens' => tokens'[held.token] = at)
    BY <1>1, <1>2, <2>1 DEF Ages, Dates
  <2> QED  BY <2>1, <2>2 DEF Dates
<1> QED  BY <1>2, <1>3, <1>4 DEF RequestKept, Lives

LEMMA RequestsStay ==
  ASSUME StoreTyped, StoreTyped', Ages, PageTyped, RequestsKept, req' = req, open'.resolve = open.resolve, held' = held
  PROVE  RequestsKept'
<1>1. \A b \in Action : RequestKept(b)'
  BY RequestStays DEF RequestsKept, RequestKept
<1> QED  BY <1>1 DEF RequestsKept, Active

\* The steps of the page that leave the second factor alone.
LEMMA StartKeeps ==
  ASSUME PageInv, Patient, NEW a \in Action, Start(a)
  PROVE  PageInv'
<1> USE DEF PageInv
<1>1. StoreTyped' /\ StoreKept' /\ Ages
  BY StoreStays DEF Start, stepUpVars
<1>2. \A b \in Action : req'[b] = IF b = a THEN [req[a] EXCEPT !.at = "sending"] ELSE req[b]
  BY DEF Start, PageTyped
<1>3. PageTyped' /\ JobsKept'
  BY <1>1, <1>2 DEF Start, PageTyped, Reqs, JobsKept, stepUpVars
<1>4. ~req[a].stepUpRetried /\ req[a].at = "new" /\ open.resolve # a /\ req[a].granted <= minted
  BY DEF Start, RequestsKept, RequestKept
<1>5. ~req'[a].stepUpRetried /\ req'[a].at = "sending" /\ req'[a].granted = req[a].granted
  BY <1>2, <1>4 DEF PageTyped, Reqs
<1>6. RequestKept(a)'
  BY <1>4, <1>5 DEF RequestKept, Start, stepUpVars
<1>7. \A b \in Action : b # a => RequestKept(b)'
  BY <1>1, <1>2, RequestStays DEF Start, RequestsKept, RequestKept
<1>8. \A b \in Action : b # a => ~Active(b)'
  BY <1>2, <1>4, <1>5 DEF Patient, Active
<1> QED  BY <1>1, <1>3, <1>6, <1>7, <1>8 DEF RequestsKept

LEMMA SendKeeps ==
  ASSUME PageInv, NEW a \in Action, Send(a)
  PROVE  PageInv'
<1> USE DEF PageInv
<1>1. StoreTyped' /\ StoreKept' /\ Ages
  BY StoreStays DEF Send, stepUpVars
<1>2. \A b \in Action : req'[b] = IF b = a THEN [req[a] EXCEPT !.at = "sent", !.token = currentStepUpToken] ELSE req[b]
  BY DEF Send, PageTyped
<1>3. currentStepUpToken \in Nat /\ held' \in Held
  BY DEF Send, PageTyped, Held, currentStepUpToken, None, Nothing
<1>4. PageTyped' /\ JobsKept'
  <2>1. req' \in [Action -> Reqs]
    <3>1. req \in [Action -> Reqs] /\ req' = [req EXCEPT ![a].at = "sent", ![a].token = currentStepUpToken]
      BY DEF Send, PageTyped
    <3>2. [req[a] EXCEPT !.at = "sent", !.token = currentStepUpToken] \in Reqs
      BY <1>3, <3>1 DEF Reqs
    <3> QED  BY <1>2, <3>1, <3>2
  <2>2. UNCHANGED <<open, job, call>>
    BY DEF Send, stepUpVars
  <2> QED  BY <1>3, <2>1, <2>2 DEF PageTyped, JobsKept
<1>5. req[a].at = "sending" /\ RequestKept(a) /\ Active(a) /\ req[a] \in Reqs
  BY DEF Send, RequestsKept, Active, PageTyped
<1>6. /\ req'[a].at = "sent" /\ req'[a].token = currentStepUpToken /\ req'[a].granted = req[a].granted
      /\ req'[a].stepUpRetried = req[a].stepUpRetried
  BY <1>2, <1>5 DEF Reqs
<1>7. ASSUME req[a].stepUpRetried, Lives(req[a].granted) PROVE currentStepUpToken = req[a].granted
  <2>1. held.token = req[a].granted /\ held.token # None /\ Dates(held.token, held.expiresAt)
    BY <1>5, <1>7 DEF RequestKept
  <2>2. held.expiresAt - now > EXPIRY_BUFFER_MS
    BY <1>7, <2>1 DEF Lives, Dates
  <2> QED  BY <2>1, <2>2 DEF currentStepUpToken
<1>8. RequestKept(a)'
  <2>1. UNCHANGED <<minted, tokens, now>> /\ open' = open
    BY DEF Send, stepUpVars
  <2> QED  BY <1>5, <1>6, <1>7, <2>1 DEF RequestKept, Lives
<1>9. ASSUME NEW b \in Action, b # a PROVE RequestKept(b)'
  <2>1. ~Active(b) /\ RequestKept(b)
    BY <1>5, <1>9 DEF RequestsKept
  <2>2. req[b].at # "sending" /\ req'[b] = req[b] /\ open' = open
    BY <1>2, <1>9, <2>1 DEF Active, Send
  <2>3. req[b].at = "prompting" <=> open'.resolve = b
    BY <2>1, <2>2 DEF RequestKept
  <2> QED  BY <1>1, <2>1, <2>2, <2>3, RequestStays
<1>10. \A b \in Action : Active(b)' => Active(b)
  BY <1>2, <1>5 DEF Active
<1> QED  BY <1>1, <1>4, <1>8, <1>9, <1>10 DEF RequestsKept

LEMMA ReactKeeps ==
  ASSUME PageInv, NEW a \in Action, React(a)
  PROVE  PageInv'
<1> USE DEF PageInv
<1>1. StoreTyped' /\ StoreKept' /\ Ages
  BY StoreStays DEF React, stepUpVars
<1>2. req[a].at = "answered" /\ RequestKept(a) /\ Active(a) /\ req[a] \in Reqs /\ \A b \in Action : b # a => ~Active(b)
  BY DEF React, RequestsKept, Active, PageTyped
<1>3. a # NoAction /\ open \in Dialogs /\ "prompt" \in Modes /\ "setup" \in Modes
  BY PageAssumption DEF PageTyped, Modes
<1>4. CASE req[a].status = "ok" \/ req[a].stepUpRetried
  <2>1. req' = [req EXCEPT ![a].at = "done"] /\ UNCHANGED <<held, open, job, call, now, minted, tokens>>
    BY <1>4 DEF React, stepUpVars
  <2>2. \A b \in Action : req'[b] = IF b = a THEN [req[a] EXCEPT !.at = "done"] ELSE req[b]
    BY <2>1 DEF PageTyped
  <2>3. PageTyped' /\ JobsKept'
    BY <1>2, <2>1, <2>2 DEF PageTyped, Reqs, JobsKept
  <2>4. req'[a].at = "done" /\ req'[a].granted = req[a].granted
    BY <1>2, <2>2 DEF Reqs
  <2>5. RequestKept(a)'
    BY <1>2, <2>1, <2>4 DEF RequestKept
  <2>6. ASSUME NEW b \in Action, b # a PROVE RequestKept(b)'
    <3>1. req'[b] = req[b] /\ RequestKept(b) /\ (req[b].at = "prompting" <=> open'.resolve = b) /\ held' = held
      BY <2>1, <2>2, <2>6 DEF RequestsKept, RequestKept
    <3> QED  BY <1>1, <3>1, RequestStays
  <2>7. \A b \in Action : Active(b)' => Active(b)
    BY <1>2, <2>2 DEF Active
  <2> QED  BY <1>1, <2>3, <2>5, <2>6, <2>7 DEF RequestsKept
<1>5. CASE req[a].status # "ok" /\ ~req[a].stepUpRetried
  <2>1. /\ req' = [req EXCEPT ![a].at = "prompting"] /\ held' = Nothing /\ UNCHANGED <<job, call, now, minted, tokens>>
        /\ \E mode \in {"prompt", "setup"} : open' = [open EXCEPT !.mode = mode, !.resolve = a]
    BY <1>5 DEF React, stepUpVars, Replace
  <2>2. \A b \in Action : req'[b] = IF b = a THEN [req[a] EXCEPT !.at = "prompting"] ELSE req[b]
    BY <2>1 DEF PageTyped
  <2>3. /\ open' \in Dialogs /\ open'.resolve = a /\ open'.busy = open.busy /\ open'.mode \in {"prompt", "setup"}
    <3> PICK mode \in {"prompt", "setup"} : open' = [open EXCEPT !.mode = mode, !.resolve = a]
      BY <2>1
    <3>1. mode \in Modes /\ a \in Action \cup {NoAction}
      BY <1>3
    <3> QED  BY <1>3, <3>1 DEF Dialogs
  <2>4. PageTyped'
    BY <1>2, <2>1, <2>2, <2>3 DEF PageTyped, Reqs, Nothing, None, Held
  <2>5. JobsKept'
    BY <1>3, <2>1, <2>3 DEF JobsKept
  <2>6. req'[a].at = "prompting" /\ req'[a].granted = req[a].granted
    BY <1>2, <2>2 DEF Reqs
  <2>7. RequestKept(a)'
    BY <1>2, <2>1, <2>3, <2>6 DEF RequestKept
  <2>8. ASSUME NEW b \in Action, b # a PROVE RequestKept(b)'
    <3>1. req'[b] = req[b] /\ RequestKept(b) /\ req[b].at \in {"new", "done"} /\ open'.resolve # b
      BY <1>2, <2>2, <2>3, <2>8 DEF RequestsKept, Active
    <3> QED  BY <1>1, <3>1, RequestStays
  <2>9. \A b \in Action : Active(b)' => Active(b)
    BY <1>2, <2>2 DEF Active
  <2> QED  BY <1>1, <2>4, <2>5, <2>7, <2>8, <2>9 DEF RequestsKept
<1>6. req[a].stepUpRetried \in BOOLEAN
  BY <1>2 DEF Reqs
<1> QED  BY <1>4, <1>5, <1>6

LEMMA OpensKeep ==
  ASSUME PageInv, openSettings \/ SeesStatus
  PROVE  PageInv'
<1> USE DEF PageInv
<1>1. UNCHANGED <<now, minted, pinHash, call, tokens, held, job, req>>
  BY DEF openSettings, SeesStatus, stepUpVars
<1>2. StoreTyped' /\ StoreKept' /\ Ages
  BY <1>1, StoreStays
<1>3. open \in Dialogs /\ JobsKept
  BY DEF PageTyped
<1>4. open' \in Dialogs /\ open'.busy = open.busy /\ open'.resolve = open.resolve
      /\ (open'.mode = open.mode \/ (open.mode = "none" /\ open'.mode = "settings"))
  <2>1. CASE openSettings
    <3>1. open.resolve = NoAction /\ open.mode = "none"
      BY <2>1, <1>3 DEF JobsKept, openSettings
    <3>2. open' = [[open EXCEPT !.mode = "settings", !.resolve = NoAction] EXCEPT !.hasPin = "unknown"]
      BY <2>1 DEF openSettings, Replace
    <3> QED  BY <1>3, <3>1, <3>2 DEF Dialogs, Modes
  <2>2. CASE SeesStatus
    <3>1. PICK seen \in {"no", "yes"} : open' = [open EXCEPT !.hasPin = seen]
      BY <2>2 DEF SeesStatus
    <3> QED  BY <1>3, <3>1 DEF Dialogs
  <2> QED  BY <2>1, <2>2
<1>5. PageTyped'
  BY <1>1, <1>4 DEF PageTyped
<1>6. JobsKept'
  BY <1>1, <1>3, <1>4 DEF JobsKept
<1>7. RequestsKept'
  BY <1>1, <1>2, <1>4, RequestsStay
<1> QED  BY <1>2, <1>5, <1>6, <1>7

\* The gate: what is left of the store was there, and a request with a token
\* that lives passes.
LEMMA GateStepKeeps ==
  ASSUME PageInv, NEW a \in Action, Gate(a)
  PROVE  PageInv'
<1> USE DEF PageInv
<1>1. UNCHANGED <<now, pinHash, minted, call, held, open, job>>
  BY DEF Gate
<1>2. DOMAIN tokens' \subseteq DOMAIN tokens /\ \A t \in DOMAIN tokens' : tokens'[t] = tokens[t]
  BY DEF Gate, lookUp
<1>3. Ages /\ StoreTyped'
  BY <1>1, <1>2 DEF Ages, StoreTyped
<1>4. StoreKept'
  BY <1>1, <1>2 DEF StoreKept, Dates
<1>5. /\ req[a].at = "sent" /\ RequestKept(a) /\ Active(a) /\ req[a] \in Reqs
      /\ req' = [req EXCEPT ![a].at = "answered", ![a].status = requireStepUp(req[a].token)]
  BY DEF Gate, RequestsKept, Active, PageTyped
<1>6. requireStepUp(req[a].token) \in {"ok", "setup", "token"}
  BY DEF requireStepUp
<1>7. \A b \in Action : req'[b] = IF b = a THEN [req[a] EXCEPT !.at = "answered", !.status = requireStepUp(req[a].token)]
                                ELSE req[b]
  BY <1>5 DEF PageTyped
<1>8. /\ req'[a] \in Reqs /\ req'[a].at = "answered" /\ req'[a].status = requireStepUp(req[a].token)
      /\ req'[a].granted = req[a].granted /\ req'[a].stepUpRetried = req[a].stepUpRetried
  <2> PICK s \in {"ok", "setup", "token"} : s = requireStepUp(req[a].token)
    BY <1>6
  <2>1. req'[a] = [req[a] EXCEPT !.at = "answered", !.status = s]
    BY <1>7
  <2>2. PICK r \in Reqs : r = req[a]
    BY <1>5
  <2>3. /\ [r EXCEPT !.at = "answered", !.status = s] \in Reqs
        /\ [r EXCEPT !.at = "answered", !.status = s].at = "answered"
        /\ [r EXCEPT !.at = "answered", !.status = s].status = s
        /\ [r EXCEPT !.at = "answered", !.status = s].granted = r.granted
        /\ [r EXCEPT !.at = "answered", !.status = s].stepUpRetried = r.stepUpRetried
    BY DEF Reqs
  <2> QED  BY <2>1, <2>2, <2>3
<1>9. PageTyped' /\ JobsKept'
  <2>1. req' \in [Action -> Reqs]
    BY <1>5, <1>7, <1>8 DEF PageTyped
  <2> QED  BY <1>1, <2>1 DEF PageTyped, JobsKept
<1>10. ASSUME req[a].stepUpRetried, Lives(req[a].granted)' PROVE requireStepUp(req[a].token) = "ok"
  <2> PICK t : t = req[a].granted
    OBVIOUS
  <2>1. t \in DOMAIN tokens /\ tokens[t] - now > EXPIRY_BUFFER_MS /\ Lives(t)
    <3>1. t \in DOMAIN tokens' /\ tokens'[t] - now' > EXPIRY_BUFFER_MS
      BY <1>8, <1>10 DEF Lives
    <3> QED  BY <1>1, <1>2, <3>1 DEF Lives
  <2>2. t = req[a].token
    BY <1>5, <1>10, <2>1 DEF RequestKept
  <2>3. t \in 1 .. minted /\ tokens[t] \in Nat /\ now \in Nat /\ minted \in Nat
    BY <2>1 DEF StoreTyped
  <2>4. now < tokens[t] /\ minted > 0
    BY <2>1, <2>3, PageAssumption
  <2>5. pinHash # NoPin
    BY <2>4 DEF StoreKept
  <2> QED  BY <2>1, <2>2, <2>4, <2>5 DEF requireStepUp, isStepUpConfigured, isStepUpTokenValid
<1>11. RequestKept(a)'
  <2>1. req'[a].stepUpRetried /\ Lives(req[a].granted)' => req'[a].status = "ok"
    BY <1>8, <1>10
  <2> QED  BY <1>1, <1>5, <1>8, <2>1 DEF RequestKept
<1>12. ASSUME NEW b \in Action, b # a PROVE RequestKept(b)'
  <2>1. req'[b] = req[b] /\ RequestKept(b) /\ (req[b].at = "prompting" <=> open'.resolve = b) /\ held' = held
    BY <1>1, <1>7, <1>12 DEF RequestsKept, RequestKept
  <2> QED  BY <1>3, <2>1, RequestStays
<1>13. \A b \in Action : Active(b)' => Active(b)
  BY <1>5, <1>7 DEF Active
<1> QED  BY <1>3, <1>4, <1>9, <1>11, <1>12, <1>13 DEF RequestsKept

\* Jobs go on while only what they wait for changes.
LEMMA JobsGoOn ==
  ASSUME JobsKept, UNCHANGED <<open, job>>,
         \A d \in Call : job[d].step = "exchange" =>
           /\ call'[d].at = "verifying" => call'[d].kind = "exchange"
           /\ call'[d].at # "hashing"
           /\ call'[d].at = "answered" /\ call'[d].answer = "ok" => call'[d].token # None
  PROVE  JobsKept'
BY DEF JobsKept

LEMMA NoJobsKept ==
  ASSUME \A c \in Call : job'[c] = NoJob, open' \in Dialogs, open'.mode = "none" => open'.resolve = NoAction /\ ~open'.busy,
         open'.mode \in {"prompt", "setup"} => open'.resolve # NoAction
  PROVE  JobsKept'
<1>1. NoJob.step = "none" /\ NoJob.mode = "none"
  BY DEF NoJob
<1> QED  BY <1>1 DEF JobsKept

\* A call asked for a job, the only one.
LEMMA JobAsks ==
  ASSUME PageInv, NEW c \in Call, NEW j \in Jobs, Asks(c, j), job' = [job EXCEPT ![c] = j], UNCHANGED <<held, req>>,
         \A d \in Call : d # c => job[d] = NoJob, j # NoJob, j.step = "exchange" => j.mode \in {"prompt", "setup"},
         j.mode \in {"prompt", "setup"} => open.resolve # NoAction,
         open' = [open EXCEPT !.busy = TRUE], open.mode # "none"
  PROVE  PageInv'
<1> USE DEF PageInv
<1>1. StoreTyped' /\ StoreKept' /\ Ages
  BY AskKeeps
<1>2. \A d \in Call : job'[d] = IF d = c THEN j ELSE NoJob
  BY DEF PageTyped
<1>3. open' \in Dialogs /\ open'.busy /\ open'.mode = open.mode /\ open'.resolve = open.resolve
  BY DEF PageTyped, Dialogs
<1>4. PageTyped'
  BY <1>3 DEF PageTyped
<1>5. NoJob.step = "none" /\ NoJob.mode = "none"
  BY DEF NoJob
<1>6. j.step = "exchange" =>
        /\ call'[c].at = "verifying" => call'[c].kind = "exchange"
        /\ call'[c].at # "hashing"
        /\ ~(call'[c].at = "answered" /\ call'[c].answer = "ok")
  BY AskKeeps
<1>7. j.step # "exchange" => j.new \in Pin
  BY DEF Asks
<1>8. open.mode \in {"prompt", "setup"} => open.resolve # NoAction
  BY DEF JobsKept
<1>9. JobsKept'
  BY <1>2, <1>3, <1>5, <1>6, <1>7, <1>8 DEF JobsKept
<1>10. RequestsKept'
  BY <1>1, <1>3, RequestsStay
<1> QED  BY <1>1, <1>4, <1>9, <1>10

LEMMA SubmitKeeps ==
  ASSUME PageInv, NEW c \in Call, NEW p \in Pin, NEW q \in Pin, Submit(c, p, q)
  PROVE  PageInv'
<1>1. PICK j : /\ j = [mode |-> open.mode, step |-> IF open.mode = "prompt" THEN "exchange" ELSE "set",
                       given |-> IF open.mode = "prompt" \/ (open.mode = "settings" /\ open.hasPin = "yes") THEN p ELSE NoPin,
                       new |-> IF open.mode = "prompt" THEN NoPin ELSE q,
                       retried |-> FALSE, mounted |-> TRUE]
               /\ job' = [job EXCEPT ![c] = j] /\ Ask(c, j)
  BY DEF Submit
<1>2. open \in Dialogs /\ JobsKept /\ open.mode # "none" /\ ~open.busy /\ open' = [open EXCEPT !.busy = TRUE] /\ UNCHANGED <<held, req>>
  BY DEF PageInv, PageTyped, Submit
<1>3. /\ j.mode = open.mode /\ j.step \in {"exchange", "set"} /\ (j.step = "exchange" <=> open.mode = "prompt")
      /\ j.given \in Pins /\ j.new \in Pins /\ (j.step # "exchange" => j.new \in Pin) /\ j \in Jobs
  BY <1>1, <1>2 DEF Pins, Jobs, Dialogs
<1>4. j # NoJob
  BY <1>2, <1>3 DEF NoJob
<1>5. Asks(c, j)
  BY <1>1, <1>3 DEF Asks
<1>6. \A d \in Call : job[d] = NoJob
  BY <1>2 DEF JobsKept
<1>7. j.mode \in {"prompt", "setup"} => open.resolve # NoAction
  BY <1>2, <1>3 DEF JobsKept
<1>8. j.step = "exchange" => j.mode \in {"prompt", "setup"}
  BY <1>3
<1> QED  BY <1>1, <1>2, <1>3, <1>4, <1>5, <1>6, <1>7, <1>8, JobAsks

\* A job that goes on has the dialog.
LEMMA JobHasDialog ==
  ASSUME PageInv, NEW c \in Call, job[c] # NoJob
  PROVE  /\ job[c] \in Jobs /\ open.busy /\ open.mode # "none" /\ open = [open EXCEPT !.busy = TRUE]
         /\ job[c].step = "exchange" => job[c].mode \in {"prompt", "setup"}
         /\ job[c].mode \in {"prompt", "setup"} => open.resolve # NoAction
         /\ job[c].step # "exchange" => job[c].new \in Pin
         /\ \A d \in Call : d # c => job[d] = NoJob
<1>1. job[c] \in Jobs /\ open \in Dialogs
  BY DEF PageInv, PageTyped
<1>2. open.busy
  BY DEF PageInv, JobsKept
<1>3. open = [open EXCEPT !.busy = TRUE]
  BY <1>1, <1>2 DEF Dialogs
<1> QED  BY <1>1, <1>2, <1>3 DEF PageInv, JobsKept

LEMMA ResendKeeps ==
  ASSUME PageInv, NEW c \in Call, Resend(c)
  PROVE  PageInv'
<1>1. job[c] # NoJob /\ job' = [job EXCEPT ![c].retried = TRUE] /\ Ask(c, job[c]) /\ UNCHANGED <<held, open, req>>
  BY DEF Resend
<1>2. PICK j : j = [job[c] EXCEPT !.retried = TRUE]
  OBVIOUS
<1>3. job[c] \in Jobs /\ job \in [Call -> Jobs]
  BY DEF PageInv, PageTyped
<1>4. /\ j \in Jobs /\ j.step = job[c].step /\ j.given = job[c].given /\ j.new = job[c].new /\ j.mode = job[c].mode
      /\ j.retried
  BY <1>2, <1>3 DEF Jobs
<1>5. j # NoJob
  BY <1>4 DEF NoJob
<1>6. job' = [job EXCEPT ![c] = j]
  BY <1>1, <1>2
<1>7. j.step # "exchange" => j.new \in Pin
  BY <1>1, <1>4, JobHasDialog
<1>8. Asks(c, j)
  BY <1>1, <1>4, <1>7 DEF Asks, Ask, Jobs
<1>9. /\ open' = [open EXCEPT !.busy = TRUE] /\ open.mode # "none" /\ \A d \in Call : d # c => job[d] = NoJob
      /\ j.step = "exchange" => j.mode \in {"prompt", "setup"}
      /\ j.mode \in {"prompt", "setup"} => open.resolve # NoAction
  BY <1>1, <1>4, JobHasDialog
<1> QED  BY <1>1, <1>4, <1>5, <1>6, <1>8, <1>9, JobAsks

LEMMA SetUpKeeps ==
  ASSUME PageInv, NEW c \in Call, SetUp(c)
  PROVE  PageInv'
<1>1. PICK j : j = [job[c] EXCEPT !.step = "exchange", !.given = job[c].new, !.retried = FALSE]
               /\ job' = [job EXCEPT ![c] = j] /\ Ask(c, j)
  BY DEF SetUp
<1>2. job[c].mode = "setup" /\ UNCHANGED <<held, open, req>> /\ job[c] \in Jobs
  BY DEF SetUp, PageInv, PageTyped
<1>3. job[c] # NoJob
  BY <1>2 DEF NoJob
<1>4. j \in Jobs /\ j.step = "exchange" /\ j.mode = "setup"
  BY <1>1, <1>2 DEF Jobs
<1>5. j # NoJob
  BY <1>4 DEF NoJob
<1>6. Asks(c, j)
  BY <1>1, <1>4 DEF Asks, Jobs
<1>7. /\ open' = [open EXCEPT !.busy = TRUE] /\ open.mode # "none" /\ \A d \in Call : d # c => job[d] = NoJob
      /\ open.resolve # NoAction
  BY <1>2, <1>3, JobHasDialog
<1> QED  BY <1>1, <1>2, <1>4, <1>5, <1>6, <1>7, JobAsks

\* A dialog that closes resumes the request that waits for it, with what it holds.
LEMMA CloseKeeps ==
  ASSUME StoreTyped, StoreTyped', Ages, PageTyped, RequestsKept, NEW token \in Nat, close(token), token <= minted',
         token = None => held' = held,
         token # None => open.resolve # NoAction /\ held'.token = token /\ Dates(held.token, held.expiresAt)'
  PROVE  req' \in [Action -> Reqs] /\ RequestsKept'
<1>0. open' = Closed /\ open'.resolve = NoAction
  BY DEF close, Closed
<1>1. CASE open.resolve = NoAction
  <2>1. req' = req /\ open'.resolve = open.resolve /\ held' = held
    BY <1>0, <1>1 DEF close
  <2> QED  BY <2>1, RequestsStay DEF PageTyped
<1>2. CASE open.resolve # NoAction
  <2> PICK a \in Action : a = open.resolve
    BY <1>2 DEF PageTyped, Dialogs
  <2>1. req[a].at = "prompting" /\ RequestKept(a) /\ Active(a) /\ req[a] \in Reqs
    BY DEF RequestsKept, RequestKept, Active, PageTyped
  <2>2. \A b \in Action : b # a => ~Active(b)
    BY <2>1 DEF RequestsKept
  <2> PICK r : r = IF token = None THEN [req[a] EXCEPT !.at = "done", !.status = "cancelled"]
                   ELSE [req[a] EXCEPT !.at = "sending", !.granted = token, !.stepUpRetried = TRUE]
    OBVIOUS
  <2>3. req' = [req EXCEPT ![a] = r]
    BY <1>2 DEF close, Resolved
  <2>4. \A b \in Action : req'[b] = IF b = a THEN r ELSE req[b]
    BY <2>3 DEF PageTyped
  <2>5. /\ r \in Reqs
        /\ token = None => r.at = "done" /\ r.granted = req[a].granted
        /\ token # None => r.at = "sending" /\ r.granted = token /\ r.stepUpRetried
    BY <2>1 DEF Reqs
  <2>6. req' \in [Action -> Reqs]
    BY <2>3, <2>5 DEF PageTyped
  <2>7. a # NoAction
    BY PageAssumption
  <2>8. RequestKept(a)'
    <3>1. CASE token = None
      <4>1. req'[a].at = "done" /\ req'[a].granted = req[a].granted /\ req[a].granted <= minted
        BY <2>1, <2>4, <2>5, <3>1 DEF RequestKept
      <4>2. req[a].granted <= minted'
        BY <2>1, <4>1 DEF Reqs, StoreTyped, Ages
      <4> QED  BY <1>0, <2>7, <4>1, <4>2 DEF RequestKept
    <3>2. CASE token # None
      <4>1. req'[a].at = "sending" /\ req'[a].granted = token
        BY <2>4, <2>5, <3>2
      <4> QED  BY <1>0, <2>7, <3>2, <4>1 DEF RequestKept
    <3> QED  BY <3>1, <3>2
  <2>9. ASSUME NEW b \in Action, b # a PROVE RequestKept(b)'
    <3>1. req'[b] = req[b] /\ ~Active(b) /\ RequestKept(b)
      BY <2>2, <2>4, <2>9 DEF RequestsKept
    <3>2. req[b].at \in {"new", "done"} /\ open'.resolve # b
      BY <1>0, <3>1, PageAssumption DEF Active
    <3> QED  BY <3>1, <3>2, RequestStays
  <2>10. \A b \in Action : Active(b)' => Active(b)
    BY <2>1, <2>4 DEF Active
  <2> QED  BY <2>6, <2>8, <2>9, <2>10 DEF RequestsKept
<1> QED  BY <1>1, <1>2

LEMMA ClosedIs ==
  Closed \in Dialogs /\ Closed.mode = "none" /\ Closed.resolve = NoAction /\ ~Closed.busy
  /\ NoJob \in Jobs /\ NoJob.mode = "none" /\ NoJob.step = "none" /\ [NoJob EXCEPT !.mounted = FALSE] = NoJob
<1>1. Closed \in Dialogs /\ Closed.mode = "none" /\ Closed.resolve = NoAction /\ ~Closed.busy
  BY DEF Closed, Dialogs, Modes
<1>2. NoJob \in Jobs /\ NoJob.mode = "none" /\ NoJob.step = "none"
  <2>1. NoPin \in Pins /\ "none" \in Modes
    BY DEF Pins, Modes
  <2> QED  BY <2>1 DEF NoJob, Jobs
<1>3. [NoJob EXCEPT !.mounted = FALSE] = NoJob
  <2>1. \A j \in Jobs : j.mounted = FALSE => [j EXCEPT !.mounted = FALSE] = j
    BY DEF Jobs
  <2>2. NoJob.mounted = FALSE
    BY DEF NoJob
  <2> QED  BY <1>2, <2>1, <2>2
<1> QED  BY <1>1, <1>2, <1>3

LEMMA DismissKeeps ==
  ASSUME PageInv, Patient, Dismiss
  PROVE  PageInv'
<1> USE DEF PageInv
<1>1. UNCHANGED <<now, minted, pinHash, call, tokens, held>> /\ close(None) /\ open' = Closed /\ job' = Unmounted(job)
  BY DEF Dismiss, close, stepUpVars
<1>2. StoreTyped' /\ StoreKept' /\ Ages
  BY <1>1, StoreStays
<1>3. ~open.busy
  BY <1>1 DEF Patient
<1>4. \A c \in Call : job[c] = NoJob
  BY <1>3 DEF JobsKept
<1>5. job' = [c \in Call |-> NoJob]
  <2>1. \A c \in Call : [job[c] EXCEPT !.mounted = FALSE] = NoJob
    BY <1>4, ClosedIs
  <2> QED  BY <1>1, <2>1 DEF Unmounted
<1>6. JobsKept'
  BY <1>1, <1>5, ClosedIs, NoJobsKept
<1>7. req' \in [Action -> Reqs] /\ RequestsKept'
  <2>1. None \in Nat /\ None <= minted'
    BY <1>2 DEF None, StoreTyped
  <2> QED  BY <1>1, <1>2, <2>1, CloseKeeps
<1>8. PageTyped'
  BY <1>1, <1>5, <1>7, ClosedIs DEF PageTyped
<1> QED  BY <1>2, <1>6, <1>7, <1>8

LEMMA OverKeeps ==
  ASSUME StoreTyped, StoreKept, NEW c \in Call, Over(c)
  PROVE  StoreTyped' /\ StoreKept' /\ Ages /\ UNCHANGED <<now, minted, tokens>>
<1>1. UNCHANGED <<now, pinHash, tokens, minted>> /\ call' = [call EXCEPT ![c] = Idle]
  BY DEF Over
<1>2. Ages /\ now' \in Nat /\ minted' \in Nat /\ pinHash' \in Pins /\ DOMAIN tokens' \subseteq 1 .. minted'
      /\ \A t \in DOMAIN tokens' : tokens'[t] \in Nat
  BY <1>1 DEF Ages, StoreTyped
<1>3. Idle \in Calls /\ Idle.at = "idle" /\ Idle.token <= minted' /\ Idle.token \notin DOMAIN tokens'
  <2>1. Idle \in Calls /\ Idle.at = "idle" /\ Idle.token = 0
    BY IdleIs DEF None
  <2>2. 0 <= minted' /\ 0 \notin DOMAIN tokens'
    BY <1>2
  <2> QED  BY <2>1, <2>2
<1> QED  BY <1>1, <1>2, <1>3, CallChanges

\* A job that is over was the only one.
LEMMA JobsOver ==
  ASSUME PageInv, NEW c \in Call, job[c] # NoJob
  PROVE  /\ [job EXCEPT ![c] = NoJob] = [d \in Call |-> NoJob]
         /\ Unmounted([job EXCEPT ![c] = NoJob]) = [d \in Call |-> NoJob]
<1>1. job \in [Call -> Jobs] /\ \A d \in Call : d # c => job[d] = NoJob
  BY DEF PageInv, PageTyped, JobsKept
<1>2. [job EXCEPT ![c] = NoJob] = [d \in Call |-> NoJob]
  BY <1>1
<1>3. \A d \in Call : [[e \in Call |-> NoJob][d] EXCEPT !.mounted = FALSE] = NoJob
  BY ClosedIs
<1> QED  BY <1>2, <1>3 DEF Unmounted

LEMMA SubmissionFailsKeeps ==
  ASSUME PageInv, NEW c \in Call, SubmissionFails(c)
  PROVE  PageInv'
<1> USE DEF PageInv
<1>1. job[c] # NoJob /\ job' = [job EXCEPT ![c] = NoJob] /\ Over(c) /\ UNCHANGED <<held, req>>
      /\ open' \in {open, [open EXCEPT !.busy = FALSE]}
  BY DEF SubmissionFails
<1>2. StoreTyped' /\ StoreKept' /\ Ages
  BY <1>1, OverKeeps
<1>3. job' = [d \in Call |-> NoJob]
  BY <1>1, JobsOver
<1>4. open \in Dialogs /\ open.mode # "none" /\ (open.mode \in {"prompt", "setup"} => open.resolve # NoAction)
  <2>1. open \in Dialogs /\ (open.mode \in {"prompt", "setup"} => open.resolve # NoAction)
    BY DEF PageTyped, JobsKept
  <2>2. open.mode # "none"
    BY <1>1, JobHasDialog
  <2> QED  BY <2>1, <2>2
<1>5. open' \in Dialogs /\ open'.mode = open.mode /\ open'.resolve = open.resolve
  BY <1>1, <1>4 DEF Dialogs
<1>6. JobsKept'
  BY <1>3, <1>4, <1>5, NoJobsKept
<1>7. PageTyped'
  BY <1>1, <1>3, <1>5, ClosedIs DEF PageTyped
<1>8. RequestsKept'
  BY <1>1, <1>2, <1>5, RequestsStay
<1> QED  BY <1>2, <1>6, <1>7, <1>8

LEMMA ExchangedKeeps ==
  ASSUME PageInv, NEW c \in Call, Exchanged(c)
  PROVE  PageInv'
<1> USE DEF PageInv
<1>1. /\ job[c].step = "exchange" /\ call[c].at = "answered" /\ call[c].answer = "ok"
      /\ held' = [token |-> call[c].token, expiresAt |-> call[c].expiresAt] /\ close(call[c].token)
      /\ job' = Unmounted([job EXCEPT ![c] = NoJob]) /\ Over(c) /\ open' = Closed
  BY DEF Exchanged, close
<1>2. job[c] # NoJob
  BY <1>1, ClosedIs
<1>3. StoreTyped' /\ StoreKept' /\ Ages /\ UNCHANGED <<now, minted, tokens>>
  BY <1>1, OverKeeps
<1>4. job' = [d \in Call |-> NoJob]
  BY <1>1, <1>2, JobsOver
<1>5. JobsKept'
  BY <1>1, <1>4, ClosedIs, NoJobsKept
<1>6. open.resolve # NoAction
  BY <1>1, <1>2, JobHasDialog
<1>7. call[c].token \in Nat /\ call[c].expiresAt \in Nat /\ call[c].token # None
  BY <1>1 DEF StoreTyped, Calls, JobsKept
<1>8. PICK t \in Nat : t = call[c].token
  BY <1>7
<1>9. t <= minted /\ Dates(t, call[c].expiresAt) /\ t # None
  BY <1>7, <1>8 DEF StoreKept
<1>10. held'.token = t /\ held'.expiresAt = call[c].expiresAt /\ held' \in Held
  BY <1>1, <1>7, <1>8 DEF Held
<1>11. Dates(held.token, held.expiresAt)'
  BY <1>3, <1>9, <1>10 DEF Dates
<1>12. req' \in [Action -> Reqs] /\ RequestsKept'
  BY <1>1, <1>3, <1>6, <1>8, <1>9, <1>10, <1>11, CloseKeeps
<1>13. PageTyped'
  BY <1>1, <1>4, <1>10, <1>12, ClosedIs DEF PageTyped
<1> QED  BY <1>3, <1>5, <1>12, <1>13

LEMMA SavedKeeps ==
  ASSUME PageInv, NEW c \in Call, Saved(c)
  PROVE  PageInv'
<1> USE DEF PageInv
<1>1. /\ job[c].mode = "settings" /\ close(None) /\ held' = held
      /\ job' = Unmounted([job EXCEPT ![c] = NoJob]) /\ Over(c) /\ open' = Closed
  BY DEF Saved, close
<1>2. job[c] # NoJob
  BY <1>1, ClosedIs
<1>3. StoreTyped' /\ StoreKept' /\ Ages
  BY <1>1, OverKeeps
<1>4. job' = [d \in Call |-> NoJob]
  BY <1>1, <1>2, JobsOver
<1>5. JobsKept'
  BY <1>1, <1>4, ClosedIs, NoJobsKept
<1>6. None \in Nat /\ None <= minted'
  BY <1>3 DEF None, StoreTyped
<1>7. req' \in [Action -> Reqs] /\ RequestsKept'
  BY <1>1, <1>3, <1>6, CloseKeeps
<1>8. PageTyped'
  BY <1>1, <1>4, <1>7, ClosedIs DEF PageTyped
<1> QED  BY <1>3, <1>5, <1>7, <1>8

\* The daemon's steps under the page.
Mints(c, t) ==
  /\ mintStepUpToken(t)
  /\ call' = [call EXCEPT ![c] = [Idle EXCEPT !.at = "answered", !.answer = "ok", !.token = t,
                                    !.expiresAt = now + STEP_UP_TOKEN_TTL_MS]]
  /\ UNCHANGED <<now, pinHash>>

LEMMA MintKeeps ==
  ASSUME StoreTyped, StoreKept, pinHash # NoPin, NEW c \in Call, NEW t \in 1 .. MaxTokens, Mints(c, t)
  PROVE  /\ StoreTyped' /\ StoreKept' /\ Ages
         /\ \A d \in Call : d # c => call'[d] = call[d]
         /\ call'[c].at = "answered" /\ call'[c].token # None
<1>1. UNCHANGED <<now, pinHash>> /\ mintStepUpToken(t)
  BY DEF Mints
<1>2. now \in Nat /\ minted \in Nat /\ pinHash \in Pins /\ DOMAIN tokens \subseteq 1 .. minted
      /\ \A k \in DOMAIN tokens : tokens[k] \in Nat
  BY DEF StoreTyped
<1> PICK at : at = now + STEP_UP_TOKEN_TTL_MS
  OBVIOUS
<1>3. t = minted + 1 /\ minted' = t /\ t \in Nat /\ t > 0 /\ at \in Nat
  BY <1>1, <1>2, LimiterAssumption DEF mintStepUpToken
<1>4. DOMAIN tokens' = DOMAIN pruneExpiredStepUpTokens \cup {t} /\ DOMAIN pruneExpiredStepUpTokens \subseteq DOMAIN tokens
      /\ tokens'[t] = at /\ \A k \in DOMAIN tokens' : k # t => tokens'[k] = tokens[k]
  BY <1>1 DEF mintStepUpToken, pruneExpiredStepUpTokens
<1>5. DOMAIN tokens' \subseteq 1 .. minted' /\ \A k \in DOMAIN tokens' : tokens'[k] \in Nat
  BY <1>2, <1>3, <1>4
<1>6. Ages
  BY <1>1, <1>2, <1>3, <1>4 DEF Ages
<1> PICK u : u = [Idle EXCEPT !.at = "answered", !.answer = "ok", !.token = t, !.expiresAt = at]
  OBVIOUS
<1>7. u \in Calls /\ u.at = "answered" /\ u.token = t /\ u.expiresAt = at
  BY <1>3, IdleIs DEF Calls, Answers
<1>8. call' = [call EXCEPT ![c] = u]
  BY DEF Mints
<1>9. now' \in Nat /\ minted' \in Nat /\ pinHash' \in Pins /\ pinHash' # NoPin
  BY <1>1, <1>2, <1>3
<1>10. u.token <= minted' /\ (u.token \in DOMAIN tokens' => tokens'[u.token] = u.expiresAt)
  BY <1>3, <1>4, <1>7
<1>11. u.at # "verifying" /\ u.at # "hashing" /\ u.at \notin {"verifying", "hashing"}
  BY <1>7
<1>12. StoreTyped' /\ StoreKept'
  BY <1>5, <1>6, <1>7, <1>8, <1>9, <1>10, <1>11, CallChanges
<1>13. \A d \in Call : call'[d] = IF d = c THEN u ELSE call[d]
  BY <1>8 DEF StoreTyped
<1>14. u.token # None
  BY <1>3, <1>7 DEF None
<1> QED  BY <1>6, <1>7, <1>12, <1>13, <1>14

LEMMA VerifiedKeeps ==
  ASSUME StoreTyped, StoreKept, NEW c \in Call, Verified(c)
  PROVE  /\ StoreTyped' /\ StoreKept' /\ Ages
         /\ \A d \in Call : d # c => call'[d] = call[d]
         /\ call[c].at = "verifying"
         /\ call'[c].at \in {"hashing", "answered"}
         /\ call'[c].at = "hashing" => call[c].kind = "set"
         /\ call'[c].at = "answered" /\ call'[c].answer = "ok" => call'[c].token # None
<1>1. UNCHANGED <<now, pinHash>> /\ call[c].at = "verifying" /\ call[c] \in Calls /\ pinHash # NoPin
  BY DEF Verified, StoreTyped, StoreKept
<1>2. now \in Nat /\ minted \in Nat /\ pinHash \in Pins /\ DOMAIN tokens \subseteq 1 .. minted
      /\ \A t \in DOMAIN tokens : tokens[t] \in Nat
  BY DEF StoreTyped
<1>3. ASSUME NEW u \in Calls, call' = [call EXCEPT ![c] = u], UNCHANGED <<tokens, minted>>,
             u.at \in {"hashing", "answered"}, u.at = "hashing" => u.kind = "set" /\ u.new \in Pin /\ call[c].kind = "set",
             u.at = "answered" => u.answer # "ok",
             u.token <= minted, u.token \in DOMAIN tokens => tokens[u.token] = u.expiresAt
      PROVE  /\ StoreTyped' /\ StoreKept' /\ Ages
             /\ \A d \in Call : d # c => call'[d] = call[d]
             /\ call'[c] = u
  <2>1. Ages /\ pinHash' = pinHash /\ now' = now
    BY <1>1, <1>2, <1>3 DEF Ages
  <2>2. StoreTyped' /\ StoreKept'
    BY <1>1, <1>2, <1>3, <2>1, CallChanges
  <2> QED  BY <1>3, <2>1, <2>2 DEF StoreTyped
<1>4. CASE Answered(c, "invalid_pin") /\ UNCHANGED <<tokens, minted>>
  <2> PICK u : u = [Idle EXCEPT !.at = "answered", !.answer = "invalid_pin"]
    OBVIOUS
  <2>1. u \in Calls /\ u.at = "answered" /\ u.answer = "invalid_pin" /\ u.token = 0
    BY IdleIs DEF Answers
  <2>2. call' = [call EXCEPT ![c] = u]
    BY <1>4 DEF Answered
  <2>3. u.token <= minted /\ u.token \notin DOMAIN tokens
    BY <1>2, <2>1
  <2>4. StoreTyped' /\ StoreKept' /\ Ages /\ (\A d \in Call : d # c => call'[d] = call[d]) /\ call'[c] = u
    BY <1>3, <1>4, <2>1, <2>2, <2>3
  <2> QED  BY <1>1, <2>1, <2>4
<1>5. CASE call[c].kind = "set" /\ call' = [call EXCEPT ![c].at = "hashing"] /\ UNCHANGED <<tokens, minted>>
  <2> PICK u : u = [call[c] EXCEPT !.at = "hashing"]
    OBVIOUS
  <2>1. u \in Calls /\ u.at = "hashing" /\ u.kind = "set" /\ u.new = call[c].new /\ u.token = call[c].token
        /\ u.expiresAt = call[c].expiresAt
    BY <1>1, <1>5 DEF Calls
  <2>2. call' = [call EXCEPT ![c] = u]
    BY <1>5
  <2>3. call[c].new \in Pin /\ call[c].token <= minted /\ (call[c].token \in DOMAIN tokens => tokens[call[c].token] = call[c].expiresAt)
    BY <1>1, <1>5 DEF StoreKept, Dates
  <2>4. StoreTyped' /\ StoreKept' /\ Ages /\ (\A d \in Call : d # c => call'[d] = call[d]) /\ call'[c] = u
    BY <1>3, <1>5, <2>1, <2>2, <2>3
  <2> QED  BY <1>1, <1>5, <2>1, <2>4
<1>6. CASE \E t \in 1 .. MaxTokens :
             /\ mintStepUpToken(t)
             /\ call' = [call EXCEPT ![c] = [Idle EXCEPT !.at = "answered", !.answer = "ok", !.token = t,
                                               !.expiresAt = now + STEP_UP_TOKEN_TTL_MS]]
  <2> PICK t \in 1 .. MaxTokens : Mints(c, t)
    BY <1>1, <1>6 DEF Mints
  <2> QED  BY <1>1, MintKeeps
<1> QED  BY <1>4, <1>5, <1>6 DEF Verified

LEMMA SetPinKeeps ==
  ASSUME StoreTyped, StoreKept, NEW c \in Call, setStepUpPin(c)
  PROVE  /\ StoreTyped' /\ StoreKept' /\ Ages
         /\ \A d \in Call : d # c => call'[d] = call[d]
         /\ call[c].at = "hashing"
<1>1. UNCHANGED <<now, tokens, minted>> /\ call[c].at = "hashing" /\ call[c].kind = "set" /\ call[c].new \in Pin
  BY DEF setStepUpPin, StoreKept
<1>2. Ages /\ now' \in Nat /\ minted' \in Nat /\ DOMAIN tokens' \subseteq 1 .. minted'
      /\ \A t \in DOMAIN tokens' : tokens'[t] \in Nat
  BY <1>1 DEF Ages, StoreTyped
<1>3. pinHash' \in Pins /\ (pinHash # NoPin => pinHash' # NoPin)
  BY <1>1, NoPinAssumption DEF setStepUpPin, StoreTyped, Pins
<1>4. PICK what \in {"ok", "failed"} : Answered(c, what)
  BY DEF setStepUpPin
<1> PICK u : u = [Idle EXCEPT !.at = "answered", !.answer = what]
  OBVIOUS
<1>5. u \in Calls /\ u.at = "answered" /\ u.token = 0 /\ call' = [call EXCEPT ![c] = u]
  BY <1>4, IdleIs DEF Answers, Answered
<1>6. u.token <= minted' /\ u.token \notin DOMAIN tokens'
  BY <1>2, <1>5
<1>7. StoreTyped' /\ StoreKept'
  BY <1>1, <1>2, <1>3, <1>5, <1>6, CallChanges
<1> QED  BY <1>1, <1>2, <1>5, <1>7 DEF StoreTyped

LEMMA RestartKeeps ==
  ASSUME StoreTyped, StoreKept, StepUpRestart
  PROVE  /\ StoreTyped' /\ StoreKept' /\ Ages
         /\ \A d \in Call : \/ call'[d] = call[d]
                            \/ call'[d].at = "answered" /\ call'[d].answer = "failed"
<1>1. UNCHANGED <<now, pinHash, minted>> /\ tokens' = <<>> /\ DOMAIN tokens' = {}
  BY DEF StepUpRestart
<1> PICK u : u = [Idle EXCEPT !.at = "answered"]
  OBVIOUS
<1>2. u \in Calls /\ u.at = "answered" /\ u.answer = "failed" /\ u.token = 0
  BY IdleIs DEF Calls, Idle, None
<1>3. \A d \in Call : call'[d] = IF call[d].at \in {"verifying", "hashing"} THEN u ELSE call[d]
  BY DEF StepUpRestart
<1>4. call' \in [Call -> Calls]
  <2>1. call' = [d \in Call |-> IF call[d].at \in {"verifying", "hashing"} THEN u ELSE call[d]]
    BY DEF StepUpRestart
  <2> QED  BY <1>2, <2>1 DEF StoreTyped
<1>5. StoreTyped' /\ Ages
  BY <1>1, <1>4 DEF StoreTyped, Ages
<1>6. StoreKept'
  <2>1. u.token <= minted
    BY <1>2 DEF StoreTyped
  <2> QED  BY <1>1, <1>2, <1>3, <2>1 DEF StoreKept, Dates
<1> QED  BY <1>2, <1>3, <1>5, <1>6

LEMMA TickKeeps ==
  ASSUME StoreTyped, StoreKept, Tick
  PROVE  StoreTyped' /\ StoreKept' /\ Ages /\ call' = call
BY DEF StoreTyped, StoreKept, Tick, Ages, Dates

LEMMA DaemonKeeps ==
  ASSUME PageInv, UNCHANGED pageVars, StepUpRestart \/ Tick \/ \E c \in Call : Verified(c) \/ setStepUpPin(c)
  PROVE  PageInv'
<1> USE DEF PageInv
<1>1. UNCHANGED <<held, open, job, req>>
  BY DEF pageVars
<1> DEFINE WaitsOn == \A d \in Call : job[d].step = "exchange" =>
      /\ call'[d].at = "verifying" => call'[d].kind = "exchange"
      /\ call'[d].at # "hashing"
      /\ call'[d].at = "answered" /\ call'[d].answer = "ok" => call'[d].token # None
<1>2. StoreTyped' /\ StoreKept' /\ Ages /\ WaitsOn
  <2>1. CASE StepUpRestart
    BY <2>1, RestartKeeps DEF JobsKept
  <2>2. CASE Tick
    BY <2>2, TickKeeps DEF JobsKept
  <2>3. ASSUME NEW c \in Call, Verified(c) PROVE StoreTyped' /\ StoreKept' /\ Ages /\ WaitsOn
    BY <2>3, VerifiedKeeps DEF JobsKept
  <2>4. ASSUME NEW c \in Call, setStepUpPin(c) PROVE StoreTyped' /\ StoreKept' /\ Ages /\ WaitsOn
    BY <2>4, SetPinKeeps DEF JobsKept
  <2> QED  BY <2>1, <2>2, <2>3, <2>4
<1>3. JobsKept'
  BY <1>1, <1>2, JobsGoOn
<1>4. RequestsKept'
  BY <1>1, <1>2, RequestsStay
<1>5. PageTyped'
  BY <1>1 DEF PageTyped
<1> QED  BY <1>2, <1>3, <1>4, <1>5

LEMMA PageKeeps ==
  ASSUME PageInv, PageNext, Patient
  PROVE  PageInv'
<1>1. ASSUME NEW a \in Action, Start(a) \/ Send(a) \/ Gate(a) \/ React(a) PROVE PageInv'
  BY <1>1, StartKeeps, SendKeeps, GateStepKeeps, ReactKeeps
<1>2. ASSUME openSettings \/ SeesStatus \/ Dismiss PROVE PageInv'
  BY <1>2, OpensKeep, DismissKeeps
<1>3. ASSUME NEW c \in Call, NEW p \in Pin, NEW q \in Pin, Submit(c, p, q) PROVE PageInv'
  BY <1>3, SubmitKeeps
<1>4. ASSUME NEW c \in Call, Resend(c) \/ SubmissionFails(c) \/ SetUp(c) \/ Exchanged(c) \/ Saved(c) PROVE PageInv'
  BY <1>4, ResendKeeps, SubmissionFailsKeeps, SetUpKeeps, ExchangedKeeps, SavedKeeps
<1>5. ASSUME StepUpRestart \/ Tick \/ \E c \in Call : Verified(c) \/ setStepUpPin(c), UNCHANGED pageVars PROVE PageInv'
  BY <1>5, DaemonKeeps
<1> QED  BY <1>1, <1>2, <1>3, <1>4, <1>5 DEF PageNext

LEMMA PageServes == PageInv => PromptsServe
<1> SUFFICES ASSUME PageInv PROVE PromptsServe
  OBVIOUS
<1>1. PromptHasOwner
  BY DEF PageInv, RequestsKept, RequestKept, PromptHasOwner
<1>2. ASSUME NEW a \in Action, req[a].at = "answered", req[a].stepUpRetried, req[a].status # "ok",
             req[a].granted \in DOMAIN tokens
      PROVE  tokens[req[a].granted] - now <= EXPIRY_BUFFER_MS
  <2>1. ~Lives(req[a].granted)
    BY <1>2 DEF PageInv, RequestsKept, RequestKept
  <2> PICK t : t = req[a].granted
    OBVIOUS
  <2>2. tokens[t] \in Nat /\ now \in Nat /\ ~(tokens[t] - now > EXPIRY_BUFFER_MS)
    BY <1>2, <2>1 DEF PageInv, StoreTyped, Lives
  <2>3. tokens[t] - now <= EXPIRY_BUFFER_MS
    BY <2>2, PageAssumption
  <2> QED  BY <2>3
<1> QED  BY <1>1, <1>2 DEF ConfirmedProceeds, PromptsServe

\* On the page of an operator who does one gated request at a time, and leaves a
\* busy dialog to its call, a request that waits for the PIN is the one whose
\* dialog is open, and one that was granted a token passes the gate as long as
\* the daemon has it and it is young.
THEOREM RequestsAreServed == MCSpec => []CalmPromptsServe
<1> DEFINE I == env = "page" => PageInv
<1>1. MCInit => I
  BY PageBegins DEF MCInit
<1>2. I /\ [MCNext]_mcVars => I'
  <2> SUFFICES ASSUME I, [MCNext]_mcVars, env' = "page" PROVE PageInv'
    OBVIOUS
  <2>1. CASE PageOnlyNext
    <3>1. PageInv /\ PageNext /\ Patient
      BY <2>1 DEF PageOnlyNext, In
    <3> QED  BY <3>1, PageKeeps
  <2>2. CASE UNCHANGED mcVars
    <3>1. PageInv /\ UNCHANGED <<now, minted, pinHash, call, tokens, held, open, job, req>>
      BY <2>2 DEF mcVars, stepUpVars, pageVars
    <3>2. StoreTyped' /\ StoreKept' /\ Ages
      BY <3>1, StoreStays DEF PageInv
    <3>3. RequestsKept'
      BY <3>1, <3>2, RequestsStay DEF PageInv
    <3>4. PageTyped' /\ JobsKept'
      BY <3>1 DEF PageInv, PageTyped, JobsKept
    <3> QED  BY <3>2, <3>3, <3>4 DEF PageInv
  <2>3. ~(ClientsNext \/ GateOnlyNext \/ ChatOnlyNext \/ CalmNext \/ TerminalOnlyNext)
    BY DEF ClientsNext, GateOnlyNext, ChatOnlyNext, CalmNext, TerminalOnlyNext, In
  <2> QED  BY <2>1, <2>2, <2>3 DEF MCNext
<1>3. I => CalmPromptsServe
  BY PageServes DEF CalmPromptsServe
<1> QED  BY <1>1, <1>2, <1>3, PTL DEF MCSpec

-----------------------------------------------------------------------------
(* Chat: the streams of the page, and its transcript.                      *)

Loads == [ch : Channel, gen : Nat, kind : {"history", "reload"}, answered : BOOLEAN,
          answer : SUBSET Nat, failed : BOOLEAN, sees : BOOLEAN]
Cycles == [ch : Channel, gen : Nat]
Sources == [n : Nat, ch : Channel, gen : Nat, at : {"connecting", "open", "broken"}]
Sendings == [ch : Channel, note : Nat, written : BOOLEAN]

ChatTyped ==
  /\ selected \in Channel \cup {NoChannel} /\ channels \in BOOLEAN
  /\ connectGen \in Nat /\ turnEs \in Nat /\ issued \in Nat
  /\ loads \subseteq Loads /\ opening \subseteq Cycles /\ streams \subseteq Sources
  /\ notes \in Nat /\ transcript \in [Channel -> SUBSET Nat] /\ sends \subseteq Sendings

\* A cycle of the page reads its history, then awaits a ticket, then has its
\* event source; what an earlier cycle left has a smaller generation.
OneCycle ==
  /\ \A l \in loads : l.gen <= connectGen
  /\ \A o \in opening : o.gen <= connectGen
  /\ \A l, k \in loads : l.kind = "history" /\ k.kind = "history" /\ l.gen = connectGen /\ k.gen = connectGen => l = k
  /\ \A l \in loads : l.kind = "history" /\ l.gen = connectGen =>
       l.ch = selected /\ streams = {} /\ \A o \in opening : o.gen # connectGen
  /\ \A o \in opening : o.gen = connectGen => o.ch = selected /\ streams = {}

ChatInv == ChatTyped /\ OneCycle /\ StreamsFollowSelection

\* While the operator waits: what is under way is of the selected channel, and
\* a line that is a transcript's is known, or the echo of the message under way.
CalmChat ==
  /\ lines \in Seq(Nat)
  /\ \A l \in loads : l.ch = selected /\ l.answer \subseteq transcript[l.ch]
  /\ sends # {} => loads = {}
  /\ \A s, t \in sends : s = t
  /\ \A s \in sends : /\ s.ch = selected /\ s.note \in 1 .. notes
                      /\ ~s.written => \A c \in Channel : s.note \notin transcript[c]
  /\ \A c \in Channel : transcript[c] \subseteq 1 .. notes
  /\ \A c, d \in Channel : c # d => transcript[c] \cap transcript[d] = {}
  /\ \A i \in DOMAIN lines :
       /\ lines[i] \in 1 .. notes
       /\ \/ lines[i] \in seenIds \/ \E s \in sends : s.note = lines[i]
          \/ \A c \in Channel : lines[i] \notin transcript[c]
  /\ TranscriptTrue

LEMMA ListOfSet ==
  ASSUME NEW S, IsFiniteSet(S)
  PROVE  /\ SetToSeq(S) \in Seq(S) /\ IsInjective(SetToSeq(S))
<1>1. PICK n \in Nat : ExistsBijection(1 .. n, S)
  BY FS_NatBijection
<1>2. PICK f : f \in Bijection(1 .. n, S)
  BY <1>1 DEF ExistsBijection
<1>3. n = Cardinality(S)
  BY <1>1, FS_CountingElements
<1>4. f \in [1 .. n -> S] /\ IsInjective(f)
  BY <1>2 DEF Bijection, Injection, IsInjective
<1>5. SetToSeq(S) \in [1 .. n -> S] /\ IsInjective(SetToSeq(S))
  BY <1>3, <1>4 DEF SetToSeq
<1> QED  BY <1>5, SeqDef

LEMMA WiderSeq ==
  ASSUME NEW S, NEW T, S \subseteq T, NEW x \in Seq(S)
  PROVE  x \in Seq(T)
<1>1. Len(x) \in Nat /\ x \in [1 .. Len(x) -> S]
  BY LenProperties
<1>2. x \in [1 .. Len(x) -> T]
  BY <1>1
<1> QED  BY <1>1, <1>2, SeqDef

LEMMA AddsOnce ==
  ASSUME NEW s \in Seq(Nat), IsInjective(s), NEW S \in SUBSET Nat, IsFiniteSet(S),
         \A i \in DOMAIN s : s[i] \notin S, NEW t, t = s \o SetToSeq(S)
  PROVE  /\ t \in Seq(Nat) /\ IsInjective(t)
         /\ \A i \in DOMAIN t : (i \in DOMAIN s /\ t[i] = s[i]) \/ t[i] \in S
<1> PICK u : u = SetToSeq(S)
  OBVIOUS
<1>1. u \in Seq(S) /\ IsInjective(u)
  BY ListOfSet
<1>2. u \in Seq(Nat) /\ \A i \in 1 .. Len(u) : u[i] \in S
  <2>1. \A i \in 1 .. Len(u) : u[i] \in S
    BY <1>1, ElementOfSeq
  <2>2. u \in Seq(Nat)
    BY <1>1, WiderSeq
  <2> QED  BY <2>1, <2>2
<1>3. Len(s) \in Nat /\ Len(u) \in Nat /\ DOMAIN s = 1 .. Len(s) /\ DOMAIN u = 1 .. Len(u)
  BY <1>2, LenProperties
<1>4. /\ t \in Seq(Nat) /\ Len(t) = Len(s) + Len(u) /\ DOMAIN t = 1 .. Len(s) + Len(u)
      /\ \A i \in 1 .. Len(s) + Len(u) : t[i] = IF i <= Len(s) THEN s[i] ELSE u[i - Len(s)]
  BY <1>2, <1>3, ConcatProperties, LenProperties
<1>5. ASSUME NEW i \in DOMAIN t
      PROVE  \/ i <= Len(s) /\ i \in DOMAIN s /\ t[i] = s[i]
             \/ i > Len(s) /\ i - Len(s) \in DOMAIN u /\ t[i] = u[i - Len(s)] /\ t[i] \in S
  BY <1>2, <1>3, <1>4
<1>6. ASSUME NEW i \in DOMAIN t, NEW j \in DOMAIN t, t[i] = t[j] PROVE i = j
  <2>1. CASE i <= Len(s) /\ j <= Len(s)
    BY <1>3, <1>4, <1>5, <1>6, <2>1 DEF IsInjective
  <2>2. CASE i > Len(s) /\ j > Len(s)
    <3>1. i - Len(s) = j - Len(s)
      BY <1>1, <1>3, <1>4, <1>5, <1>6, <2>2 DEF IsInjective
    <3> QED  BY <1>3, <1>4, <3>1
  <2>3. CASE i <= Len(s) /\ j > Len(s)
    BY <1>3, <1>4, <1>5, <1>6, <2>3
  <2>4. CASE i > Len(s) /\ j <= Len(s)
    BY <1>3, <1>4, <1>5, <1>6, <2>4
  <2> QED  BY <1>3, <1>4, <2>1, <2>2, <2>3, <2>4
<1> QED  BY <1>4, <1>5, <1>6 DEF IsInjective

LEMMA LoadsAre ==
  ASSUME NEW c \in Channel, NEW g \in Nat, NEW k \in {"history", "reload"}, channels \in BOOLEAN
  PROVE  /\ Load(c, g, k) \in Loads /\ Load(c, g, k).ch = c /\ Load(c, g, k).gen = g /\ Load(c, g, k).kind = k
         /\ Load(c, g, k).answer = {}
         /\ \A b \in BOOLEAN :
              /\ [Load(c, g, k) EXCEPT !.sees = b] \in Loads
              /\ [Load(c, g, k) EXCEPT !.sees = b].ch = c /\ [Load(c, g, k) EXCEPT !.sees = b].gen = g
              /\ [Load(c, g, k) EXCEPT !.sees = b].kind = k /\ [Load(c, g, k) EXCEPT !.sees = b].answer = {}
BY DEF Load, Loads

\* Every event source is the one that the page knows of.
LEMMA NoOthers ==
  ASSUME StreamsFollowSelection
  PROVE  Others = {}
BY DEF StreamsFollowSelection, Others

\* A selection starts a cycle of its own.
LEMMA SelectFlows ==
  ASSUME ChatInv, NEW c \in Channel, NEW b \in BOOLEAN, Select(c, b), UNCHANGED <<notes, transcript, sends, opening, issued>>,
         channels' \in BOOLEAN
  PROVE  /\ ChatInv' /\ lines' = <<>> /\ seenIds' = {}
         /\ \E l : loads' = loads \cup {l} /\ l.ch = c /\ l.answer = {}
<1> PICK g : g = IF selected = NoChannel THEN connectGen + 1 ELSE connectGen + 2
  OBVIOUS
<1> PICK l : l = [Load(c, g, "history") EXCEPT !.sees = b]
  OBVIOUS
<1>t. ChatTyped /\ OneCycle /\ StreamsFollowSelection
  BY DEF ChatInv
<1>1. /\ selected' = c /\ connectGen' = g /\ streams' = {} /\ turnEs' = 0
      /\ seenIds' = {} /\ lines' = <<>> /\ loads' = loads \cup {l}
  BY <1>t, NoOthers DEF Select
<1>2. connectGen \in Nat /\ g \in Nat /\ connectGen < g
  BY <1>t DEF ChatTyped
<1>3. l \in Loads /\ l.ch = c /\ l.gen = g /\ l.kind = "history" /\ l.answer = {}
  BY <1>t, <1>2, LoadsAre DEF ChatTyped
<1>4. ChatTyped'
  <2>1. /\ notes' = notes /\ transcript' = transcript /\ sends' = sends /\ opening' = opening /\ issued' = issued
        /\ <<>> \in Seq(Nat) /\ 0 \in Nat /\ {} \subseteq Nat /\ {} \subseteq Sources
    OBVIOUS
  <2>2. loads' \subseteq Loads
    BY <1>t, <1>1, <1>3 DEF ChatTyped
  <2> QED  BY <1>t, <1>1, <1>2, <2>1, <2>2 DEF ChatTyped
<1>5. /\ \A k \in loads : k.gen \in Nat /\ k.gen <= connectGen
      /\ \A o \in opening : o.gen \in Nat /\ o.gen <= connectGen
  BY <1>t DEF ChatTyped, OneCycle, Loads, Cycles
<1>6. /\ \A k \in loads : k.gen # g /\ k.gen <= g
      /\ \A o \in opening : o.gen # g /\ o.gen <= g
  BY <1>2, <1>5
<1>7. OneCycle'
  <2>1. opening' = opening /\ \A k \in loads' : k = l \/ k.gen # g
    BY <1>1, <1>6
  <2>2. \A k \in loads' : k.gen <= g
    <3>1. l.gen <= g /\ loads' = loads \cup {l}
      BY <1>1, <1>2, <1>3
    <3>2. \A k \in loads : k.gen <= g
      BY <1>6
    <3> QED  BY <3>1, <3>2
  <2>3. \A k \in loads' : k.gen = g => k.ch = c
    BY <1>3, <2>1
  <2> HIDE DEF Loads
  <2> QED  BY <1>1, <1>6, <2>1, <2>2, <2>3 DEF OneCycle
<1>8. StreamsFollowSelection'
  BY <1>1 DEF StreamsFollowSelection
<1> QED  BY <1>1, <1>3, <1>4, <1>7, <1>8 DEF ChatInv

\* Nothing of the cycles changes but what has been read.
LEMMA CyclesStay ==
  ASSUME ChatInv, ChatTyped', UNCHANGED <<selected, connectGen, turnEs, opening, streams>>,
         \A l \in loads' : l \in loads \/ (l.kind = "reload" /\ l.gen = connectGen)
  PROVE  ChatInv'
BY DEF ChatInv, ChatTyped, OneCycle, StreamsFollowSelection

LEMMA ListFlows ==
  ASSUME ChatInv, ListLoaded
  PROVE  ChatInv'
<1>1. CASE selected # NoChannel
  <2>1. UNCHANGED <<selected, connectGen, viewVars, streamVars, loads, daemonVars, sends>> /\ channels' = TRUE
    BY <1>1 DEF ListLoaded
  <2> QED
    BY <2>1, CyclesStay DEF ChatInv, ChatTyped, viewVars, streamVars, daemonVars
<1>2. CASE selected = NoChannel
  <2>1. Select(First, TRUE) /\ UNCHANGED <<notes, transcript, sends, opening, issued>> /\ channels' \in BOOLEAN
    BY <1>2 DEF ListLoaded, daemonVars
  <2> QED  BY <2>1, SelectFlows, ChatAssumption
<1> QED  BY <1>1, <1>2

LEMMA ReadFlows ==
  ASSUME ChatInv, NEW l \in loads, ReadTranscript(l)
  PROVE  /\ ChatInv'
         /\ \E k : loads' = (loads \ {l}) \cup {k} /\ k.ch = l.ch /\ k.answer \in {transcript[l.ch], l.answer}
<1>t. ChatTyped /\ OneCycle /\ StreamsFollowSelection /\ l \in Loads
  BY DEF ChatInv, ChatTyped
<1>0. ~l.answered
  BY DEF ReadTranscript
<1>1. PICK k : /\ k \in {[l EXCEPT !.answered = TRUE, !.answer = transcript[l.ch]],
                         [l EXCEPT !.answered = TRUE, !.failed = TRUE]}
               /\ loads' = (loads \ {l}) \cup {k}
  BY DEF ReadTranscript
<1>2. transcript[l.ch] \in SUBSET Nat
  BY <1>t DEF ChatTyped, Loads
<1>3. /\ k \in Loads /\ k.ch = l.ch /\ k.gen = l.gen /\ k.kind = l.kind /\ k.answer \in {transcript[l.ch], l.answer}
  BY <1>t, <1>1, <1>2 DEF Loads
<1>4. /\ UNCHANGED <<daemonVars, channels, selected, connectGen, viewVars, sends, streamVars>>
  BY DEF ReadTranscript
<1>5. ChatTyped'
  <2>1. loads' \subseteq Loads
    BY <1>t, <1>1, <1>3 DEF ChatTyped
  <2> QED  BY <1>t, <1>4, <2>1 DEF ChatTyped, daemonVars, viewVars, streamVars
<1>6. OneCycle'
  <2>1. UNCHANGED <<selected, connectGen, opening, streams>>
    BY <1>4 DEF streamVars
  <2> HIDE DEF Loads
  <2>2. \A h \in loads' : (h \in loads /\ h # l) \/ h = k
    BY <1>1
  <2>3. \A h \in loads' : h.gen <= connectGen
    BY <1>t, <1>3, <2>2 DEF OneCycle
  <2>4. \A h \in loads' : h.kind = "history" /\ h.gen = connectGen =>
          h.ch = selected /\ streams = {} /\ \A o \in opening : o.gen # connectGen
    BY <1>t, <1>3, <2>2 DEF OneCycle
  <2>5. \A h, j \in loads' : h.kind = "history" /\ j.kind = "history" /\ h.gen = connectGen /\ j.gen = connectGen => h = j
    <3> SUFFICES ASSUME NEW h \in loads', NEW j \in loads', h.kind = "history", j.kind = "history",
                        h.gen = connectGen, j.gen = connectGen
                 PROVE  h = j
      OBVIOUS
    <3>1. CASE h = k /\ j # k
      BY <1>t, <1>3, <2>2, <3>1 DEF OneCycle
    <3>2. CASE h # k /\ j = k
      BY <1>t, <1>3, <2>2, <3>2 DEF OneCycle
    <3>3. CASE h # k /\ j # k
      BY <1>t, <2>2, <3>3 DEF OneCycle
    <3> QED  BY <3>1, <3>2, <3>3
  <2> QED  BY <1>t, <2>1, <2>3, <2>4, <2>5 DEF OneCycle
<1>7. StreamsFollowSelection'
  BY <1>t, <1>4 DEF StreamsFollowSelection, streamVars
<1> QED  BY <1>1, <1>3, <1>5, <1>6, <1>7 DEF ChatInv

LEMMA HistoryFlows ==
  ASSUME ChatInv, NEW l \in loads, HistoryLoaded(l)
  PROVE  ChatInv'
<1>t. ChatTyped /\ OneCycle /\ StreamsFollowSelection /\ l \in Loads
  BY DEF ChatInv, ChatTyped
<1>1. loads' = loads \ {l} /\ UNCHANGED <<notes, transcript, channels, selected, connectGen, sends>> /\ l.kind = "history"
  BY DEF HistoryLoaded, daemonVars
<1>2. CASE l.gen # connectGen
  <2>1. UNCHANGED <<turnEs, issued, opening, streams>>
    BY <1>2 DEF HistoryLoaded, streamVars
  <2>2. ChatTyped'
    BY <1>t, <1>1, <2>1 DEF ChatTyped
  <2>3. \A k \in loads' : k \in loads
    BY <1>1
  <2> QED  BY <1>1, <2>1, <2>2, <2>3, CyclesStay
<1>3. CASE l.gen = connectGen
  <2>1. openStreams(l.ch, l.gen, l.sees) /\ issued' = issued
    BY <1>3 DEF HistoryLoaded
  <2>2. l.ch = selected /\ streams = {} /\ \A o \in opening : o.gen # connectGen
    BY <1>t, <1>1, <1>3 DEF OneCycle
  <2>3. streams' = {} /\ turnEs' = 0
    BY <1>t, <2>1, NoOthers DEF openStreams
  <2>4. \A o \in opening' : o \in opening \/ o = [ch |-> l.ch, gen |-> l.gen]
    BY <2>1 DEF openStreams
  <2>5. ChatTyped'
    <3>1. opening' \subseteq Cycles
      BY <1>t, <2>4 DEF ChatTyped, Cycles, Loads
    <3>2. loads' \subseteq Loads /\ 0 \in Nat /\ {} \subseteq Sources
      BY <1>t, <1>1 DEF ChatTyped
    <3> QED  BY <1>t, <1>1, <2>1, <2>3, <3>1, <3>2 DEF ChatTyped
  <2>6. \A k \in loads' : ~(k.kind = "history" /\ k.gen = connectGen)
    BY <1>t, <1>1, <1>3 DEF OneCycle
  <2>7. \A o \in opening' : o.gen <= connectGen /\ (o.gen = connectGen => o.ch = selected)
    <3>1. connectGen <= connectGen
      BY <1>t DEF ChatTyped
    <3> QED  BY <1>t, <1>3, <2>2, <2>4, <3>1 DEF OneCycle
  <2>8. OneCycle'
    BY <1>t, <1>1, <2>3, <2>6, <2>7 DEF OneCycle
  <2> QED  BY <2>3, <2>5, <2>8 DEF ChatInv, StreamsFollowSelection
<1> QED  BY <1>2, <1>3

LEMMA ReloadFlows ==
  ASSUME ChatInv, NEW l \in loads, ReloadLoaded(l)
  PROVE  ChatInv'
<1>1. loads' = loads \ {l} /\ UNCHANGED <<notes, transcript, channels, selected, connectGen, sends, turnEs, issued, opening, streams>>
  BY DEF ReloadLoaded, daemonVars, streamVars
<1>2. ChatTyped'
  BY <1>1 DEF ChatInv, ChatTyped
<1> QED  BY <1>1, <1>2, CyclesStay

LEMMA MintedFlows ==
  ASSUME ChatInv, NEW o \in opening, Minted(o)
  PROVE  ChatInv'
<1>t. ChatTyped /\ OneCycle /\ StreamsFollowSelection /\ o \in Cycles
  BY DEF ChatInv, ChatTyped
<1>1. /\ opening' = opening \ {o} /\ issued' = issued + 1
      /\ UNCHANGED <<notes, transcript, channels, selected, connectGen, loads, sends>>
  BY DEF Minted, daemonVars
<1>2. issued + 1 \in Nat
  BY <1>t DEF ChatTyped
<1>3. CASE Stale(o)
  <2>1. UNCHANGED <<streams, turnEs>>
    BY <1>3 DEF Minted
  <2>2. ChatTyped'
    BY <1>t, <1>1, <1>2, <2>1 DEF ChatTyped
  <2>3. OneCycle' /\ StreamsFollowSelection'
    BY <1>t, <1>1, <2>1 DEF OneCycle, StreamsFollowSelection
  <2> QED  BY <2>2, <2>3 DEF ChatInv
<1>4. CASE ~Stale(o)
  <2> PICK e : e = [n |-> issued + 1, ch |-> o.ch, gen |-> o.gen, at |-> "connecting"]
    OBVIOUS
  <2>1. streams' = streams \cup {e} /\ turnEs' = issued + 1
    BY <1>4 DEF Minted
  <2>2. o.gen = connectGen /\ o.ch = selected /\ streams = {}
    BY <1>t, <1>4 DEF Stale, OneCycle
  <2>3. e \in Sources /\ e.ch = selected /\ e.n = issued + 1
    BY <1>t, <1>2, <2>2 DEF Sources, Cycles
  <2>4. ChatTyped'
    <3>1. streams' \subseteq Sources
      BY <2>1, <2>2, <2>3
    <3> QED  BY <1>t, <1>1, <1>2, <2>1, <3>1 DEF ChatTyped
  <2>5. \A q \in opening' : q.gen # connectGen
    <3> SUFFICES ASSUME NEW q \in opening, q # o, q.gen = connectGen PROVE FALSE
      BY <1>1
    <3>1. q.ch = selected /\ q \in Cycles
      BY <1>t DEF OneCycle, ChatTyped
    <3> QED  BY <1>t, <2>2, <3>1 DEF Cycles
  <2>6. \A l \in loads : ~(l.kind = "history" /\ l.gen = connectGen)
    BY <1>t, <2>2 DEF OneCycle
  <2>7. OneCycle'
    BY <1>t, <1>1, <2>5, <2>6 DEF OneCycle
  <2>8. StreamsFollowSelection'
    BY <1>1, <2>1, <2>2, <2>3 DEF StreamsFollowSelection
  <2> QED  BY <2>4, <2>7, <2>8 DEF ChatInv
<1> QED  BY <1>3, <1>4

LEMMA ConnectFlows ==
  ASSUME ChatInv, NEW e \in streams, Connect(e)
  PROVE  ChatInv'
<1>t. ChatTyped /\ OneCycle /\ StreamsFollowSelection /\ e \in Sources
  BY DEF ChatInv, ChatTyped
<1>1. UNCHANGED <<notes, transcript, channels, selected, connectGen, loads, sends, opening, turnEs, issued>>
  BY DEF Connect, daemonVars
<1>2. PICK d : d \in {[e EXCEPT !.at = "open"], [e EXCEPT !.at = "broken"]} /\ streams' = (streams \ {e}) \cup {d}
  BY DEF Connect
<1>3. d \in Sources /\ d.ch = e.ch /\ d.n = e.n
  BY <1>t, <1>2 DEF Sources
<1>4. ChatTyped'
  <2>1. streams' \subseteq Sources
    BY <1>t, <1>2, <1>3 DEF ChatTyped
  <2> QED  BY <1>t, <1>1, <2>1 DEF ChatTyped
<1>5. OneCycle'
  BY <1>t, <1>1 DEF OneCycle
<1>6. StreamsFollowSelection'
  BY <1>t, <1>1, <1>2, <1>3 DEF StreamsFollowSelection
<1> QED  BY <1>4, <1>5, <1>6 DEF ChatInv

LEMMA BreakFlows ==
  ASSUME ChatInv, Break
  PROVE  ChatInv'
<1>t. ChatTyped /\ OneCycle /\ StreamsFollowSelection
  BY DEF ChatInv
<1>1. /\ UNCHANGED <<notes, transcript, channels, selected, connectGen, loads, sends, opening, turnEs, issued>>
      /\ streams' = {[e EXCEPT !.at = "broken"] : e \in streams}
  BY DEF Break
<1>2. \A d \in streams' : \E e \in streams : d \in Sources /\ d.ch = e.ch /\ d.n = e.n
  BY <1>t, <1>1 DEF ChatTyped, Sources
<1>3. ChatTyped'
  <2>1. streams' \subseteq Sources
    BY <1>2
  <2> QED  BY <1>t, <1>1, <2>1 DEF ChatTyped
<1>4. OneCycle'
  BY <1>t, <1>1 DEF OneCycle
<1>5. StreamsFollowSelection'
  BY <1>t, <1>1, <1>2 DEF StreamsFollowSelection
<1> QED  BY <1>3, <1>4, <1>5 DEF ChatInv

LEMMA ErrorFlows ==
  ASSUME ChatInv, NEW e \in streams, onStreamError(e)
  PROVE  ChatInv'
<1>t. ChatTyped /\ OneCycle /\ StreamsFollowSelection /\ e \in Sources
  BY DEF ChatInv, ChatTyped
<1>1. UNCHANGED <<notes, transcript, channels, selected, connectGen, loads, sends, issued>>
  BY DEF onStreamError, daemonVars
<1>2. e.ch = selected /\ streams # {} /\ e.ch \in Channel
  BY <1>t DEF StreamsFollowSelection, Sources
<1>3. CASE ~sseRetried
  <2>1. /\ streams' = {} /\ turnEs' = 0 /\ opening' = opening \cup {[ch |-> e.ch, gen |-> connectGen]}
    BY <1>t, <1>3, NoOthers DEF onStreamError
  <2>2. ChatTyped'
    <3>1. connectGen \in Nat /\ 0 \in Nat /\ {} \subseteq Sources
      BY <1>t DEF ChatTyped
    <3>2. opening' \subseteq Cycles
      BY <1>t, <1>2, <2>1, <3>1 DEF ChatTyped, Cycles
    <3> QED  BY <1>t, <1>1, <2>1, <3>1, <3>2 DEF ChatTyped
  <2>3. \A l \in loads : ~(l.kind = "history" /\ l.gen = connectGen)
    BY <1>t, <1>2 DEF OneCycle
  <2>4. \A o \in opening' : o.gen <= connectGen /\ (o.gen = connectGen => o.ch = selected)
    <3>1. connectGen <= connectGen
      BY <1>t DEF ChatTyped
    <3> QED  BY <1>t, <1>2, <2>1, <3>1 DEF OneCycle
  <2>5. OneCycle'
    BY <1>t, <1>1, <2>1, <2>3, <2>4 DEF OneCycle
  <2> QED  BY <2>1, <2>2, <2>5 DEF ChatInv, StreamsFollowSelection
<1>4. CASE sseRetried
  <2>1. streams' = streams \ {e} /\ UNCHANGED <<turnEs, opening>>
    BY <1>4 DEF onStreamError
  <2>2. ChatTyped'
    BY <1>t, <1>1, <2>1 DEF ChatTyped
  <2>3. OneCycle'
    BY <1>t, <1>1, <1>2, <2>1 DEF OneCycle
  <2>4. StreamsFollowSelection'
    BY <1>t, <1>1, <2>1 DEF StreamsFollowSelection
  <2> QED  BY <2>2, <2>3, <2>4 DEF ChatInv
<1> QED  BY <1>3, <1>4

\* A message, its writing and its answer, and the steps of turns.
LEMMA SendFlows ==
  ASSUME ChatInv, onSend \/ \E s \in sends : writeInbound(s) \/ Sent(s)
  PROVE  ChatInv'
<1>t. ChatTyped
  BY DEF ChatInv
<1>1. CASE onSend
  <2>1. selected \in Channel /\ notes + 1 \in Nat
    BY <1>t, <1>1 DEF onSend, ChatTyped
  <2>2. ChatTyped'
    BY <1>t, <1>1, <2>1 DEF onSend, ChatTyped, Sendings, streamVars
  <2> QED  BY <1>1, <2>2, CyclesStay DEF onSend, streamVars
<1>2. ASSUME NEW s \in sends, writeInbound(s) PROVE ChatInv'
  <2>1. s \in Sendings
    BY <1>t DEF ChatTyped
  <2>2. sends' \subseteq Sendings /\ transcript' \in [Channel -> SUBSET Nat]
    BY <1>t, <1>2, <2>1 DEF writeInbound, ChatTyped, Sendings
  <2>3. ChatTyped'
    BY <1>t, <1>2, <2>2 DEF writeInbound, ChatTyped, streamVars
  <2> QED  BY <1>2, <2>3, CyclesStay DEF writeInbound, streamVars
<1>3. ASSUME NEW s \in sends, Sent(s) PROVE ChatInv'
  <2>1. ChatTyped'
    BY <1>t, <1>3 DEF Sent, ChatTyped, streamVars, daemonVars
  <2> QED  BY <1>3, <2>1, CyclesStay DEF Sent, streamVars
<1> QED  BY <1>1, <1>2, <1>3

LEMMA TurnFlows ==
  ASSUME ChatInv, NEW c \in Channel, TurnWorks(c) \/ TurnDone(c) \/ TurnFails(c)
  PROVE  ChatInv'
<1>t. ChatTyped
  BY DEF ChatInv
<1>1. CASE TurnWorks(c) \/ TurnFails(c)
  <2>1. UNCHANGED <<transcript, notes, loads, EventVars>>
    BY <1>1 DEF TurnWorks, TurnFails
  <2>2. ChatTyped'
    BY <1>t, <2>1 DEF ChatTyped, EventVars, streamVars
  <2> QED  BY <2>1, <2>2, CyclesStay DEF EventVars, streamVars
<1>2. CASE TurnDone(c)
  <2> PICK l : l = Load(c, connectGen, "reload")
    OBVIOUS
  <2>1. /\ UNCHANGED EventVars /\ notes' = notes + 1 /\ transcript' = [transcript EXCEPT ![c] = @ \cup {notes + 1}]
        /\ \A k \in loads' : k \in loads \/ k = l
    BY <1>2 DEF TurnDone
  <2>2. l \in Loads /\ l.kind = "reload" /\ l.gen = connectGen
    BY <1>t, LoadsAre DEF ChatTyped
  <2>3. notes + 1 \in Nat /\ transcript' \in [Channel -> SUBSET Nat] /\ loads' \subseteq Loads
    BY <1>t, <2>1, <2>2 DEF ChatTyped
  <2>4. ChatTyped'
    BY <1>t, <2>1, <2>3 DEF ChatTyped, EventVars, streamVars
  <2>5. \A k \in loads' : k \in loads \/ (k.kind = "reload" /\ k.gen = connectGen)
    BY <2>1, <2>2
  <2> QED  BY <2>1, <2>4, <2>5, CyclesStay DEF EventVars, streamVars
<1> QED  BY <1>1, <1>2

LEMMA PickFlows ==
  ASSUME ChatInv, NEW c \in Channel, onPick(c)
  PROVE  ChatInv'
<1>1. Select(c, TRUE) /\ UNCHANGED <<notes, transcript, sends, opening, issued>> /\ channels' \in BOOLEAN
  BY DEF onPick, daemonVars, ChatInv, ChatTyped
<1> QED  BY <1>1, SelectFlows

LEMMA ChatFlows ==
  ASSUME ChatInv, ChatNext
  PROVE  ChatInv'
BY ListFlows, BreakFlows, SendFlows, PickFlows, TurnFlows, ReadFlows, HistoryFlows, ReloadFlows, MintedFlows,
   ConnectFlows, ErrorFlows DEF ChatNext

LEMMA ChatBegins == ChatInit => ChatInv /\ CalmChat
<1> SUFFICES ASSUME ChatInit PROVE ChatInv /\ CalmChat
  OBVIOUS
<1>1. /\ transcript = [c \in Channel |-> {}] /\ notes = 0 /\ channels = FALSE /\ lines = <<>>
      /\ sends = {} /\ opening = {} /\ streams = {} /\ turnEs = 0 /\ issued = 0
  BY DEF ChatInit
<1>2. \/ selected = NoChannel /\ connectGen = 0 /\ loads = {}
      \/ /\ selected \in Channel /\ connectGen = 1
         /\ loads = {[ch |-> selected, gen |-> 1, kind |-> "history", answered |-> FALSE,
                      answer |-> {}, failed |-> FALSE, sees |-> FALSE]}
  BY ChatAssumption DEF ChatInit
<1>3. \A l \in loads : l \in Loads /\ l.ch = selected /\ l.gen = 1 /\ l.answer = {} /\ connectGen = 1
  <2>1. CASE loads = {}
    BY <2>1
  <2>2. CASE loads # {}
    <3> PICK k : k = [ch |-> selected, gen |-> 1, kind |-> "history", answered |-> FALSE,
                      answer |-> {}, failed |-> FALSE, sees |-> FALSE]
      OBVIOUS
    <3>1. loads = {k} /\ selected \in Channel /\ connectGen = 1
      BY <1>2, <2>2
    <3>2. k \in Loads
      BY <3>1 DEF Loads
    <3>3. k.ch = selected /\ k.gen = 1 /\ k.answer = {}
      OBVIOUS
    <3> QED  BY <3>1, <3>2, <3>3
  <2> QED  BY <2>1, <2>2
<1>4. ChatTyped
  <2>1. selected \in Channel \cup {NoChannel} /\ connectGen \in Nat
    BY <1>2
  <2>2. transcript \in [Channel -> SUBSET Nat]
    BY <1>1
  <2> QED  BY <1>1, <1>3, <2>1, <2>2 DEF ChatTyped
<1>5. OneCycle
  <2>1. \A l, k \in loads : l = k
    BY <1>2
  <2> QED  BY <1>1, <1>3, <2>1 DEF OneCycle
<1>6. StreamsFollowSelection
  BY <1>1 DEF StreamsFollowSelection
<1>7. CalmChat
  <2>1. <<>> \in Seq(Nat) /\ DOMAIN <<>> = {}
    OBVIOUS
  <2> QED  BY <1>1, <1>3, <2>1 DEF CalmChat, TranscriptTrue, IsInjective
<1> QED  BY <1>4, <1>5, <1>6, <1>7 DEF ChatInv

\* A selection clears the transcript; nothing is under way.
LEMMA SelectCalm ==
  ASSUME ChatInv, CalmChat, loads = {}, sends = {}, NEW c \in Channel, NEW b \in BOOLEAN, Select(c, b),
         UNCHANGED <<notes, transcript, sends, opening, issued>>, channels' \in BOOLEAN
  PROVE  CalmChat'
<1>1. lines' = <<>> /\ \E l : loads' = loads \cup {l} /\ l.ch = c /\ l.answer = {}
  BY SelectFlows
<1>2. selected' = c
  BY DEF Select
<1>3. <<>> \in Seq(Nat) /\ DOMAIN <<>> = {}
  OBVIOUS
<1>4. \A l \in loads' : l.ch = selected' /\ l.answer \subseteq transcript[l.ch]
  BY <1>1, <1>2
<1> QED  BY <1>1, <1>3, <1>4 DEF CalmChat, TranscriptTrue, IsInjective

\* A load is read, or is over; the lines are as before.
LEMMA LoadsCalm ==
  ASSUME CalmChat, UNCHANGED <<lines, seenIds, selected, notes, transcript, sends>>, loads # {},
         \A l \in loads' : l.ch = selected /\ l.answer \subseteq transcript[l.ch]
  PROVE  CalmChat'
BY DEF CalmChat, TranscriptTrue

LEMMA AddCalm ==
  ASSUME ChatTyped, CalmChat, NEW l \in loads, loads' = loads \ {l}, addMessages(l.answer),
         UNCHANGED <<selected, notes, transcript, sends>>
  PROVE  CalmChat'
<1> PICK S : S = New(l.answer)
  OBVIOUS
<1>1. sends = {} /\ l.ch = selected /\ l.answer \subseteq transcript[l.ch]
  BY DEF CalmChat
<1>2. selected \in Channel /\ notes \in Nat
  BY <1>1 DEF ChatTyped, Loads
<1>3. transcript[selected] \subseteq 1 .. notes
  BY <1>2 DEF CalmChat
<1>4. S \subseteq 1 .. notes /\ S \subseteq transcript[selected] /\ S \cap seenIds = {} /\ S \subseteq l.answer
  BY <1>1, <1>3 DEF New
<1>5. IsFiniteSet(S) /\ S \in SUBSET Nat
  <2>1. IsFiniteSet(1 .. notes)
    BY <1>2, FS_Interval
  <2> QED  BY <1>2, <1>4, <2>1, FS_Subset
<1>6. lines' = lines \o SetToSeq(S) /\ seenIds' = seenIds \cup l.answer
  BY DEF addMessages
<1>7. lines \in Seq(Nat) /\ IsInjective(lines) /\ \A i \in DOMAIN lines : lines[i] \notin S
  BY <1>1, <1>2, <1>4 DEF CalmChat, TranscriptTrue
<1> PICK t : t = lines'
  OBVIOUS
<1>8. /\ t \in Seq(Nat) /\ IsInjective(t)
      /\ \A i \in DOMAIN t : (i \in DOMAIN lines /\ t[i] = lines[i]) \/ t[i] \in S
  <2>1. t = lines \o SetToSeq(S)
    BY <1>6
  <2> QED  BY <1>5, <1>7, <2>1, AddsOnce
<1>9. \A i \in DOMAIN t :
        /\ t[i] \in 1 .. notes
        /\ t[i] \in seenIds' \/ \A c \in Channel : t[i] \notin transcript[c]
        /\ \A c \in Channel \ {selected} : t[i] \notin transcript[c]
  <2> SUFFICES ASSUME NEW i \in DOMAIN t
               PROVE  /\ t[i] \in 1 .. notes
                      /\ t[i] \in seenIds' \/ \A c \in Channel : t[i] \notin transcript[c]
                      /\ \A c \in Channel \ {selected} : t[i] \notin transcript[c]
    OBVIOUS
  <2>1. CASE i \in DOMAIN lines /\ t[i] = lines[i]
    BY <1>1, <1>6, <2>1 DEF CalmChat, TranscriptTrue
  <2>2. CASE t[i] \in S
    BY <1>2, <1>4, <1>6, <2>2 DEF CalmChat
  <2> QED  BY <1>8, <2>1, <2>2
<1>10. CalmChat'
  <2>1. \A k \in loads' : k.ch = selected /\ k.answer \subseteq transcript[k.ch]
    BY DEF CalmChat
  <2> QED  BY <1>1, <1>8, <1>9, <2>1 DEF CalmChat, TranscriptTrue
<1> QED  BY <1>10

\* Transcripts of notes of M that share none, and one more note in one of them.
Apart(tr, M) ==
  /\ \A d \in Channel : tr[d] \subseteq M
  /\ \A d, e \in Channel : d # e => tr[d] \cap tr[e] = {}
NoneHas(tr, n) == \A d \in Channel : n \notin tr[d]
Gains(tr, tq, c, n) == \A d \in Channel : tq[d] = IF d = c THEN tr[d] \cup {n} ELSE tr[d]

LEMMA OneNoteMore ==
  ASSUME NEW tr, NEW tq, NEW c \in Channel, NEW n, NEW M, NEW N, M \subseteq N, n \in N,
         Apart(tr, M), NoneHas(tr, n), Gains(tr, tq, c, n)
  PROVE  Apart(tq, N)
<1>1. ASSUME NEW d \in Channel PROVE tq[d] \subseteq N /\ \A x \in tq[d] : x \in tr[d] \/ (x = n /\ d = c)
  BY <1>1 DEF Apart, Gains
<1>2. ASSUME NEW d \in Channel, NEW e \in Channel, d # e PROVE tq[d] \cap tq[e] = {}
  <2> SUFFICES ASSUME NEW x, x \in tq[d], x \in tq[e] PROVE FALSE
    OBVIOUS
  <2>1. x \in tr[d] \/ (x = n /\ d = c)
    BY <1>1
  <2>2. x \in tr[e] \/ (x = n /\ e = c)
    BY <1>1
  <2>3. ~(x \in tr[d] /\ x \in tr[e])
    BY <1>2 DEF Apart
  <2>4. n \notin tr[d] /\ n \notin tr[e]
    BY DEF NoneHas
  <2> QED  BY <1>2, <2>1, <2>2, <2>3, <2>4
<1> QED  BY <1>1, <1>2 DEF Apart

LEMMA SendCalm ==
  ASSUME ChatInv, CalmChat, onSend, Waits
  PROVE  CalmChat'
<1> PICK n : n = notes + 1
  OBVIOUS
<1> PICK s : s = [ch |-> selected, note |-> n, written |-> FALSE]
  OBVIOUS
<1>t. ChatTyped
  BY DEF ChatInv
<1>1. /\ sends = {} /\ sends' = {s} /\ notes' = n /\ lines' = Append(lines, n) /\ selected # NoChannel
      /\ UNCHANGED <<transcript, selected, seenIds, loads>>
  BY DEF onSend
<1>2. loads = {}
  BY <1>1 DEF Waits, Quiet
<1>3. notes \in Nat /\ selected \in Channel /\ n \in 1 .. n /\ n \notin 1 .. notes /\ n \in Nat
      /\ \A m \in 1 .. notes : m \in 1 .. n
  BY <1>t, <1>1 DEF ChatTyped
<1>4. s.ch = selected /\ s.note = n /\ \A c \in Channel : n \notin transcript[c]
  BY <1>3 DEF CalmChat
<1> PICK t : t = lines'
  OBVIOUS
<1>5. /\ t \in Seq(Nat) /\ DOMAIN t = DOMAIN lines \cup {Len(lines) + 1} /\ Len(lines) + 1 \notin DOMAIN lines
      /\ t[Len(lines) + 1] = n /\ \A i \in DOMAIN lines : t[i] = lines[i]
  <2>1. lines \in Seq(Nat) /\ t = Append(lines, n) /\ n \in Nat
    BY <1>1, <1>3 DEF CalmChat
  <2> QED  BY <2>1
<1>6. \A i \in DOMAIN lines : lines[i] \in 1 .. notes /\ lines[i] # n
  BY <1>3 DEF CalmChat
<1>7. IsInjective(t)
  <2>1. IsInjective(lines)
    BY DEF CalmChat, TranscriptTrue
  <2> QED  BY <1>5, <1>6, <2>1 DEF IsInjective
<1>8. \A i \in DOMAIN t :
        /\ t[i] \in 1 .. n
        /\ t[i] \in seenIds \/ t[i] = s.note \/ \A c \in Channel : t[i] \notin transcript[c]
        /\ \A c \in Channel \ {selected} : t[i] \notin transcript[c]
  <2> SUFFICES ASSUME NEW i \in DOMAIN t
               PROVE  /\ t[i] \in 1 .. n
                      /\ t[i] \in seenIds \/ t[i] = s.note \/ \A c \in Channel : t[i] \notin transcript[c]
                      /\ \A c \in Channel \ {selected} : t[i] \notin transcript[c]
    OBVIOUS
  <2>1. CASE i \in DOMAIN lines
    BY <1>1, <1>3, <1>5, <1>6, <2>1 DEF CalmChat, TranscriptTrue
  <2>2. CASE i = Len(lines) + 1
    BY <1>3, <1>4, <1>5, <2>2
  <2> QED  BY <1>5, <2>1, <2>2
<1>9. \A c \in Channel : transcript[c] \subseteq 1 .. n
  BY <1>3 DEF CalmChat
<1> QED  BY <1>1, <1>2, <1>3, <1>4, <1>5, <1>7, <1>8, <1>9 DEF CalmChat, TranscriptTrue

LEMMA WriteCalm ==
  ASSUME ChatInv, CalmChat, NEW s \in sends, writeInbound(s)
  PROVE  CalmChat'
<1> PICK u : u = [s EXCEPT !.written = TRUE]
  OBVIOUS
<1>t. ChatTyped /\ s \in Sendings
  BY DEF ChatInv, ChatTyped
<1>1. /\ ~s.written /\ sends' = {u} /\ transcript' = [transcript EXCEPT ![s.ch] = @ \cup {s.note}]
      /\ UNCHANGED <<notes, lines, seenIds, selected, loads>>
  BY DEF writeInbound, viewVars
<1>2. u.ch = s.ch /\ u.note = s.note /\ u.written
  BY <1>t DEF Sendings
<1>3. s.ch = selected /\ selected \in Channel /\ s.note \in 1 .. notes /\ \A c \in Channel : s.note \notin transcript[c]
  BY <1>t, <1>1 DEF CalmChat, Sendings
<1>4. loads = {} /\ \A q \in sends : q = s
  BY DEF CalmChat
<1>5. \A c \in Channel : transcript'[c] = IF c = selected THEN transcript[c] \cup {s.note} ELSE transcript[c]
  BY <1>t, <1>1, <1>3 DEF ChatTyped
<1>6. /\ \A c \in Channel : transcript'[c] \subseteq 1 .. notes
      /\ \A c, d \in Channel : c # d => transcript'[c] \cap transcript'[d] = {}
  <2>1. Apart(transcript, 1 .. notes)
    BY DEF CalmChat, Apart
  <2>2. NoneHas(transcript, s.note) /\ Gains(transcript, transcript', selected, s.note)
    BY <1>3, <1>5 DEF NoneHas, Gains
  <2>3. Apart(transcript', 1 .. notes)
    BY <1>3, <2>1, <2>2, OneNoteMore
  <2> QED  BY <2>3 DEF Apart
<1>7. \A i \in DOMAIN lines :
        \/ lines[i] \in seenIds \/ lines[i] = s.note
        \/ \A c \in Channel : lines[i] \notin transcript'[c]
  <2>1. \A i \in DOMAIN lines : lines[i] \in seenIds \/ lines[i] = s.note \/ \A c \in Channel : lines[i] \notin transcript[c]
    BY <1>4 DEF CalmChat
  <2> QED  BY <1>5, <2>1
<1>8. TranscriptTrue'
  BY <1>1, <1>5 DEF CalmChat, TranscriptTrue
<1> QED  BY <1>1, <1>2, <1>3, <1>4, <1>6, <1>7, <1>8 DEF CalmChat

LEMMA SentCalm ==
  ASSUME CalmChat, NEW s \in sends, Sent(s)
  PROVE  CalmChat'
<1>1. /\ sends' = {} /\ seenIds' = IF s.written THEN seenIds \cup {s.note} ELSE seenIds
      /\ UNCHANGED <<notes, transcript, lines, selected, loads>>
  BY DEF Sent, daemonVars
<1>2. \A q \in sends : q = s
  BY DEF CalmChat
<1>3. \A i \in DOMAIN lines : lines[i] \in seenIds' \/ \A c \in Channel : lines[i] \notin transcript[c]
  BY <1>1, <1>2 DEF CalmChat
<1> QED  BY <1>1, <1>3 DEF CalmChat, TranscriptTrue

LEMMA DoneCalm ==
  ASSUME ChatInv, CalmChat, NEW c \in Channel, TurnDone(c), Waits
  PROVE  CalmChat'
<1> PICK n, l : n = notes + 1 /\ l = Load(c, connectGen, "reload")
  OBVIOUS
<1>t. ChatTyped /\ StreamsFollowSelection
  BY DEF ChatInv
<1>1. /\ notes' = n /\ transcript' = [transcript EXCEPT ![c] = @ \cup {n}]
      /\ IF Listening(c) THEN loads' = loads \cup {l} ELSE loads' = loads
      /\ UNCHANGED <<seenIds, lines, selected, sends>>
  BY DEF TurnDone, EventVars
<1>2. notes \in Nat /\ n \in 1 .. n /\ n \notin 1 .. notes /\ \A m \in 1 .. notes : m \in 1 .. n
  BY <1>t DEF ChatTyped
<1>3. sends = {}
  <2>1. notes' # notes
    BY <1>1, <1>2
  <2> QED  BY <2>1 DEF Waits
<1>4. Listening(c) => c = selected
  BY <1>t DEF Listening, StreamsFollowSelection
<1>5. l.ch = c /\ l.answer = {}
  BY <1>t, LoadsAre DEF ChatTyped
<1>6. \A d \in Channel : transcript'[d] = IF d = c THEN transcript[d] \cup {n} ELSE transcript[d]
  BY <1>t, <1>1 DEF ChatTyped
<1>7. /\ \A d \in Channel : transcript'[d] \subseteq 1 .. n
      /\ \A d, e \in Channel : d # e => transcript'[d] \cap transcript'[e] = {}
  <2>1. \A d \in Channel : transcript[d] \subseteq 1 .. notes
    BY DEF CalmChat
  <2>2. \A d \in Channel : n \notin transcript[d]
    BY <1>2, <2>1
  <2>3. Apart(transcript, 1 .. notes)
    BY <2>1 DEF CalmChat, Apart
  <2>4. 1 .. notes \subseteq 1 .. n /\ n \in 1 .. n
    BY <1>2
  <2>5. NoneHas(transcript, n) /\ Gains(transcript, transcript', c, n)
    BY <1>6, <2>2 DEF NoneHas, Gains
  <2>6. Apart(transcript', 1 .. n)
    BY <2>3, <2>4, <2>5, OneNoteMore
  <2> QED  BY <2>6 DEF Apart
<1>8. \A k \in loads' : k.ch = selected /\ k.answer \subseteq transcript'[k.ch]
  <2>1. \A k \in loads : k.ch = selected /\ k.answer \subseteq transcript[k.ch] /\ k.ch \in Channel
    BY <1>t DEF CalmChat, ChatTyped, Loads
  <2>2. \A k \in loads : k.answer \subseteq transcript'[k.ch]
    BY <1>6, <2>1
  <2> QED  BY <1>1, <1>4, <1>5, <2>1, <2>2
<1>9. \A i \in DOMAIN lines :
        /\ lines[i] \in 1 .. n
        /\ lines[i] \in seenIds \/ \A d \in Channel : lines[i] \notin transcript'[d]
        /\ \A d \in Channel \ {selected} : lines[i] \notin transcript'[d]
  <2> SUFFICES ASSUME NEW i \in DOMAIN lines
               PROVE  /\ lines[i] \in 1 .. n
                      /\ lines[i] \in seenIds \/ \A d \in Channel : lines[i] \notin transcript'[d]
                      /\ \A d \in Channel \ {selected} : lines[i] \notin transcript'[d]
    OBVIOUS
  <2>1. lines[i] \in 1 .. notes /\ lines[i] # n
    BY <1>2 DEF CalmChat
  <2>2. lines[i] \in seenIds \/ \A d \in Channel : lines[i] \notin transcript[d]
    BY <1>3 DEF CalmChat
  <2>3. \A d \in Channel \ {selected} : lines[i] \notin transcript[d]
    BY DEF CalmChat, TranscriptTrue
  <2> QED  BY <1>2, <1>6, <2>1, <2>2, <2>3
<1>10. TranscriptTrue'
  <2>1. IsInjective(lines)
    BY DEF CalmChat, TranscriptTrue
  <2> QED  BY <1>1, <1>9, <2>1 DEF TranscriptTrue
<1> QED  BY <1>1, <1>3, <1>7, <1>8, <1>9, <1>10 DEF CalmChat

LEMMA CalmStep ==
  ASSUME ChatInv, CalmChat, ChatNext, Waits
  PROVE  CalmChat'
<1>t. ChatTyped
  BY DEF ChatInv
<1>u. ASSUME UNCHANGED <<lines, seenIds, selected, notes, transcript, sends, loads>> PROVE CalmChat'
  BY <1>u DEF CalmChat, TranscriptTrue
<1>1. CASE ListLoaded
  <2>1. CASE selected # NoChannel
    BY <1>1, <1>u, <2>1 DEF ListLoaded, viewVars, daemonVars
  <2>2. CASE selected = NoChannel
    <3>1. loads = {} /\ sends = {}
      BY <1>t, <2>2, ChatAssumption DEF CalmChat, ChatTyped, Loads, Sendings
    <3>2. /\ Select(First, TRUE) /\ UNCHANGED <<notes, transcript, sends, opening, issued>> /\ channels' \in BOOLEAN
          /\ First \in Channel
      BY <1>1, <2>2, ChatAssumption DEF ListLoaded, daemonVars
    <3> QED  BY <3>1, <3>2, SelectCalm
  <2> QED  BY <2>1, <2>2
<1>2. CASE Break
  BY <1>2, <1>u DEF Break, viewVars
<1>3. CASE onSend
  BY <1>3, SendCalm
<1>4. ASSUME NEW c \in Channel, onPick(c) PROVE CalmChat'
  <2>1. loads = {} /\ sends = {}
    <3>1. picks' # picks
      BY <1>4 DEF onPick
    <3> QED  BY <3>1 DEF Waits, Quiet
  <2>2. Select(c, TRUE) /\ UNCHANGED <<notes, transcript, sends, opening, issued>> /\ channels' \in BOOLEAN
    BY <1>t, <1>4 DEF onPick, daemonVars, ChatTyped
  <2> QED  BY <2>1, <2>2, SelectCalm
<1>5. ASSUME NEW c \in Channel, TurnWorks(c) \/ TurnFails(c) PROVE CalmChat'
  BY <1>5, <1>u DEF TurnWorks, TurnFails, EventVars
<1>6. ASSUME NEW c \in Channel, TurnDone(c) PROVE CalmChat'
  BY <1>6, DoneCalm
<1>7. ASSUME NEW l \in loads, ReadTranscript(l) PROVE CalmChat'
  <2>1. PICK k : loads' = (loads \ {l}) \cup {k} /\ k.ch = l.ch /\ k.answer \in {transcript[l.ch], l.answer}
    BY <1>7, ReadFlows
  <2>2. UNCHANGED <<lines, seenIds, selected, notes, transcript, sends>>
    BY <1>7 DEF ReadTranscript, daemonVars, viewVars
  <2>3. \A h \in loads' : h.ch = selected /\ h.answer \subseteq transcript[h.ch]
    BY <2>1 DEF CalmChat
  <2> QED  BY <2>2, <2>3, LoadsCalm
<1>8. ASSUME NEW l \in loads, HistoryLoaded(l) \/ ReloadLoaded(l) PROVE CalmChat'
  <2>1. loads' = loads \ {l} /\ UNCHANGED <<selected, notes, transcript, sends>>
    BY <1>8 DEF HistoryLoaded, ReloadLoaded, daemonVars
  <2>2. UNCHANGED <<lines, seenIds>> \/ addMessages(l.answer)
    BY <1>8 DEF HistoryLoaded, ReloadLoaded, viewVars
  <2>3. CASE UNCHANGED <<lines, seenIds>>
    <3>1. \A h \in loads' : h.ch = selected /\ h.answer \subseteq transcript[h.ch]
      BY <2>1 DEF CalmChat
    <3> QED  BY <2>1, <2>3, <3>1, LoadsCalm
  <2>4. CASE addMessages(l.answer)
    BY <1>t, <2>1, <2>4, AddCalm
  <2> QED  BY <2>2, <2>3, <2>4
<1>9. ASSUME NEW o \in opening, Minted(o) PROVE CalmChat'
  BY <1>9, <1>u DEF Minted, viewVars, daemonVars
<1>10. ASSUME NEW e \in streams, Connect(e) \/ onStreamError(e) PROVE CalmChat'
  BY <1>10, <1>u DEF Connect, onStreamError, daemonVars
<1>11. ASSUME NEW s \in sends, writeInbound(s) PROVE CalmChat'
  BY <1>11, WriteCalm
<1>12. ASSUME NEW s \in sends, Sent(s) PROVE CalmChat'
  BY <1>12, SentCalm
<1> QED
  BY <1>1, <1>2, <1>3, <1>4, <1>5, <1>6, <1>7, <1>8, <1>9, <1>10, <1>11, <1>12 DEF ChatNext

THEOREM ChatShowsWhatIsThere == MCSpec => []ChatTrue
<1> DEFINE I == ChatInv /\ (env = "calm" => CalmChat)
<1>1. MCInit => I
  BY ChatBegins DEF MCInit
<1>2. I /\ [MCNext]_mcVars => I'
  <2> SUFFICES ASSUME I, [MCNext]_mcVars PROVE I'
    OBVIOUS
  <2>u. ASSUME UNCHANGED <<chatVars, env>> PROVE I'
    BY <2>u DEF chatVars, ChatInv, ChatTyped, OneCycle, StreamsFollowSelection, CalmChat, TranscriptTrue
  <2>1. CASE ChatOnlyNext
    BY <2>1, ChatFlows DEF ChatOnlyNext, In
  <2>2. CASE CalmNext
    BY <2>2, ChatFlows, CalmStep DEF CalmNext, In
  <2>3. CASE ClientsNext \/ PageOnlyNext \/ GateOnlyNext \/ TerminalOnlyNext \/ UNCHANGED mcVars
    <3>1. UNCHANGED <<chatVars, env>>
      BY <2>3 DEF ClientsNext, PageOnlyNext, GateOnlyNext, TerminalOnlyNext, In, mcVars
    <3> QED  BY <2>u, <3>1
  <2> QED  BY <2>1, <2>2, <2>3 DEF MCNext
<1>3. I => ChatTrue
  BY DEF ChatInv, CalmChat, ChatTrue
<1> QED  BY <1>1, <1>2, <1>3, PTL DEF MCSpec
=============================================================================
