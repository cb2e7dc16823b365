------------------------------- MODULE StepUp -------------------------------
(***************************************************************************)
(* The daemon's second factor: a PIN, kept as a hash in a file, a limiter  *)
(* of attempts and a store of short-lived tokens, both in memory           *)
(* (step-up.ts, the step-up routes of daemon.ts, requireStepUp of          *)
(* auth.ts).  The operator has one subject, so one bucket of attempts.     *)
(*                                                                         *)
(* Verifying a PIN and hashing a new one are awaited: a request is         *)
(* admitted by one step and goes on in others, and requests overlap.       *)
(* Every request here carries a Bearer with agent:admin: module Gate has   *)
(* the tokens of the hub.                                                  *)
(***************************************************************************)
EXTENDS Integers, Sequences, FiniteSets

CONSTANTS
  Pin,                   \* well-formed PINs
  NoPin,                 \* no PIN is configured, or none was submitted
  Call,                  \* requests under way at the same time
  STEP_UP_MAX_ATTEMPTS,
  STEP_UP_WINDOW_MS,
  STEP_UP_TOKEN_TTL_MS,
  SECOND,                \* ticks of the clock in a second
  MaxTime,
  MaxTokens,             \* bound on the tokens minted
  MaxDaemonRestarts

ASSUME LimiterAssumption ==
  /\ {STEP_UP_MAX_ATTEMPTS, STEP_UP_WINDOW_MS, STEP_UP_TOKEN_TTL_MS, SECOND} \subseteq Nat \ {0}
  /\ {MaxTime, MaxTokens, MaxDaemonRestarts} \subseteq Nat
ASSUME NoPinAssumption == NoPin \notin Pin

VARIABLES
  now,
  pinHash,      \* the PIN whose hash the file holds
  bucket,       \* times of the admitted attempts, oldest first
  tokens,       \* live tokens: number -> expiry
  minted,
  call,         \* the requests to /api/step-up and /api/step-up/pin
  stepUpRestarts,
  (* for the properties *)
  tries,        \* verifications since the last right PIN: when each was admitted
  promised      \* after a denial, and until another attempt: when to come back

stepUpVars == <<now, pinHash, bucket, tokens, minted, call, stepUpRestarts, tries, promised>>

None == 0
Answers == {"ok", "invalid_pin", "rate_limited", "step_up_not_configured", "failed"}
Idle == [at |-> "idle", kind |-> "exchange", given |-> NoPin, new |-> NoPin,
         stored |-> NoPin, answer |-> "failed", token |-> None, expiresAt |-> 0]

StepUpInit ==
  /\ now = 0 /\ pinHash \in Pin \cup {NoPin}
  /\ bucket = <<>> /\ tries = <<>> /\ promised = -1
  /\ tokens = <<>> /\ minted = 0
  /\ call = [c \in Call |-> Idle] /\ stepUpRestarts = 0

-----------------------------------------------------------------------------
isStepUpConfigured == pinHash # NoPin

(* The attempts that a limiter of this window still counts.  Times ascend, *)
(* so that what the filter drops are the first of them.                    *)
Recent(times) ==
  LET dropped == {i \in DOMAIN times : times[i] <= now - STEP_UP_WINDOW_MS}
  IN  SubSeq(times, Cardinality(dropped) + 1, Len(times))

CeilSeconds(ms) == (ms + SECOND - 1) \div SECOND
AtLeastOne(n) == IF n < 1 THEN 1 ELSE n
(* The difference taken the wrong way round, and not clamped.              *)
NegativeRetry == CeilSeconds(now - Head(Recent(bucket)) - STEP_UP_WINDOW_MS)
retryAfterSeconds == AtLeastOne(CeilSeconds(Head(Recent(bucket)) + STEP_UP_WINDOW_MS - now))

(* A limiter that counts a denial.                                         *)
CountsDenials(allowed) ==
  /\ allowed = (Len(Recent(bucket)) < STEP_UP_MAX_ATTEMPTS)
  /\ bucket' = Append(Recent(bucket), now)
  /\ tries' = IF allowed THEN Append(tries, now) ELSE tries
  /\ promised' = IF allowed THEN -1 ELSE now + retryAfterSeconds * SECOND

(* An attempt is admitted, and then counted at once; or it is denied, and  *)
(* not counted.                                                            *)
checkAndRecord(allowed) ==
  IF Len(Recent(bucket)) >= STEP_UP_MAX_ATTEMPTS
  THEN /\ ~allowed /\ bucket' = Recent(bucket) /\ UNCHANGED tries
       /\ promised' = now + retryAfterSeconds * SECOND
  ELSE /\ allowed /\ bucket' = Append(Recent(bucket), now)
       /\ tries' = Append(tries, now) /\ promised' = -1

clear == bucket' = <<>> /\ tries' = <<>> /\ promised' = -1

(* The store after a mint has dropped what has expired.                    *)
pruneExpiredStepUpTokens == [t \in {u \in DOMAIN tokens : now < tokens[u]} |-> tokens[t]]
mintStepUpToken(t) ==
  /\ minted < MaxTokens /\ t = minted + 1 /\ minted' = t
  /\ tokens' = [u \in DOMAIN pruneExpiredStepUpTokens \cup {t} |->
                  IF u = t THEN now + STEP_UP_TOKEN_TTL_MS ELSE tokens[u]]

isStepUpTokenValid(t) == t \in DOMAIN tokens /\ now < tokens[t]

(* What a gated route says of a request that carries token t, and what the *)
(* look-up leaves of an expired one.                                       *)
requireStepUp(t) ==
  IF ~isStepUpConfigured THEN "setup" ELSE IF isStepUpTokenValid(t) THEN "ok" ELSE "token"
lookUp(t) ==
  tokens' = IF isStepUpConfigured /\ t \in DOMAIN tokens /\ ~isStepUpTokenValid(t)
            THEN [u \in DOMAIN tokens \ {t} |-> tokens[u]] ELSE tokens

Answered(c, what) ==
  call' = [call EXCEPT ![c] = [Idle EXCEPT !.at = "answered", !.answer = what]]

-----------------------------------------------------------------------------
(* POST /api/step-up: the attempt is counted before the PIN is verified,   *)
(* and the hash it is verified with is read before the await.              *)
PostExchange(c, pin) ==
  /\ IF ~isStepUpConfigured
     THEN /\ Answered(c, "step_up_not_configured")
          /\ UNCHANGED <<bucket, tries, promised>>
     ELSE \/ /\ checkAndRecord(TRUE)
             /\ call' = [call EXCEPT ![c] = [Idle EXCEPT !.at = "verifying", !.given = pin,
                                               !.stored = pinHash]]
          \/ checkAndRecord(FALSE) /\ Answered(c, "rate_limited")
  /\ UNCHANGED <<now, pinHash, tokens, minted, stepUpRestarts>>

(* POST /api/step-up/pin: without a PIN the new one is hashed at once.     *)
PostPin(c, current, new) ==
  /\ IF ~isStepUpConfigured
     THEN /\ call' = [call EXCEPT ![c] = [Idle EXCEPT !.at = "hashing", !.kind = "set", !.new = new]]
          /\ UNCHANGED <<bucket, tries, promised>>
     ELSE \/ /\ checkAndRecord(TRUE)
             /\ call' = [call EXCEPT ![c] = [Idle EXCEPT !.at = "verifying", !.kind = "set",
                                               !.given = current, !.new = new, !.stored = pinHash]]
          \/ checkAndRecord(FALSE) /\ Answered(c, "rate_limited")
  /\ UNCHANGED <<now, pinHash, tokens, minted, stepUpRestarts>>

(* The PIN has been verified: a wrong one stays counted, a right one       *)
(* clears the bucket and is exchanged, or replaced by the new one.         *)
Verified(c) ==
  /\ call[c].at = "verifying"
  /\ IF call[c].given # call[c].stored
     THEN Answered(c, "invalid_pin") /\ UNCHANGED <<bucket, tries, promised, tokens, minted>>
     ELSE /\ clear
          /\ IF call[c].kind = "set"
             THEN call' = [call EXCEPT ![c].at = "hashing"] /\ UNCHANGED <<tokens, minted>>
             ELSE \E t \in 1 .. MaxTokens :
                    /\ mintStepUpToken(t)
                    /\ call' = [call EXCEPT ![c] = [Idle EXCEPT !.at = "answered", !.answer = "ok",
                                      !.token = t, !.expiresAt = now + STEP_UP_TOKEN_TTL_MS]]
  /\ UNCHANGED <<now, pinHash, stepUpRestarts>>

(* The new PIN has been hashed and is written, or the write fails.         *)
setStepUpPin(c) ==
  /\ call[c].at = "hashing"
  /\ \/ pinHash' = call[c].new /\ Answered(c, "ok")
     \/ pinHash' = pinHash /\ Answered(c, "failed")
  /\ UNCHANGED <<now, bucket, tokens, minted, stepUpRestarts, tries, promised>>

(* A restart keeps the file alone; requests under way fail.                *)
StepUpRestart ==
  /\ stepUpRestarts < MaxDaemonRestarts /\ stepUpRestarts' = stepUpRestarts + 1
  /\ bucket' = <<>> /\ tries' = <<>> /\ promised' = -1 /\ tokens' = <<>>
  /\ call' = [c \in Call |-> IF call[c].at \in {"verifying", "hashing"}
                             THEN [Idle EXCEPT !.at = "answered"]
                             ELSE call[c]]
  /\ UNCHANGED <<now, pinHash, minted>>

Tick ==
  /\ now < MaxTime /\ now' = now + 1
  /\ UNCHANGED <<pinHash, bucket, tokens, minted, call, stepUpRestarts, tries, promised>>

(* A client that is not the page reads its answer.                         *)
Read(c) ==
  /\ call[c].at = "answered" /\ call' = [call EXCEPT ![c] = Idle]
  /\ UNCHANGED <<now, pinHash, bucket, tokens, minted, stepUpRestarts, tries, promised>>

StepUpNext ==
  \/ \E c \in Call :
       \/ /\ call[c].at = "idle"
          /\ \/ \E p \in Pin : PostExchange(c, p)
             \/ \E p, q \in Pin : PostPin(c, p, q)
       \/ Verified(c) \/ setStepUpPin(c) \/ Read(c)
  \/ StepUpRestart \/ Tick

StepUpSpec == StepUpInit /\ [][StepUpNext]_stepUpVars

-----------------------------------------------------------------------------
(* Within any window, and since the last right PIN, no more PINs are       *)
(* verified than the limiter allows, however the verifications overlap and *)
(* whichever of the two routes they come by; and a client that was told    *)
(* when to come back is admitted then, unless another attempt was admitted *)
(* in between.                                                             *)
GuessesBounded ==
  \A i, j \in DOMAIN tries :
    i <= j /\ j - i + 1 > STEP_UP_MAX_ATTEMPTS => tries[j] - tries[i] >= STEP_UP_WINDOW_MS
RetryAfterHolds ==
  promised # -1 /\ now >= promised => Len(Recent(bucket)) < STEP_UP_MAX_ATTEMPTS
LimiterKeepsItsWord == GuessesBounded /\ RetryAfterHolds
=============================================================================
