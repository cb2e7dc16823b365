-------------------------------- MODULE Page --------------------------------
(***************************************************************************)
(* The page's side of the second factor: authedFetch and adminFetch        *)
(* (lib/api.ts, lib/step-up.ts), the one token the page holds, and the one *)
(* dialog that prompts, sets up or changes the PIN (StepUpModal.tsx).      *)
(*                                                                         *)
(* Gated requests of the page overlap, each awaits its answers, and a      *)
(* submission of the dialog goes on when the dialog is closed or replaced. *)
(* The hub mints Bearers without fail, so a 401 here is a wrong PIN;       *)
(* adminFetch cannot tell: it re-mints the Bearer and sends the PIN again. *)
(***************************************************************************)
EXTENDS StepUp

CONSTANTS
  Action,           \* gated requests of the page
  NoAction,
  EXPIRY_BUFFER_MS, \* slack before the page drops a token
  MaxEntries        \* bound on the PINs the operator submits

ASSUME PageAssumption ==
  EXPIRY_BUFFER_MS \in Nat /\ MaxEntries \in Nat /\ NoAction \notin Action

VARIABLES
  held,      \* the token the page holds
  open,      \* the dialog
  job,       \* per request of the dialog: what it goes on with
  req,       \* the gated requests
  entries    \* for the properties: times of the submissions

pageVars == <<held, open, job, req, entries>>

Nothing == [token |-> None, expiresAt |-> 0]
Closed == [mode |-> "none", resolve |-> NoAction, busy |-> FALSE, hasPin |-> "no"]
NoJob == [mode |-> "none", step |-> "none", given |-> NoPin, new |-> NoPin, retried |-> FALSE,
          mounted |-> FALSE]
Fresh == [at |-> "new", token |-> None, stepUpRetried |-> FALSE, granted |-> None, status |-> "none"]

PageInit ==
  /\ held = Nothing /\ open = Closed /\ entries = <<>>
  /\ job = [c \in Call |-> NoJob] /\ req = [a \in Action |-> Fresh]

-----------------------------------------------------------------------------
currentStepUpToken ==
  IF held.token # None /\ held.expiresAt - now > EXPIRY_BUFFER_MS THEN held.token ELSE None

(* setOpen with a new prompt: whatever was open is gone, and its request   *)
(* is not told.  The dialog stays mounted if one was, with its busy mark.  *)
Replace(mode, a) == [open EXCEPT !.mode = mode, !.resolve = a]

(* close, and one that forgets the promise: the request whose prompt is open is resumed with the token, or   *)
(* without one the 403 surfaces.  A submission that goes on is unmounted.  *)
Resolved(a, token) ==
  [req EXCEPT ![a] = IF token = None
                     THEN [@ EXCEPT !.at = "done", !.status = "cancelled"]
                     ELSE [@ EXCEPT !.at = "sending", !.granted = token, !.stepUpRetried = TRUE]]
ForgetsThePromise(token) == open' = Closed /\ req' = req
close(token) ==
  /\ open' = Closed
  /\ req' = IF open.resolve = NoAction THEN req ELSE Resolved(open.resolve, token)
Unmounted(jobs) == [c \in Call |-> [jobs[c] EXCEPT !.mounted = FALSE]]

-----------------------------------------------------------------------------
(* authedFetch: the token held at this moment rides along.                 *)
Start(a) ==
  /\ req[a].at = "new"
  /\ req' = [req EXCEPT ![a].at = "sending"]
  /\ UNCHANGED <<stepUpVars, held, open, job, entries>>

Send(a) ==
  /\ req[a].at = "sending"
  /\ req' = [req EXCEPT ![a].at = "sent", ![a].token = currentStepUpToken]
  /\ held' = IF currentStepUpToken = None THEN Nothing ELSE held
  /\ UNCHANGED <<stepUpVars, open, job, entries>>

(* The daemon's gate; past it the request is carried out.                  *)
Gate(a) ==
  /\ req[a].at = "sent"
  /\ lookUp(req[a].token)
  /\ req' = [req EXCEPT ![a].at = "answered", ![a].status = requireStepUp(req[a].token)]
  /\ UNCHANGED <<now, pinHash, bucket, minted, call, stepUpRestarts, tries, promised>>
  /\ UNCHANGED <<held, open, job, entries>>

(* On a 403 of the gate the held token is dropped and the operator is      *)
(* prompted, once per request.                                             *)
React(a) ==
  /\ req[a].at = "answered"
  /\ IF req[a].status = "ok" \/ req[a].stepUpRetried
     THEN req' = [req EXCEPT ![a].at = "done"] /\ UNCHANGED <<held, open>>
     ELSE /\ held' = Nothing
          /\ open' = Replace(IF req[a].status = "setup" THEN "setup" ELSE "prompt", a)
          /\ req' = [req EXCEPT ![a].at = "prompting"]
  /\ UNCHANGED <<stepUpVars, job, entries>>

-----------------------------------------------------------------------------
(* The operator opens the settings, which ask whether there is a PIN; an   *)
(* open dialog covers the page, so not while there is one.                 *)
openSettings ==
  /\ open.mode = "none" /\ open' = [Replace("settings", NoAction) EXCEPT !.hasPin = "unknown"]
  /\ UNCHANGED <<stepUpVars, held, job, req, entries>>

SeesStatus ==
  /\ open.hasPin = "unknown"
  /\ open' = [open EXCEPT !.hasPin = IF isStepUpConfigured THEN "yes" ELSE "no"]
  /\ UNCHANGED <<stepUpVars, held, job, req, entries>>

(* Escape and the backdrop close a dialog that is busy, too.               *)
Dismiss ==
  /\ open.mode # "none" /\ close(None)
  /\ job' = Unmounted(job)
  /\ UNCHANGED <<stepUpVars, held, entries>>

Ask(c, j) ==
  IF j.step = "exchange" THEN PostExchange(c, j.given) ELSE PostPin(c, j.given, j.new)

(* A submission: the PIN to exchange, or a new one, with the current one   *)
(* if the settings have seen that there is one.                            *)
Submit(c, p, q) ==
  /\ open.mode # "none" /\ ~open.busy /\ job[c] = NoJob /\ call[c].at = "idle"
  /\ open.mode = "settings" => open.hasPin # "unknown"
  /\ Len(entries) < MaxEntries
  /\ LET exchanges == open.mode = "prompt"
         withPin == exchanges \/ (open.mode = "settings" /\ open.hasPin = "yes")
         j == [mode |-> open.mode, step |-> IF exchanges THEN "exchange" ELSE "set",
               given |-> IF withPin THEN p ELSE NoPin, new |-> IF exchanges THEN NoPin ELSE q,
               retried |-> FALSE, mounted |-> TRUE]
     IN  /\ job' = [job EXCEPT ![c] = j] /\ Ask(c, j)
         /\ entries' = Append(entries, now)
  /\ open' = [open EXCEPT !.busy = TRUE]
  /\ UNCHANGED <<held, req>>

(* adminFetch: a 401 is sent again, once, whatever it meant.               *)
Retries(c) == call[c].answer = "invalid_pin" /\ ~job[c].retried
Resend(c) ==
  /\ job[c] # NoJob /\ call[c].at = "answered" /\ Retries(c)
  /\ job' = [job EXCEPT ![c].retried = TRUE]
  /\ Ask(c, job[c])
  /\ UNCHANGED <<held, open, req, entries>>

Over(c) ==
  /\ call' = [call EXCEPT ![c] = Idle]
  /\ UNCHANGED <<now, pinHash, bucket, tokens, minted, stepUpRestarts, tries, promised>>

(* The answer of a submission: a failure leaves the dialog open for        *)
(* another try, a set-up goes on to exchange the PIN it has set, and what  *)
(* is over closes whatever dialog is open.                                 *)
SubmissionFails(c) ==
  /\ job[c] # NoJob /\ call[c].at = "answered" /\ call[c].answer # "ok" /\ ~Retries(c)
  /\ open' = IF job[c].mounted THEN [open EXCEPT !.busy = FALSE] ELSE open
  /\ job' = [job EXCEPT ![c] = NoJob] /\ Over(c)
  /\ UNCHANGED <<held, req, entries>>

SetUp(c) ==
  /\ job[c].mode = "setup" /\ job[c].step = "set" /\ call[c].at = "answered" /\ call[c].answer = "ok"
  /\ LET j == [job[c] EXCEPT !.step = "exchange", !.given = job[c].new, !.retried = FALSE]
     IN  job' = [job EXCEPT ![c] = j] /\ Ask(c, j)
  /\ UNCHANGED <<held, open, req, entries>>

Exchanged(c) ==
  /\ job[c].step = "exchange" /\ call[c].at = "answered" /\ call[c].answer = "ok"
  /\ held' = [token |-> call[c].token, expiresAt |-> call[c].expiresAt]
  /\ close(call[c].token)
  /\ job' = Unmounted([job EXCEPT ![c] = NoJob]) /\ Over(c)
  /\ UNCHANGED entries

Saved(c) ==
  /\ job[c].mode = "settings" /\ call[c].at = "answered" /\ call[c].answer = "ok"
  /\ close(None)
  /\ job' = Unmounted([job EXCEPT ![c] = NoJob]) /\ Over(c)
  /\ UNCHANGED <<held, entries>>

PageNext ==
  \/ \E a \in Action : Start(a) \/ Send(a) \/ Gate(a) \/ React(a)
  \/ openSettings \/ SeesStatus \/ Dismiss
  \/ \E c \in Call :
       \/ \E p, q \in Pin : Submit(c, p, q)
       \/ Resend(c) \/ SubmissionFails(c) \/ SetUp(c) \/ Exchanged(c) \/ Saved(c)
       \/ (Verified(c) \/ setStepUpPin(c)) /\ UNCHANGED pageVars
  \/ (StepUpRestart \/ Tick) /\ UNCHANGED pageVars

(* The operator does one gated request at a time, and leaves a dialog that *)
(* is busy to its call.                                                    *)
Patient ==
  /\ \A a \in Action : req[a].at = "new" /\ req'[a].at # "new" =>
       \A b \in Action : req[b].at \in {"new", "done"}
  /\ open.busy /\ open' = Closed => call' # call

PageSpec == StepUpInit /\ PageInit /\ [][PageNext /\ Patient]_<<stepUpVars, pageVars>>

-----------------------------------------------------------------------------
(* A request that waits for the operator is the one whose dialog is open,  *)
(* whatever earlier submissions still do: its promise will be resolved.    *)
PromptHasOwner == \A a \in Action : req[a].at = "prompting" => open.resolve = a

(* A request that was granted a token is not refused for want of one,      *)
(* unless the token has expired or the daemon has forgotten it.            *)
ConfirmedProceeds ==
  \A a \in Action :
    req[a].at = "answered" /\ req[a].stepUpRetried /\ req[a].status # "ok" =>
      \/ req[a].granted \notin DOMAIN tokens
      \/ tokens[req[a].granted] - now <= EXPIRY_BUFFER_MS

PromptsServe == PromptHasOwner /\ ConfirmedProceeds

(* The page tells the operator of a lockout only after that many PINs were *)
(* submitted within the window.                                            *)
LockoutAfterMax ==
  \A c \in Call :
    job[c] # NoJob /\ call[c].answer = "rate_limited" => Len(Recent(entries)) >= STEP_UP_MAX_ATTEMPTS
=============================================================================
