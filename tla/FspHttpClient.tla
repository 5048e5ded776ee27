---------------------------- MODULE FspHttpClient ----------------------------
(***************************************************************************)
(* Calls to FSP through packages/fsp-client: the rate-limit pause all      *)
(* client instances share, the retries, and the bearer token each instance *)
(* holds for everybody who uses it.                                        *)
(*                                                                         *)
(* The clients are singletons of the process.  What runs between two       *)
(* awaits is one action: setBearerToken together with the first attempt,   *)
(* or with going to sleep.  Time is relative: every sleeping call counts   *)
(* down, and none passes while a timer is due, because the event loop runs *)
(* a due callback first.  FSP may take any time for an answer.             *)
(***************************************************************************)
EXTENDS Integers, FiniteSets, Sequences

CONSTANTS
  Call,        \* executeWithRetry runs, each made once
  Client,      \* FspHttpClient instances
  ClientOf,    \* ClientOf[c]: the instance a call goes through
  TokenOf,     \* TokenOf[c]: the token of the tenant the call is made for
  Setter,      \* calls whose caller sets that token right before
  MaxRetries,  \* FSP_MAX_RETRIES
  Pause,       \* FSP_RATE_LIMIT_PAUSE_SECONDS
  Backoff      \* FSP_RETRY_BACKOFF_MS

NoToken == "null"
Token == {TokenOf[c] : c \in Call}

ASSUME HttpAssumption ==
  /\ ClientOf \in [Call -> Client]
  /\ DOMAIN TokenOf = Call /\ NoToken \notin Token
  /\ Setter \subseteq Call
  /\ MaxRetries \in Nat /\ Pause \in Nat \ {0}
  /\ Backoff \in Seq(Nat) /\ Backoff # <<>>

VARIABLES
  stage,     \* where each call stands
  attempt,   \* its loop counter
  rest,      \* what is left of its sleep
  paused,    \* the static flag
  bearer,    \* per instance: bearerToken
  carried,   \* history: which token each attempt was sent with
  quiet,     \* history: time since FSP last answered 429, Pause at most
  overlapped \* history: calls that were open beside another one

calls == <<stage, attempt, rest>>
history == <<carried, quiet, overlapped>>
vars == <<calls, paused, bearer, history>>

Asleep == {"waiting", "owner", "follower", "backoff"}
Ended == {"answered", "limited", "failed"}
Open == {c \in Call : stage[c] \in Asleep \cup {"sending"}}

Init ==
  /\ stage = [c \in Call |-> "new"]
  /\ attempt = [c \in Call |-> 0]
  /\ rest = [c \in Call |-> 0]
  /\ paused = FALSE
  /\ bearer = [i \in Client |-> NoToken]
  /\ carried = {}
  /\ quiet = Pause
  /\ overlapped = {}

-----------------------------------------------------------------------------
(* One call                                                                *)

\* An attempt leaves with the token the instance holds at that moment.
Send(c, n, token) ==
  /\ stage' = [stage EXCEPT ![c] = "sending"]
  /\ attempt' = [attempt EXCEPT ![c] = n]
  /\ carried' = carried \cup {[call |-> c, token |-> token]}
  /\ UNCHANGED rest

Sleep(c, why, time) ==
  /\ stage' = [stage EXCEPT ![c] = why]
  /\ rest' = [rest EXCEPT ![c] = time]
  /\ UNCHANGED <<attempt, carried>>

End(c, how) ==
  /\ stage' = [stage EXCEPT ![c] = how]
  /\ UNCHANGED <<attempt, rest, carried>>

\* setBearerToken, by the callers that call it.
BearerFor(c) ==
  [bearer EXCEPT ![ClientOf[c]] = IF c \in Setter THEN TokenOf[c] ELSE @]

\* The call is made: at once, or after the pause somebody else is in.
Begin(c) ==
  /\ stage[c] = "new"
  /\ bearer' = BearerFor(c)
  /\ IF paused THEN Sleep(c, "waiting", Pause)
               ELSE Send(c, 0, BearerFor(c)[ClientOf[c]])
  /\ overlapped' = IF Open = {} THEN overlapped ELSE overlapped \cup Open \cup {c}
  /\ UNCHANGED <<paused, quiet>>

\* The sleep at the entrance is over: it ends the pause for everybody.
Enter(c) ==
  /\ stage[c] = "waiting" /\ rest[c] = 0
  /\ paused' = FALSE
  /\ Send(c, 0, bearer[ClientOf[c]])
  /\ UNCHANGED <<bearer, quiet, overlapped>>

Answered(c) ==
  /\ stage[c] = "sending"
  /\ End(c, "answered")
  /\ UNCHANGED <<paused, bearer, quiet, overlapped>>

\* Mutation: a 429 is retried after the short delay of a server error.
TooManyBackedOff(c) ==
  /\ stage[c] = "sending"
  /\ quiet' = 0
  /\ paused' = TRUE
  /\ Sleep(c, "owner", Backoff[1])
  /\ UNCHANGED <<bearer, overlapped>>

\* A 429: the first to see one owns the pause, the others sleep beside it.
TooMany(c) ==
  /\ stage[c] = "sending"
  /\ quiet' = 0
  /\ paused' = TRUE
  /\ Sleep(c, IF paused THEN "follower" ELSE "owner", Pause)
  /\ UNCHANGED <<bearer, overlapped>>

AttemptsLeft(c) == attempt[c] < MaxRetries

\* The delays are a list; beyond its end the longest one is used.
BackoffFor(c) == IF attempt[c] + 1 \in DOMAIN Backoff
                 THEN Backoff[attempt[c] + 1] ELSE Backoff[Len(Backoff)]

\* A 5xx while attempts are left.
ServerError(c) ==
  /\ stage[c] = "sending" /\ AttemptsLeft(c)
  /\ Sleep(c, "backoff", BackoffFor(c))
  /\ UNCHANGED <<paused, bearer, quiet, overlapped>>

\* Any other error, no answer at all, or a 5xx on the last attempt.
Fails(c) ==
  /\ stage[c] = "sending"
  /\ End(c, "failed")
  /\ UNCHANGED <<paused, bearer, quiet, overlapped>>

\* Mutation: a rate-limited attempt does not count.
NextAttemptForFree(c) ==
  Send(c, IF stage[c] = "backoff" THEN attempt[c] + 1 ELSE attempt[c],
       bearer[ClientOf[c]])

NextAttempt(c) == Send(c, attempt[c] + 1, bearer[ClientOf[c]])

\* The pause after a 429 is over: its owner clears the flag.
Wake(c) ==
  /\ stage[c] \in {"owner", "follower"} /\ rest[c] = 0
  /\ paused' = IF stage[c] = "owner" THEN FALSE ELSE paused
  /\ IF AttemptsLeft(c) THEN NextAttempt(c) ELSE End(c, "limited")
  /\ UNCHANGED <<bearer, quiet, overlapped>>

\* The back-off is over; the flag is not looked at.
Retry(c) ==
  /\ stage[c] = "backoff" /\ rest[c] = 0
  /\ NextAttempt(c)
  /\ UNCHANGED <<paused, bearer, quiet, overlapped>>

-----------------------------------------------------------------------------

Sleepers == {c \in Call : stage[c] \in Asleep}

\* A unit of time passes.
Tick ==
  /\ \A c \in Sleepers : rest[c] > 0
  /\ Sleepers # {} \/ quiet < Pause
  /\ rest' = [c \in Call |-> IF c \in Sleepers THEN rest[c] - 1 ELSE rest[c]]
  /\ quiet' = IF quiet < Pause THEN quiet + 1 ELSE quiet
  /\ UNCHANGED <<stage, attempt, paused, bearer, carried, overlapped>>

Timer(c) == Enter(c) \/ Wake(c) \/ Retry(c)
Response(c) == Answered(c) \/ TooMany(c) \/ ServerError(c) \/ Fails(c)

Next == Tick \/ \E c \in Call : Begin(c) \/ Timer(c) \/ Response(c)

Spec == Init /\ [][Next]_vars

\* Timers fire and FSP, or the network under it, ends every attempt.
Fairness ==
  /\ WF_vars(Tick)
  /\ \A c \in Call : WF_vars(Timer(c)) /\ WF_vars(Response(c))

FairSpec == Spec /\ Fairness

-----------------------------------------------------------------------------
(* What is true of it                                                      *)

\* The attempts stay within their budget and the sleeps within theirs.
TypeOK ==
  /\ stage \in [Call -> Asleep \cup Ended \cup {"new", "sending"}]
  /\ attempt \in [Call -> 0 .. MaxRetries]
  /\ rest \in [Call -> Nat]
  /\ paused \in BOOLEAN
  /\ bearer \in [Client -> Token \cup {NoToken}]
  /\ carried \subseteq [call : Call, token : Token \cup {NoToken}]
  /\ quiet \in 0 .. Pause
  /\ overlapped \subseteq Call

\* The flag is never left standing: while it is set, a call sleeps that will
\* clear it, though waiting calls clear it too and other owners come and go.
PauseHasOwner == paused => \E c \in Call : stage[c] = "owner"

\* A call that has FSP to itself is never sent inside the pause: neither its
\* own 429 nor one an earlier call ended with is followed too soon.
AloneKeepsPause ==
  [][\A c \in Call \ overlapped' :
       stage'[c] = "sending" /\ stage[c] # "sending" => quiet = Pause]_vars

\* A caller that sets the token and has the instance to itself has every
\* attempt, retries included, sent with its own tenant's token.
AloneKeepsToken ==
  \A a \in carried :
    a.call \in Setter \ overlapped => a.token = TokenOf[a.call]

\* Every call comes back: pauses that pile up and retries never keep a caller
\* waiting for good.
CallsEnd == \A c \in Call : stage[c] # "new" ~> stage[c] \in Ended

\* PRD PR 7: "The worker service must not share tokens between operators."
TokensStayApart == \A a \in carried : a.token \in {TokenOf[a.call], NoToken}
=============================================================================
