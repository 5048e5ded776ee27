----------------------------- MODULE AuthGuard -----------------------------
(***************************************************************************)
(* What stands before every handler of the API: FspAuthGuard and the       *)
(* request-scoped TenantContext (apps/api/src/auth).                       *)
(*                                                                         *)
(* The guard asks FSP for the caller's rights through the one AUTH client  *)
(* of the process.  Of that client only what matters here is kept: a call  *)
(* leaves at once or after a pause or back-off, with the token the client  *)
(* holds at that moment (FspHttpClient has it in full).                    *)
(***************************************************************************)
EXTENDS Integers, FiniteSets

CONSTANTS
  Visit,        \* requests
  Token,        \* bearer tokens, one per user
  Org,          \* FSP operators
  Known,        \* those with a row in the database
  Manages,      \* the pairs <<token, org>> for which FSP says canManageSchedule
  NoToken       \* no header; also: no token set

ASSUME GuardAssumption ==
  Known \subseteq Org /\ Manages \subseteq Token \X Org /\ NoToken \notin Token

VARIABLES
  authBearer,   \* the token of FSP_AUTH_CLIENT
  visit,        \* per request: where it is, its headers, the token FSP saw
  context,      \* per request: TenantContext
  disturbed     \* history: requests that another overlapped in the guard

guardVars == <<authBearer, visit, context, disturbed>>

NoContext == [org |-> NoToken, token |-> NoToken]
Outside == [pc |-> "before", token |-> NoToken, org |-> NoToken, seen |-> NoToken]

GuardInit ==
  /\ authBearer = NoToken
  /\ visit = [v \in Visit |-> Outside]
  /\ context = [v \in Visit |-> NoContext]
  /\ disturbed = {}

Inside == {v \in Visit : visit[v].pc \in {"delayed", "sent", "checked"}}

\* A request whose headers the guard refuses, or a public one, which passes
\* without any of this.
TurnedAway(v) ==
  /\ visit[v].pc = "before"
  /\ visit' = [visit EXCEPT ![v].pc = "refused"]
  /\ UNCHANGED <<authBearer, context, disturbed>>

\* canActivate up to the call of getPermissions.
SetTokenAndAsk(v, t, o) ==
  /\ visit[v].pc = "before"
  /\ authBearer' = t
  /\ visit' = [visit EXCEPT ![v] =
       [pc |-> "sent", token |-> t, org |-> o, seen |-> t]]
  /\ disturbed' = IF Inside = {} THEN disturbed ELSE disturbed \cup Inside \cup {v}
  /\ UNCHANGED context

\* The client is in a pause, or FSP answers with a 429 or an error: the call
\* leaves later.
Delayed(v) ==
  /\ visit[v].pc = "sent"
  /\ visit' = [visit EXCEPT ![v].pc = "delayed"]
  /\ UNCHANGED <<authBearer, context, disturbed>>

AskAgain(v) ==
  /\ visit[v].pc = "delayed"
  /\ visit' = [visit EXCEPT ![v].pc = "sent", ![v].seen = authBearer]
  /\ UNCHANGED <<authBearer, context, disturbed>>

\* Mutation: any answer that is not an error will do.
AnyAnswer(v) == TRUE

MayManage(v) == <<visit[v].seen, visit[v].org>> \in Manages

\* FSP's answer: an error, or the rights of whoever the token belongs to.
PermissionsAnswered(v) ==
  /\ visit[v].pc = "sent"
  /\ \/ visit' = [visit EXCEPT ![v].pc = "refused"]
     \/ MayManage(v) /\ visit' = [visit EXCEPT ![v].pc = "checked"]
  /\ UNCHANGED <<authBearer, context, disturbed>>

\* Mutation: one TenantContext for the process.
SetSharedContext(v) ==
  context' = [w \in Visit |-> [org |-> visit[v].org, token |-> visit[v].token]]

SetContext(v) ==
  context' = [context EXCEPT ![v] = [org |-> visit[v].org, token |-> visit[v].token]]

\* The operator is looked up, the context set and the handler entered.
OperatorLookedUp(v) ==
  /\ visit[v].pc = "checked"
  /\ IF visit[v].org \in Known
       THEN SetContext(v) /\ visit' = [visit EXCEPT ![v].pc = "handling"]
       ELSE context' = context /\ visit' = [visit EXCEPT ![v].pc = "refused"]
  /\ UNCHANGED <<authBearer, disturbed>>

\* The handler, which may wait, ends, and with it the request.
Handled(v) ==
  /\ visit[v].pc = "handling"
  /\ visit' = [visit EXCEPT ![v].pc = "over"]
  /\ UNCHANGED <<authBearer, context, disturbed>>

GuardNext ==
  \E v \in Visit :
    \/ TurnedAway(v) \/ Delayed(v) \/ AskAgain(v) \/ PermissionsAnswered(v)
    \/ OperatorLookedUp(v) \/ Handled(v)
    \/ \E t \in Token, o \in Org : SetTokenAndAsk(v, t, o)

GuardSpec == GuardInit /\ [][GuardNext]_guardVars

-----------------------------------------------------------------------------
(* What is true of it                                                      *)

GuardTypeOK ==
  /\ authBearer \in Token \cup {NoToken}
  /\ \A v \in Visit : visit[v].pc \in
       {"before", "delayed", "sent", "checked", "handling", "over", "refused"}
  /\ disturbed \subseteq Visit

\* Every handler runs for the operator and with the token of its own request,
\* whatever other requests do while it waits, and for an operator that was
\* bootstrapped; if no other request was in the guard at the same time, the
\* rights that let it in are those of its own token.
HandlersSeeTheirOwn ==
  \A v \in Visit : visit[v].pc = "handling" =>
    /\ context[v] = [org |-> visit[v].org, token |-> visit[v].token]
    /\ visit[v].org \in Known
    /\ v \notin disturbed => <<visit[v].token, visit[v].org>> \in Manages
=============================================================================
