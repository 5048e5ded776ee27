-------------------------- MODULE MCFspHttpClient --------------------------
(* Small instances of FspHttpClient for TLC. *)
EXTENDS FspHttpClient, TLC

CONSTANTS poll1, poll2, handler, core, curriculum, t1, t2

\* Two polls and the call of a use-case handler for the second tenant, which
\* never sets a token.
Tokens == poll1 :> t1 @@ poll2 :> t2 @@ handler :> t2

\* The polls share an instance, the handler has another, or the same.
Clients == poll1 :> core @@ poll2 :> core @@ handler :> curriculum
OneClient == poll1 :> core @@ handler :> core
TwoTokens == poll1 :> t1 @@ handler :> t2

Delays == <<1, 2>>
=============================================================================
