----------------------- MODULE MCSuggestionLifecycle -----------------------
(* Small instances of SuggestionLifecycle for TLC. *)
EXTENDS SuggestionLifecycle, TLC

CONSTANTS s1, s2, o1, o2

\* Two rows of two tenants.
TwoOwners == s1 :> o1 @@ s2 :> o2
\* Two rows of one tenant.
OneOwner == s1 :> o1 @@ s2 :> o1

\* Single requests, a bulk request over both rows, one that names a row twice
\* and an empty one.
AllLists == {<<>>, <<s1>>, <<s2>>, <<s1, s2>>, <<s1, s1>>}
Singles == {<<s1>>, <<s2>>}
=============================================================================
