----------------------------- MODULE MCRemoteAuth -----------------------------
(* A small instance of RemoteAuth. *)
EXTENDS RemoteAuth, TLC

\* Two calls of two objects: the second may be forwarded at any moment of the
\* first one's authentication.
MCObjectOf == ("a1" :> "node") @@ ("a2" :> "-")

\* Plain names, one outside ASCII, and one with a comma.
MCUserLists == {<<"root", "ivan">>, <<"root", "wide">>, <<"comma">>}
=============================================================================
