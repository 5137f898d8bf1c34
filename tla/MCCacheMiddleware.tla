------------------------- MODULE MCCacheMiddleware -------------------------
(***************************************************************************)
(* Targets: two queries of one path, an unsafe method, and a path whose    *)
(* own "?" was escaped by the client (decoded in URL.Path).                *)
(***************************************************************************)
EXTENDS CacheMiddleware

T(safe, path, query) == [safe |-> safe, path |-> path, query |-> query]

GetA    == T(TRUE, <<"GET", "a">>, <<>>)
GetAB   == T(TRUE, <<"GET", "a">>, <<"b">>)
PostA   == T(FALSE, <<"POST", "a">>, <<>>)
EscAB   == T(TRUE, <<"GET", "a", "?", "b">>, <<>>)

PlainTargets   == {GetA, GetAB, PostA}
OneTarget      == {GetA}
EscapedTargets == {GetAB, EscAB}
=============================================================================
