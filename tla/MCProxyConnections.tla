------------------------ MODULE MCProxyConnections ------------------------
(* Two connections of a user with a single place, to either proxy; the     *)
(* connections and the User objects are interchangeable.                   *)
EXTENDS ProxyConnections, TLC

MCSymmetry == Permutations(Conns) \cup Permutations(Users)
=============================================================================
