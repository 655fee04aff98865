------------------------------ MODULE MCMapTap ------------------------------
(* Instances of MapTap for the model checker. *)
EXTENDS MapTap, TLC

CONSTANTS s1, s2, s3, a, b, c, p1, p2

\* Two spots name one park; the calls appear on either side of a spot.
MCParkOf == s1 :> p1 @@ s2 :> p1 @@ s3 :> p2
MCDXCall == s1 :> a @@ s2 :> b @@ s3 :> a
MCSpotterCall == s1 :> b @@ s2 :> c @@ s3 :> c
=============================================================================
