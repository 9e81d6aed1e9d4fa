------------------------------ MODULE MCIngest ------------------------------
(***************************************************************************)
(* Two processes.  The first takes deliveries of two issues, with a map    *)
(* that holds one, and polls; the second takes the webhook of the commit   *)
(* the first polls.                                                        *)
(***************************************************************************)
EXTENDS Ingest, TLC

CONSTANTS p1, p2, i1, i2, c1, r1, r2, r3, w1, q1

MCKeyOf == r1 :> i1 @@ r2 :> i1 @@ r3 :> i2 @@ w1 :> c1 @@ q1 :> c1
MCProcessOf == r1 :> p1 @@ r2 :> p1 @@ r3 :> p1 @@ w1 :> p2 @@ q1 :> p1
MCChannelOf == [r \in {r1, r2, r3} |-> "issue"] @@ w1 :> "review" @@ q1 :> "poll"

=============================================================================
