------------------------------ MODULE MCBlobPush ------------------------------
(***************************************************************************)
(* Instances of BlobPush: two clients push a blob of two bytes under one   *)
(* digest, of which one sends other bytes.                                 *)
(***************************************************************************)
EXTENDS BlobPush, TLC

CONSTANTS c1, c2

Clients1 == {c1}
Clients2 == {c1, c2}
Good == <<"a", "b">>
Bad == <<"a", "c">>
Contents == c1 :> Good @@ c2 :> Bad
Claims == c1 :> Good @@ c2 :> Good
Ids2 == <<"u1", "u2">>
Ids3 == <<"u1", "u2", "u3">>
Ids4 == <<"u1", "u2", "u3", "u4">>
=============================================================================
