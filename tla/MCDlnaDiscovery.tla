-------------------------- MODULE MCDlnaDiscovery --------------------------
(* Small instances of DlnaDiscovery for TLC.                               *)
EXTENDS DlnaDiscovery

CONSTANTS k1, k2, c1, c2, r1, r2

TwoOwners == k1 :> c1 @@ k2 :> c2
OneEach == r1 :> c1 @@ r2 :> c2
EventTopics == <<Found, Done>>
=============================================================================
