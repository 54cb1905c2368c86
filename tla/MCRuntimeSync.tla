--------------------------- MODULE MCRuntimeSync ---------------------------
(* Two accounts, the first with two devices, the second with none or one.  *)
EXTENDS RuntimeSync, TLC

CONSTANTS a1, a2, d1, d2

MCAccesses == {a1, a2}
MCDevices  == {d1, d2}
MCOwner    == (d1 :> a1) @@ (d2 :> a1)
MCOwners2  == (d1 :> a1) @@ (d2 :> a2)
MCOneAccess == {a1}
MCOneDevice == {d1}
MCOneOwner  == (d1 :> a1)
=============================================================================
