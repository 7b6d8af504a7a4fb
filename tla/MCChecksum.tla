----------------------------- MODULE MCChecksum -----------------------------
(***************************************************************************)
(* Instances of Checksum: three interfaces, of which two have the same     *)
(* address.                                                                *)
(***************************************************************************)
EXTENDS Checksum

FewInterfaces == {"eth0", "eth1", "eth2"}

FewAddresses == [i \in FewInterfaces |-> IF i = "eth0" THEN 1 ELSE 3]
=============================================================================
