-------------------------- MODULE MCEvidenceBundle --------------------------
(* Two commands over a package of five objects.  Source 1 asks for objects   *)
(* 4 and 5 and, again, for the policy, and accepts when object 4 has the     *)
(* policy's version; policy 2 does not list its checker.  Source 2 does not  *)
(* parse under policy 1 and asks for too much under policy 2.  Version 2 of  *)
(* object 5 is an unresolved Git LFS pointer, which one manifest pins.       *)
EXTENDS EvidenceBundle

One == [o \in 1 .. 5 |-> 1]
MCManifest == {One, [One EXCEPT ![4] = 2], [One EXCEPT ![2] = 2], [One EXCEPT ![5] = 2]}
MCPointer == {<<5, 2>>}
MCNeeds == [s \in {1, 2} |-> {3, 4, 5}]
MCFront(s, p) == 
  IF s = 1 THEN IF p = 1 THEN "ok" ELSE "binding"
  ELSE IF p = 1 THEN "invalid" ELSE "ok"
MCAccepts(s, p, e) == e[4] = p
=============================================================================
