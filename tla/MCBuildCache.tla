---------------------------- MODULE MCBuildCache ----------------------------
(* Model values for BuildCache: a domain with one expression, and a domain    *)
(* whose only expression is edited from f2 to f3 and back.                      *)
EXTENDS BuildCache
CONSTANTS f1, f2, f3, d1, d2
MCDomainOf == [f \in {f1, f2, f3} |-> IF f = f1 THEN d1 ELSE d2]
MCOneDomain == [f \in {f1, f2, f3} |-> d1]
MCBundles == {{f1, f2}, {f1, f3}}
=============================================================================
