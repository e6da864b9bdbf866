----------------------------- MODULE UriPattern -----------------------------
(***************************************************************************)
(* URIs and URI patterns of the router.  A URI is the sequence of the      *)
(* cells between its slashes; a pattern may also hold the cells "+" (one   *)
(* cell) and "*" (any number of cells).  doc/spec.md reserves '+' "for any *)
(* one path element" and '*' "as a match all".                             *)
(***************************************************************************)
EXTENDS Naturals, Sequences

(***************************************************************************)
(* The reference meaning of a pattern, independent of any algorithm: f     *)
(* says how many cells of uri the first i cells of the pattern consume.    *)
(***************************************************************************)
Splits(pattern, uri) ==
  {f \in [0 .. Len(pattern) -> 0 .. Len(uri)] :
     /\ f[0] = 0
     /\ \A i \in 1 .. Len(pattern) :
          IF pattern[i] = "*"
          THEN f[i-1] <= f[i]
          ELSE /\ f[i] = f[i-1] + 1
               /\ pattern[i] = "+" \/ pattern[i] = uri[f[i]]}

MatchesUpTo(pattern, uri, k) == \E f \in Splits(pattern, uri) : f[Len(pattern)] = k

Matches(pattern, uri) == MatchesUpTo(pattern, uri, Len(uri))
=============================================================================
