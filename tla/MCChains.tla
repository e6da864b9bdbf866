------------------------------ MODULE MCChains ------------------------------
(***************************************************************************)
(* Requests for ChainBuilder: every pattern of at most three cells, to     *)
(* compare RestrictBy with the meaning of patterns, and searches among a   *)
(* few DOTs with a cycle, an all-grant, a foreign namespace, too small     *)
(* permissions and short TTLs.                                             *)
(***************************************************************************)
EXTENDS ChainBuilder

All == Permission

D(giver, receiver, suffix, ttl, perms) ==
  [giver |-> giver, receiver |-> receiver, ns |-> "ns", suffix |-> suffix, ttl |-> ttl, perms |-> perms]

MCDot ==
  [root   |-> D("ns", "A", <<"a", "*">>, 3, All),
   short  |-> D("ns", "A", <<"*">>, 1, All),
   direct |-> D("A", "T", <<"a", "b">>, 0, {"P", "C", "L"}),
   over   |-> D("A", "B", <<"a", "+">>, 2, All \ {"C*", "T*"}),
   back   |-> D("B", "A", <<"*">>, 3, All),
   last   |-> D("B", "T", <<"a", "*">>, 0, All),
   open   |-> D("B", "all", <<"*">>, 1, {"C", "C+", "C*"}),
   weak   |-> D("A", "T", <<"a", "*">>, 2, {"C"}),
   other  |-> [D("A", "T", <<"*">>, 3, All) EXCEPT !.ns = "x"],
   head   |-> D("ns", "A", <<"*", "b">>, 3, All),
   tail   |-> D("A", "B", <<"b", "*">>, 3, All),
   exact  |-> D("B", "T", <<"b">>, 3, All)]

MCDots == DOMAIN MCDot

MCTopics == BoundedSeq({"a", "b"}, 5)
Patterns == {u \in UNION {[1 .. n -> {"a", "b", "+", "*"}] : n \in 1 .. 3} :
               Cardinality({i \in DOMAIN u : u[i] = "*"}) <= 1}

Request(uri, perms, given, later, syncing) ==
  [ns |-> "ns", uri |-> uri, perms |-> perms, target |-> "T",
   granted |-> given, later |-> later, syncing |-> syncing, probes |-> {}]

Searches ==
  {Request(<<"a", "b">>, {"P", "C", "L"}, {"root", "short", "direct", "over", "back"},
           {"root", "direct", "over", "back", "last"}, FALSE),
   Request(<<"a", "*">>, {"C", "C+", "C*"}, {"root", "back", "open", "other", "last"},
           {"short", "over", "back", "open"}, FALSE),
   Request(<<"a", "+">>, {"T", "T+"}, {"root", "over", "back", "open", "weak", "last"},
           {"root", "last", "over"}, FALSE),
   Request(<<"a", "b">>, {"C"}, {"root", "weak", "over", "open", "other"}, {"short", "last"}, TRUE),
   Request(<<"b">>, {"P"}, {"head", "tail", "exact"}, {"tail"}, FALSE)}

MCPlans == Searches \cup {[Request(u, {}, {}, {}, FALSE) EXCEPT !.probes = Patterns] : u \in Patterns}
=============================================================================
