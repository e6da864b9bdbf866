------------------------------ MODULE MCStore -------------------------------
(***************************************************************************)
(* Instances of StoreQuery for TLC.  A put is its topic and a version.     *)
(***************************************************************************)
EXTENDS StoreQuery, FiniteSets

MCBegins == [c \in {"n", "a", "b", "ab", "+", "*"} |-> IF c = "a" THEN {"a", "ab"} ELSE {c}]

Tails(cells, m) == UNION {[1 .. k -> cells] : k \in 1 .. m}
Under(t) == <<"n">> \o t

AllTopics == {Under(t) : t \in Tails({"a", "b"}, 3)}
LongNames == {Under(<<"ab">>), Under(<<"ab", "a">>), Under(<<"a", "ab">>)}
MCPuts == {<<t, 1>> : t \in AllTopics \cup LongNames} \cup {<<Under(<<"a">>), 2>>}
MCtopicOf == [w \in MCPuts |-> w[1]]

AllPatterns == {Under(t) : t \in {t \in Tails({"a", "+", "*"}, 3) :
                                    Cardinality({i \in DOMAIN t : t[i] = "*"}) <= 1}}
               \cup {Under(<<"a", "+", "*", "b">>), Under(<<"b", "a", "*", "a">>)}

V1(ts) == {<<Under(t), 1>> : t \in ts}
Plan(stored, puts, crash, expiring, kind, uri) ==
  [stored |-> stored, puts |-> puts, crash |-> crash, expiring |-> expiring, kind |-> kind,
   uri |-> Under(uri)]

\* Every pattern against every store of one or two messages.
ExactPlans ==
  {[stored |-> {<<t, 1>>, <<u, 1>>}, puts |-> {}, crash |-> FALSE, expiring |-> {}, kind |-> "query",
    uri |-> q] : t \in AllTopics, u \in AllTopics, q \in AllPatterns}

\* Puts on one path while the process may stop and a query or listing reads.
RacePlans ==
  {Plan({}, V1({<<"a">>, <<"a", "a">>, <<"a", "a", "b">>}), TRUE, {}, "list", <<>>)}
  \cup {Plan(V1({<<"a", "b">>}), V1({<<"a">>, <<"a", "a", "b">>}), TRUE, {}, "query", q) :
          q \in {<<"*">>, <<"*", "b">>, <<"a", "+">>}}

\* A message is replaced and expires while it is read.
ReplacePlans ==
  {Plan(V1({<<"a">>, <<"b">>}), {<<Under(<<"a">>), 2>>}, FALSE, V1({<<"b">>}), "query", q) :
     q \in {<<"*">>, <<"+">>, <<"a">>}}

\* A name that begins with another.
NamePlans ==
  {Plan(V1({<<"a">>, <<"ab", "a">>, <<"a", "ab">>}), {}, FALSE, {}, kind, q) :
     kind \in {"query", "list"}, q \in {<<"a">>, <<"ab">>}}
  \cup {Plan(V1({<<"a">>, <<"ab", "a">>, <<"a", "ab">>}), {}, FALSE, {}, "query", q) :
     q \in {<<"a", "+">>, <<"*">>, <<"*", "a">>}}

MCPlans == ExactPlans \cup RacePlans \cup ReplacePlans \cup NamePlans
=============================================================================
