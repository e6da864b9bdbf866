------------------------------- MODULE Grants -------------------------------
(***************************************************************************)
(* What a DOT (a signed grant of permissions on a URI pattern) and a chain *)
(* of DOTs authorise: util.RestrictBy and AnalyzeSuffix on URI patterns,   *)
(* the permission sets of objects/routing.go, and the decision             *)
(* core.Message.Verify takes about a message and the chain it carries.     *)
(*                                                                         *)
(* A pattern is the sequence of its cells.  A cell is a word; xattr cells  *)
(* (a leading '!') and the characters of a cell are not told apart.  Keys, *)
(* hashes and signatures are model values; DOTs and messages are signed    *)
(* by the key they name.                                                   *)
(***************************************************************************)
EXTENDS Integers, Sequences, FiniteSetsExt, SequencesExt, UriPattern

CONSTANTS
  Dots,       \* the access DOTs that exist
  Dot,        \* [Dots -> [giver, receiver, ns, suffix, ttl, perms]]
  Everybody   \* the receiver of an all-grant, util.EverybodySlice

-----------------------------------------------------------------------------
(***************************************************************************)
(* URI patterns                                                            *)
(***************************************************************************)
Stars(uri) == {i \in 1 .. Len(uri) : uri[i] = "*"}
HasStar(uri) == Stars(uri) # {}
HasPlus(uri) == \E i \in 1 .. Len(uri) : uri[i] = "+"

\* AnalyzeSuffix: at least one cell and at most one star.
ValidSuffix(uri) == uri # <<>> /\ Cardinality(Stars(uri)) <= 1

\* Two cells that RestrictBy lets meet, and the cell it emits for them.
Agree(f, b) == f # "*" /\ b # "*" /\ (f = b \/ f = "+" \/ b = "+")
Meet(f, b) == IF f = "+" THEN b ELSE f

\* The cells of a pattern before its star and after it; all without a star.
BeforeStar(uri) == SubSeq(uri, 1, Min(Stars(uri) \cup {Len(uri) + 1}) - 1)
AfterStar(uri) == SubSeq(uri, Max(Stars(uri) \cup {0}) + 1, Len(uri))

StarFirst(uri) == uri # <<>> /\ uri[1] = "*"
StarLast(uri) == uri # <<>> /\ uri[Len(uri)] = "*"

(***************************************************************************)
(* RestrictBy: the cells emitted so far at the front and at the back, and  *)
(* what is left of both patterns.  Phases 1 and 2 emit the longest prefix  *)
(* whose cells agree and the longest such suffix of the rest; phases 3 and *)
(* 4 let a leading and a trailing star swallow the other's cells.          *)
(***************************************************************************)
AgreeingPrefix(from, by) ==
  Max({n \in 0 .. Min({Len(from), Len(by)}) : \A i \in 1 .. n : Agree(from[i], by[i])})

\* bug: the suffix may run into cells the prefix has taken.
TrimOverlap(from, by) ==
  LET p == AgreeingPrefix(from, by)
      s == AgreeingPrefix(Reverse(from), Reverse(by))
  IN [front |-> [i \in 1 .. p |-> Meet(from[i], by[i])],
      back  |-> [i \in 1 .. s |-> Meet(from[Len(from) - s + i], by[Len(by) - s + i])],
      from  |-> SubSeq(from, p + 1, Len(from) - s),
      by    |-> SubSeq(by, p + 1, Len(by) - s)]

Trim(from, by) ==
  LET p == AgreeingPrefix(from, by)
      s == Min({AgreeingPrefix(Reverse(from), Reverse(by)), Len(from) - p, Len(by) - p})
  IN [front |-> [i \in 1 .. p |-> Meet(from[i], by[i])],
      back  |-> [i \in 1 .. s |-> Meet(from[Len(from) - s + i], by[Len(by) - s + i])],
      from  |-> SubSeq(from, p + 1, Len(from) - s),
      by    |-> SubSeq(by, p + 1, Len(by) - s)]

SwallowFirst(t) ==
  LET left(u) == SubSeq(u, Len(BeforeStar(u)) + 1, Len(u)) IN
  IF StarFirst(t.from) THEN [t EXCEPT !.front = @ \o BeforeStar(t.by), !.by = left(@)]
  ELSE IF StarFirst(t.by) THEN [t EXCEPT !.front = @ \o BeforeStar(t.from), !.from = left(@)]
  ELSE t

SwallowLast(t) ==
  LET left(u) == SubSeq(u, 1, Len(u) - Len(AfterStar(u))) IN
  IF StarLast(t.from) THEN [t EXCEPT !.back = AfterStar(t.by) \o @, !.by = left(@)]
  ELSE IF StarLast(t.by) THEN [t EXCEPT !.back = AfterStar(t.from) \o @, !.from = left(@)]
  ELSE t

\* Phase 5 emits a star when a star is all that is left of both, and fails
\* when more is left of one.  The result is a set of at most one pattern; it
\* is empty where the code returns false.
RestrictBy(from, by) ==
  LET swallowed == {SwallowLast(u) : u \in {SwallowFirst(t) : t \in {Trim(from, by)}}}
      star(t) == IF t.from = <<"*">> /\ t.by = <<"*">> THEN <<"*">> ELSE <<>>
  IN {t.front \o star(t) \o t.back :
        t \in {u \in swallowed : {u.from, u.by} \subseteq {<<>>, <<"*">>}}}

\* The pattern left of uri after the suffixes of the DOTs of a chain.
MergedURI(uri, chain) ==
  LET left[i \in 0 .. Len(chain)] ==
        IF i = 0 THEN {uri} ELSE UNION {RestrictBy(u, Dot[chain[i]].suffix) : u \in left[i-1]}
  IN left[Len(chain)]

-----------------------------------------------------------------------------
(***************************************************************************)
(* Permission sets                                                         *)
(***************************************************************************)
Permission == {"P", "C", "C+", "C*", "T", "T+", "T*", "L"}

\* What the right-hand side of ReduceBy must grant for x to survive.
Implied == [x \in Permission |-> CASE x = "C+" -> {"C", "C+"} [] x = "C*" -> {"C", "C+", "C*"}
                                   [] x = "T+" -> {"T", "T+"} [] x = "T*" -> {"T", "T+", "T*"}
                                   [] OTHER -> {x}]
ReduceBy(ps, rhs) == {x \in ps : Implied[x] \subseteq rhs}

ChainPerms(chain) ==
  LET ps[i \in 1 .. Len(chain)] ==
        IF i = 1 THEN Dot[chain[1]].perms ELSE ReduceBy(ps[i-1], Dot[chain[i]].perms)
  IN ps[Len(chain)]

\* What AnalyzeAccessDOTChain requires for a type of message on a pattern.
Wild(base, plus, star, uri) ==
  {base} \cup (IF HasPlus(uri) THEN {plus} ELSE {}) \cup (IF HasStar(uri) THEN {star} ELSE {})
Required(mtype, uri) ==
  CASE mtype \in {"publish", "persist"} -> {"P"}
    [] mtype \in {"query", "subscribe"} -> Wild("C", "C+", "C*", uri)
    [] mtype \in {"tapquery", "tap"}    -> Wild("T", "T+", "T*", uri)
    [] mtype = "ls"                     -> {"L"}

-----------------------------------------------------------------------------
(***************************************************************************)
(* Chains                                                                  *)
(***************************************************************************)
\* The TTL left after the first i DOTs of a chain, as the verifier counts it.
LinkTTL(chain) ==
  LET ttl[i \in 1 .. Len(chain)] ==
        IF i = 1 THEN Dot[chain[1]].ttl ELSE Min({ttl[i-1] - 1, Dot[chain[i]].ttl})
  IN ttl

AnalyzeAccessDOTChain(mtype, uri, chain) ==
  LET merged == MergedURI(uri, chain) IN
  /\ Dot[chain[1]].giver = Dot[chain[1]].ns
  /\ \A i \in 2 .. Len(chain) :
       /\ LinkTTL(chain)[i-1] # 0
       /\ Dot[chain[i]].giver = Dot[chain[i-1]].receiver
       /\ Dot[chain[i]].ns = Dot[chain[1]].ns
  /\ \E u \in merged : ValidSuffix(u) /\ Required(mtype, u) \subseteq ChainPerms(chain)

\* Verify of a message on ns/uri that carries chain, when the DOTs in valid are
\* those that resolve as valid.  The message names its origin, is signed by it
\* and has not expired.
Verify(mtype, ns, uri, chain, valid) ==
  /\ ~ (mtype \in {"publish", "persist", "ls"} /\ (HasStar(uri) \/ HasPlus(uri)))
  /\ ValidSuffix(uri)
  /\ chain # <<>>
  /\ ToSet(chain) \subseteq valid
  /\ AnalyzeAccessDOTChain(mtype, uri, chain)
  /\ ns = Dot[chain[1]].ns
=============================================================================
