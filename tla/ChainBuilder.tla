---------------------------- MODULE ChainBuilder ----------------------------
(***************************************************************************)
(* ChainBuilder.Build of api/chainbuilder.go: a breadth-first walk of the  *)
(* DOTs granted from a namespace, looking for chains to a target key.  One *)
(* step takes one scenario from the worklist and looks up the DOTs its     *)
(* last receiver granted; between steps other nodes grant and revoke.      *)
(***************************************************************************)
EXTENDS Grants

CONSTANTS
  Plans,    \* requests [ns, uri, perms, target], with the DOTs granted, the DOTs
            \* that come and go, whether lookups may fail, and patterns to probe
  Topics    \* the topics that patterns are compared on

\* A TTL is a byte.  NewChainBuilder reads the permissions from a string, where
\* "C*" stands for "C", "C+" and "C*", and Build returns before its walk if the
\* URI is not valid.
ASSUME BuilderAssumption ==
  /\ IsFiniteSet(Dots)
  /\ \A d \in Dots : Dot[d].ttl \in 0 .. 255
  /\ \A r \in Plans :
       /\ ValidSuffix(r.uri)
       /\ r.perms \subseteq Permission /\ \A x \in r.perms : Implied[x] \subseteq r.perms
       /\ r.granted \subseteq Dots

VARIABLES plan,      \* the request Build serves, and the grants around it
          granted,   \* the DOTs that resolve as valid
          evals,     \* the worklist: scenarios [chain, suffix]
          found,     \* validscenarios, as chains
          pc,        \* "start", "walk" or "done"
          ever, always, failed   \* history, for ChainSearch

builderVars == <<plan, granted, evals, found, pc, ever, always, failed>>
walkVars == <<evals, found, pc>>
historyVars == <<ever, always, failed>>

Init ==
  /\ plan \in Plans
  /\ granted = plan.granted
  /\ evals = <<>> /\ found = {} /\ pc = "start"
  /\ ever = granted /\ always = granted /\ failed = FALSE

-----------------------------------------------------------------------------
dotUseful(d) ==
  /\ Dot[d].ns = plan.ns
  /\ plan.perms \subseteq Dot[d].perms
  /\ RestrictBy(plan.uri, Dot[d].suffix) = {plan.uri}

Usable(from) == {d \in granted : Dot[d].giver = from /\ dotUseful(d)}

\* ResolveGrantedDOTs fails while the node still synchronises its chain; the
\* walk then goes on as if from had granted nothing.
getOptions(from) ==
  {[dots |-> Usable(from), failed |-> failed]}
    \cup (IF plan.syncing THEN {[dots |-> {}, failed |-> TRUE]} ELSE {})

Scenario(chain, suffix) == [chain |-> chain, suffix |-> suffix]
NewScenario(d) == Scenario(<<d>>, Dot[d].suffix)
Terminal(s) == Dot[Last(s.chain)].receiver

ScenarioTTL(chain) ==
  LET ttl[i \in 0 .. Len(chain)] == IF i = 0 THEN 256 ELSE Min({ttl[i-1] - 1, Dot[chain[i]].ttl})
  IN ttl[Len(chain)]

\* bug: one DOT more than the TTL allows.
AddAndCloneLate(s, d) ==
  {n \in {Scenario(Append(s.chain, d), u) : u \in RestrictBy(s.suffix, Dot[d].suffix)} :
     ScenarioTTL(n.chain) >= -1}

\* The scenarios (at most one) that follow s with d added.
AddAndClone(s, d) ==
  {n \in {Scenario(Append(s.chain, d), u) : u \in RestrictBy(s.suffix, Dot[d].suffix)} :
     ScenarioTTL(n.chain) >= 0}

\* bug: the all-grant is not an answer.
ReachedTarget(s) == Terminal(s) = plan.target

Reached(s) == Terminal(s) \in {plan.target, Everybody}

\* The new scenarios either are answers or wait their turn.
Push(rest, new, fails) ==
  /\ found' = found \cup {s.chain : s \in {n \in new : Reached(n)}}
  /\ evals' = rest \o SetToSeq({n \in new : ~Reached(n)})
  /\ failed' = fails

Populate ==
  /\ pc = "start"
  /\ \E opts \in getOptions(plan.ns) :
       Push(<<>>, {NewScenario(d) : d \in opts.dots}, opts.failed)
  /\ pc' = "walk"
  /\ UNCHANGED <<plan, granted, ever, always>>

Walk ==
  /\ pc = "walk" /\ evals # <<>>
  /\ LET s == Head(evals) IN
     \E opts \in getOptions(Terminal(s)) :
       Push(Tail(evals), UNION {AddAndClone(s, d) : d \in opts.dots}, opts.failed)
  /\ UNCHANGED <<plan, granted, pc, ever, always>>

Finish ==
  /\ pc = "walk" /\ evals = <<>>
  /\ pc' = "done"
  /\ UNCHANGED <<plan, granted, evals, found, ever, always, failed>>

\* A DOT of the plan is published, or one is revoked or expires.
Grant(d) ==
  /\ d \in plan.later \ ever
  /\ granted' = granted \cup {d} /\ ever' = ever \cup {d}
  /\ UNCHANGED <<plan, walkVars, always, failed>>

Revoke(d) ==
  /\ d \in granted \cap plan.later
  /\ granted' = granted \ {d} /\ always' = always \ {d}
  /\ UNCHANGED <<plan, walkVars, ever, failed>>

Done == pc = "done" /\ UNCHANGED builderVars

Next == Populate \/ Walk \/ Finish \/ Done \/ \E d \in Dots : Grant(d) \/ Revoke(d)

\* Build is one goroutine that runs until it returns.
Spec == Init /\ [][Next]_builderVars /\ WF_builderVars(Populate \/ Walk \/ Finish)

-----------------------------------------------------------------------------
(***************************************************************************)
(* The reference: what a pattern covers, and which chains are answers.     *)
(***************************************************************************)
\* For a pattern with at most one star: its cells before the star match the
\* first cells of the topic, its cells after the star the last ones.
Covers(uri, topic) ==
  LET matches(p, t) == \A i \in 1 .. Len(p) : p[i] \in {"+", t[i]}
      ends == IF HasStar(uri) THEN AfterStar(uri) ELSE <<>>
  IN /\ IF HasStar(uri) THEN Len(uri) <= Len(topic) + 1 ELSE Len(uri) = Len(topic)
     /\ matches(BeforeStar(uri), topic)
     /\ matches(ends, SubSeq(topic, Len(topic) - Len(ends) + 1, Len(topic)))

Lang(uri) == {t \in Topics : Covers(uri, t)}

\* Pairs whose intersection is again one pattern: at most one has a star, or
\* nothing follows either's star.
Tame(u, v) == (HasStar(u) /\ HasStar(v)) => (StarLast(u) /\ StarLast(v))

\* c, made of the DOTs ds, leads from the namespace to the target and stops at
\* the first DOT that does; each DOT grants what is requested, and lets as
\* many DOTs follow as its TTL says.
IsChain(request, ds, c) ==
  /\ c # <<>> /\ ToSet(c) \subseteq ds
  /\ Dot[c[1]].giver = request.ns
  /\ \A i \in 2 .. Len(c) : Dot[c[i]].giver = Dot[c[i-1]].receiver
  /\ \A i \in 1 .. Len(c) :
       /\ (Dot[c[i]].receiver \in {request.target, Everybody}) <=> (i = Len(c))
       /\ Dot[c[i]].ns = request.ns
       /\ request.perms \subseteq Dot[c[i]].perms
       /\ Lang(request.uri) \subseteq Lang(Dot[c[i]].suffix)
       /\ Dot[c[i]].ttl >= Len(c) - i

\* No chain is longer than the TTLs of its DOTs allow.
MaxChain == 1 + Max({Dot[d].ttl : d \in Dots})

Owed(request, ds) ==
  LET patterns(c) == {request.uri} \cup {Dot[d].suffix : d \in ToSet(c)} IN
  {c \in BoundedSeq(ds, MaxChain) :
     IsChain(request, ds, c) /\ \A u, v \in patterns(c) : Tame(u, v)}

(***************************************************************************)
(* The inductive invariant                                                 *)
(***************************************************************************)
\* c leads from the namespace along DOTs that are useful for the request.
Leads(c) ==
  /\ c # <<>> /\ c \in Seq(Dots)
  /\ Dot[c[1]].giver = plan.ns
  /\ \A i \in 2 .. Len(c) : Dot[c[i]].giver = Dot[c[i-1]].receiver
  /\ \A i \in 1 .. Len(c) : dotUseful(c[i])
  /\ Len(c) > 1 => ScenarioTTL(c) >= 0

IInv ==
  /\ plan \in Plans /\ granted \subseteq Dots
  /\ evals \in Seq(ToSet(evals))
  /\ \A i \in DOMAIN evals : Leads(evals[i].chain)
  /\ \A c \in found : Leads(c)

(***************************************************************************)
(* Properties                                                              *)
(***************************************************************************)
\* RestrictBy: it fails exactly when no topic is in both patterns; what it
\* returns is a valid pattern that lies in both, and it is all of their
\* intersection unless both have a star and cells follow one of them.
RestrictExact ==
  pc = "start" =>
    /\ \A t \in Topics : Len(t) <= 3 => (Covers(plan.uri, t) <=> Matches(plan.uri, t))
    /\ \A by \in plan.probes :
         LET both == Lang(plan.uri) \cap Lang(by) IN
         /\ RestrictBy(plan.uri, by) = {} <=> both = {}
         /\ \A u \in RestrictBy(plan.uri, by) :
              /\ ValidSuffix(u) /\ Lang(u) \subseteq both
              /\ Tame(plan.uri, by) => Lang(u) = both

\* Build and Verify agree: a message of a type that the requested permissions
\* allow, on the requested URI and with a chain Build found, passes Verify for
\* as long as the DOTs of the chain stay valid.  The two count TTLs, reduce
\* permissions and merge URIs in different ways.
BuiltVerifies ==
  \A c \in found : ToSet(c) \subseteq granted =>
    \A mtype \in {"publish", "subscribe", "tap", "ls"} :
      /\ Required(mtype, plan.uri) \subseteq plan.perms
      /\ mtype \in {"publish", "ls"} => ~HasStar(plan.uri) /\ ~HasPlus(plan.uri)
      => Verify(mtype, plan.ns, plan.uri, c, granted)

\* Build implements ChainSearch: with grants and revocations between the steps
\* of its walk it returns only chains of DOTs that were granted, no chain it
\* owes is missing unless a lookup failed, and it ends although grants may
\* form cycles.
Search == INSTANCE ChainSearch WITH request <- plan, chains <- found, ended <- pc = "done"
BuildImplementsSearch == Search!Spec
=============================================================================
