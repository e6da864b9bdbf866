----------------------------- MODULE StoreQuery ------------------------------
(***************************************************************************)
(* Queries and listings of the message store (internal/store/store.go,     *)
(* Query and List of internal/core/terminus.go) beside its writers.        *)
(*                                                                         *)
(* A wildcard query is a tree of goroutines (getMatchingMessage).  A task  *)
(* is one of them: the URI with what has been filled in so far, and in     *)
(* frontD and backD the cells on either side of the star that the          *)
(* interlaced URI does not hold yet.  A task reads one key or the children *)
(* of one key per step.  An iterator reads a snapshot.                     *)
(*                                                                         *)
(* Children are found by the bytes of the key: below n/a the iterator also *)
(* meets what is below n/ab.  Begins says which cells begin with which.    *)
(***************************************************************************)
EXTENDS Store, UriPattern, SequencesExt, Bags

CONSTANTS Begins,    \* [cells -> the cells that begin with it, itself included]
          Plans      \* what happens: puts already made, puts to come, whether
                     \* the process may stop, messages that may expire, and the
                     \* call: its kind and its URI

VARIABLES plan,
          expired,   \* messages whose expiry is over
          phase,     \* the reader: "idle", "run", "done"
          tasks,     \* bag of getMatchingMessage calls
          found,     \* how often the caller got the message of a put
          listed,    \* keys that ListChildren returned
          due        \* history: what was there when the call began

readVars == <<plan, expired, phase, tasks, found, listed, due>>
vars == <<storeVars, readVars>>

Wild(cell) == cell \in {"+", "*"}
FirstWild(uri) == CHOOSE i \in DOMAIN uri : Wild(uri[i]) /\ \A j \in 1 .. i - 1 : ~Wild(uri[j])
Literal(uri) == \A i \in DOMAIN uri : ~Wild(uri[i])

Task(il, uri, frontD, backD) ==
  [il |-> il, uri |-> uri, frontD |-> frontD, backD |-> backD, skipbase |-> FALSE]

StarAt(uri) == SelectLastInSeq(uri, LAMBDA c : c = "*")

\* bug: the cells in front are also set aside in a scan from the left
FirstTaskLeft(uri) ==
  LET star == StarAt(uri)
  IN IF star = 0 THEN Task(FALSE, uri, <<>>, <<>>)
     ELSE Task(FALSE, SubSeq(uri, 1, star), SubSeq(uri, 2, star - 1),
               Reverse(SubSeq(uri, star + 1, Len(uri))))

\* The first task of a query with wildcards.  With a prefix much longer than
\* the suffix it scans from the left, else from both ends.
FirstTask(uri) ==
  LET star == StarAt(uri)
      pfxlen == star - 1
      sfxlen == Len(uri) - star
      common == IF sfxlen < pfxlen THEN sfxlen ELSE pfxlen
  IN CASE star = 0 -> Task(FALSE, uri, <<>>, <<>>)
       [] star > 0 /\ pfxlen > sfxlen + sfxlen ->
            Task(FALSE, SubSeq(uri, 1, star), <<>>, Reverse(SubSeq(uri, star + 1, Len(uri))))
       [] OTHER ->
            Task(TRUE, Append(SubSeq(InterlaceURI(uri), 1, 2 * common), "*"),
                 SubSeq(uri, common + 1, pfxlen), Reverse(SubSeq(uri, star + 1, Len(uri) - common)))

Fronts(rv) == [i \in 1 .. (Len(rv) + 1) \div 2 |-> rv[2 * i - 1]]
Backs(rv) == [i \in 1 .. Len(rv) \div 2 |-> rv[2 * i]]
AdvancedUnInterlaceURI(rv, frontD, backD) == Fronts(rv) \o frontD \o Reverse(Backs(rv) \o backD)

\* bug: the cells after the star are forgotten
DirectShort(t) == IF t.il THEN AdvancedUnInterlaceURI(Front(t.uri), t.frontD, <<>>) ELSE Front(t.uri)

\* The topic that remains when the star of a task stands for nothing.
Direct(t) ==
  LET before == Front(t.uri)
  IN IF t.il THEN AdvancedUnInterlaceURI(before, t.frontD, t.backD) ELSE before \o Reverse(t.backD)

Get(k) == IF k \in Key THEN db["Msg"][k] ELSE None

\* bug: the iterator is opened on mkkey(uri)
ChildrenSame(cf, uri) ==
  {k \in Key : /\ Len(k) = Len(uri) /\ db[cf][k] # None
               /\ \A i \in 1 .. Len(uri) - 1 : k[i] = uri[i]
               /\ uri # <<>> => k[Len(uri)] \in Begins[uri[Len(uri)]]}

\* What the iterator over mkchildkey(uri) returns: keys one longer that begin
\* with the same bytes.
Children(cf, uri) ==
  {k \in Key : /\ Len(k) = Len(uri) + 1 /\ db[cf][k] # None
               /\ \A i \in 1 .. Len(uri) - 1 : k[i] = uri[i]
               /\ uri # <<>> => k[Len(uri)] \in Begins[uri[Len(uri)]]}

ReadInit ==
  /\ expired = {} /\ phase = "idle" /\ tasks = EmptyBag
  /\ found = [w \in Puts |-> 0] /\ listed = {} /\ due = {}

Init == plan \in Plans /\ StoreInit(plan.stored) /\ ReadInit

Expire(w) ==
  /\ w \in plan.expiring \ expired
  /\ expired' = expired \cup {w}
  /\ UNCHANGED <<storeVars, plan, phase, tasks, found, listed, due>>

\* Query hands a message on unless it has expired.
Handle(v) == found' = IF v \in Puts \ expired THEN [found EXCEPT ![v] = @ + 1] ELSE found

Due == {w \in Puts : /\ pc[w] = "done" /\ db["Msg"][topicOf[w]] = w
                     /\ \A cf \in Family : \A a \in Above(Path(cf, w)) : db[cf][a] # None}

Begin == phase = "idle" /\ due' = Due /\ UNCHANGED <<storeVars, plan, expired>>

ListChildren ==
  /\ plan.kind = "list" /\ Begin
  /\ listed' = Children("Msg", plan.uri)
  /\ phase' = "done"
  /\ UNCHANGED <<tasks, found>>

GetExactMessage ==
  /\ plan.kind = "query" /\ Literal(plan.uri) /\ Begin
  /\ Handle(Get(plan.uri))
  /\ phase' = "done"
  /\ UNCHANGED <<tasks, listed>>

GetMatchingMessage ==
  /\ plan.kind = "query" /\ ~Literal(plan.uri) /\ Begin
  /\ tasks' = SetToBag({FirstTask(plan.uri)})
  /\ phase' = "run"
  /\ UNCHANGED <<found, listed>>

\* A task does one step: others replace it.
Replace(t, new) == tasks' = (tasks (-) SetToBag({t})) (+) SetToBag(new)
TaskStep(t) == BagIn(t, tasks) /\ UNCHANGED <<storeVars, plan, expired, phase, listed, due>>

\* No wildcard is left: the task reads its key and ends.
Leaf(t) ==
  /\ Literal(t.uri) /\ TaskStep(t)
  /\ Handle(Get(t.uri))
  /\ Replace(t, {})

AtStar(t) == ~Literal(t.uri) /\ t.uri[FirstWild(t.uri)] = "*"

\* The star may stand for nothing.
Base(t) ==
  /\ AtStar(t) /\ ~t.skipbase /\ TaskStep(t)
  /\ Handle(Get(Direct(t)))
  /\ Replace(t, {[t EXCEPT !.skipbase = TRUE]})

\* The next cell of an interlaced key is known on its side of the star.
FromFront(t) == t.il /\ Len(t.uri) % 2 = 1 /\ t.frontD # <<>>
FromBack(t) == t.il /\ Len(t.uri) % 2 = 0 /\ t.backD # <<>>
Fill(t, cell) == Front(t.uri) \o <<cell, "*">>
Populated(t, skip) ==
  IF FromFront(t)
  THEN [t EXCEPT !.uri = Fill(t, Head(t.frontD)), !.frontD = Tail(@), !.skipbase = skip]
  ELSE [t EXCEPT !.uri = Fill(t, Head(t.backD)), !.backD = Tail(@), !.skipbase = skip]

\* bug: the base case is evaluated again
FilledAgain(t) == Populated(t, FALSE)

Filled(t) == Populated(t, TRUE)

Populate(t) ==
  /\ AtStar(t) /\ t.skipbase /\ (FromFront(t) \/ FromBack(t)) /\ TaskStep(t)
  /\ Replace(t, {Filled(t)})
  /\ UNCHANGED found

\* One task for each child, with the child in place of "+" or before "*".
ChildTasks(t, skip) ==
  LET n == FirstWild(t.uri)
  IN {[t EXCEPT !.uri = k \o SubSeq(t.uri, IF t.uri[n] = "+" THEN n + 1 ELSE n, Len(t.uri)),
                !.skipbase = skip] : k \in Children(IF t.il THEN "MsgI" ELSE "Msg", Prefix(t.uri, n - 1))}

\* bug: the base case of a child is taken for done
ExpandSkipping(t) == ChildTasks(t, TRUE)

\* bug: a scan that finds nothing does not report that it has ended
ExpandNoDone(t) == IF ChildTasks(t, FALSE) = {} THEN {t} ELSE ChildTasks(t, FALSE)

Expand(t) == ChildTasks(t, FALSE)

Scan(t) ==
  /\ ~Literal(t.uri) /\ TaskStep(t)
  /\ AtStar(t) => t.skipbase /\ ~FromFront(t) /\ ~FromBack(t)
  /\ Replace(t, Expand(t))
  /\ UNCHANGED found

\* The tasks are waited for, and the caller gets nil.
QueryEnd ==
  /\ phase = "run" /\ tasks = EmptyBag
  /\ phase' = "done"
  /\ UNCHANGED <<storeVars, plan, expired, tasks, found, listed, due>>

Call == ListChildren \/ GetExactMessage \/ GetMatchingMessage
Query ==
  \/ QueryEnd
  \/ \E t \in BagToSet(tasks) : Leaf(t) \/ Base(t) \/ Populate(t) \/ Scan(t)

Stop ==
  /\ plan.crash /\ Crash
  /\ phase' = IF phase = "run" THEN "dead" ELSE phase
  /\ tasks' = EmptyBag
  /\ UNCHANGED <<plan, expired, found, listed, due>>

Write(w) == w \in plan.puts /\ PutMessage(w) /\ UNCHANGED readVars

Next == Call \/ Query \/ Stop \/ \E w \in Puts : Write(w) \/ Expire(w)

Spec == Init /\ [][Next]_vars
\* The goroutines of a query and of the puts run on; nothing need expire or
\* stop.
FairSpec == Spec /\ WF_vars(Query) /\ \A w \in Puts : WF_vars(Write(w))

-----------------------------------------------------------------------------
(* Properties *)

Cells == DOMAIN Begins

TypeOK ==
  /\ StoreTypeOK
  /\ plan \in Plans /\ expired \subseteq Puts /\ phase \in {"idle", "run", "done", "dead"}
  /\ IsABag(tasks)
  /\ \A t \in BagToSet(tasks) :
       /\ t.uri \in Seq(Cells) /\ t.frontD \in Seq(Cells) /\ t.backD \in Seq(Cells)
  /\ found \in [Puts -> Nat] /\ listed \subseteq Key /\ due \subseteq Puts

\* The conditions on which getMatchingMessage panics with "invariant failure":
\* cells are left over when nothing is wild any more, a star is not the last
\* cell, or cells wait in front of the star in a scan from the left.
NoInvariantFailure ==
  \A t \in BagToSet(tasks) :
    /\ Literal(t.uri) => t.frontD = <<>> /\ t.backD = <<>> /\ ~t.il
    /\ AtStar(t) => FirstWild(t.uri) = Len(t.uri) /\ (~t.il => t.frontD = <<>>)

Uris == {p.uri : p \in Plans}
Topics == {topicOf[w] : w \in Puts}

\* The topics that a pattern matches by its definition, and those it matches
\* if a longer cell may stand for the cell that it begins with.
Matching == [uri \in Uris |-> {t \in Topics : Matches(uri, t)}]
Loosened(t) == {l \in [DOMAIN t -> Cells] : \A i \in DOMAIN t : t[i] \in Begins[l[i]]}
LooselyMatching == [uri \in Uris |-> {t \in Topics : \E l \in Loosened(t) : Matches(uri, l)}]

\* getMatchingMessage walks keys by their bytes.  What it returns matches the
\* query, except that a name in the query may also stand for a longer name
\* that begins with it.
QuerySound ==
  \A w \in Puts : found[w] > 0 => plan.kind = "query" /\ topicOf[w] \in LooselyMatching[plan.uri]

\* GetMatchingMessage splits a query at its star.  No "+" is left waiting
\* beside the star then.
NoPlusWaits(uri) ==
  Literal(uri) \/ LET t == FirstTask(uri) IN "+" \notin Range(t.frontD) \cup Range(t.backD)

\* However the walk is split, and whatever is written meanwhile, a query that
\* ends has returned each message that matches it, that was there with its
\* prefixes when it began and that has not been replaced or expired since;
\* provided no "+" waits beside the star.
QueryComplete ==
  phase = "done" /\ plan.kind = "query" /\ NoPlusWaits(plan.uri) =>
    \A w \in due \ expired :
      topicOf[w] \in Matching[plan.uri] /\ db["Msg"][topicOf[w]] = w => found[w] > 0

\* No name begins with another.
NamesApart == \A w \in plan.stored \cup plan.puts : \A i \in DOMAIN topicOf[w] :
                Begins[topicOf[w][i]] \cap UNION {Range(topicOf[v]) : v \in plan.stored \cup plan.puts}
                  = {topicOf[w][i]}

\* A query returns at most one message of a topic although its goroutines walk
\* the keys independently and writers replace the message meanwhile; provided
\* that no stored name begins with another.
FoundOnce ==
  NamesApart => \A v, w \in Puts : topicOf[v] = topicOf[w] /\ found[v] > 0 =>
                  IF v = w THEN found[v] = 1 ELSE found[w] = 0

\* ListChildren returns the next cell of each message that was below the URI
\* when it was called, and nothing that is not the path to some message.
ListExact ==
  phase = "done" /\ plan.kind = "list" =>
    LET n == Len(plan.uri) IN
    /\ \A w \in due : Depth(w) > n /\ Prefix(topicOf[w], n) = plan.uri => Prefix(topicOf[w], n + 1) \in listed
    /\ \A k \in listed : \E w \in Puts : pc[w] # "idle" /\ k \in Above(topicOf[w]) \cup {topicOf[w]}

\* A query comes to its end unless the process stops.
QueryEnds == phase = "run" ~> phase \in {"done", "dead"}
=============================================================================
