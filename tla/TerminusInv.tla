---------------------------- MODULE TerminusInv -----------------------------
(*****************************************************************************)
(* The inductive invariant of Terminus.                                      *)
(*****************************************************************************)
EXTENDS Terminus

(* The inductive invariant *)

OnPath(q, path) == \A i \in DOMAIN q : uriOf[q[i]] = path

\* A node's path spells the way to it, and only subscriptions to exactly that
\* path are in its slice, in the slice being shifted, or about to be added.
Shape ==
  /\ \A n \in Node : \A c \in Cell : children[n][c] # Nil => children[n][c].path = Append(n.path, c)
  /\ \A n \in Node : OnPath(subz[n], n.path)
  /\ (rlock # Nil /\ rlock.node # Nil) => OnPath(rlock.kept, rlock.node.path)
  /\ \A s \in Subs : OnPath(seen[s], uriOf[s])

\* addSub is at a node whose path is a prefix of the subscription's URI.
Walks ==
  \A s \in Subs :
    /\ pc[s] \in {"idle", "walk", "link"} =>
         /\ Depth(s) \in 0 .. Len(uriOf[s])
         /\ at[s].path = SubSeq(uriOf[s], 1, Depth(s))
    /\ pc[s] = "link" => Depth(s) < Len(uriOf[s])
    /\ pc[s] = "append" => at[s].path = uriOf[s]

\* Every call of rmatchSubs that is still to be made has matched the part of
\* the topic it consumed, so what Publish lists, queues and hands over matches.
Reached(p) ==
  {f \in Frame : f.pos \in 0 .. Len(topicOf[p]) /\ MatchesUpTo(f.node.path, topicOf[p], f.pos)}

Fits(s) == {p \in Pubs : Matches(uriOf[s], topicOf[p])}

Routes ==
  /\ \A p \in Pubs : stack[p] \in Seq(Reached(p))
  /\ \A p \in Pubs : list[p] \in Seq({s \in Subs : p \in Fits(s)})
  /\ \A s \in Subs : mqueue[s] \in Seq(Fits(s))
  /\ \A s \in Subs : cur[s] \in Fits(s) \cup {Nil}
  /\ \A s \in Subs : log[s] \in Seq(Fits(s) \cup {Nil})

\* handler(nil) is called by a goroutine that has then ended.
Ends ==
  \A s \in Subs :
    /\ pc[s] = "idle" => gpc[s] = "none"
    /\ gpc[s] = "handle" => cur[s] # Nil
    /\ gpc[s] # "ended" => \A i \in DOMAIN log[s] : log[s][i] # Nil
    /\ \A i \in DOMAIN log[s] : log[s][i] = Nil => i = Len(log[s])

\* A late message was the one in hand; none is in hand after it.
Lates == \A s \in Subs : late[s] <= 1 /\ (late[s] = 1 => Done(s) /\ gpc[s] # "handle")

IInv == TypeOK /\ Shape /\ Walks /\ Routes /\ Ends /\ Lates

\* x may be handled before y.
InOrder(x, y) == x # Nil => y \notin after[x]

\* What a subscription has handled, then what it has in hand, then its queue.
Ordered(l, c, q) ==
  /\ \A i, j \in DOMAIN l : i < j => InOrder(l[i], l[j])
  /\ \A i \in DOMAIN l : InOrder(l[i], c)
  /\ \A i \in DOMAIN l, j \in DOMAIN q : InOrder(l[i], q[j])
  /\ \A j \in DOMAIN q : InOrder(c, q[j])
  /\ \A i, j \in DOMAIN q : i < j => InOrder(q[i], q[j])

Sent(x) == x = Nil \/ ppc[x] \in {"send", "done"}

\* What a subscription holds was sent by calls that have begun to send.
Began(l, c, q) ==
  /\ \A i \in DOMAIN l : Sent(l[i])
  /\ Sent(c)
  /\ \A j \in DOMAIN q : Sent(q[j])

\* A call is made once the calls before it have returned, and what is in a
\* queue was put there by a call that had begun to send.
Orders ==
  /\ \A p \in Pubs : ppc[p] # "idle" => \A q \in after[p] : ppc[q] = "done"
  /\ \A s \in Subs :
       /\ \A i \in DOMAIN log[s] : Sent(log[s][i])
       /\ Sent(cur[s])
       /\ \A j \in DOMAIN mqueue[s] : Sent(mqueue[s][j])
       /\ Ordered(log[s], cur[s], mqueue[s])

\* The copies of p that count towards its limit: Publish counts each of them.
Given(p) == Copies(p, {s \in Subs : ~tap[s]})

Limits ==
  \A p \in Pubs :
    /\ IsFiniteSet(Given(p))
    /\ Cardinality(Given(p)) <= count[p]
    /\ consumers[p] # 0 => Cardinality(Given(p)) <= consumers[p]

\* x is a copy of p.
CopyOf(x, p, S, l, q, c) ==
  \E s \in S :
    \/ \E i \in DOMAIN l[s] : x = <<s, "handled", i>> /\ l[s][i] = p
    \/ \E i \in DOMAIN q[s] : x = <<s, "queued", i>> /\ q[s][i] = p
    \/ x = <<s, "taken", 0>> /\ c[s] = p

\* Every member of D comes from one of C.
Moved(C, D) == \E f : \A d \in D : \E x \in C : f[x] = d

ChildrenShape ==
  \A n \in Node : \A c \in Cell : children[n][c] # Nil => children[n][c].path = Append(n.path, c)
SubzShape ==
  /\ \A n \in Node : OnPath(subz[n], n.path)
  /\ (rlock # Nil /\ rlock.node # Nil) => OnPath(rlock.kept, rlock.node.path)

SeenShape == \A s \in Subs : OnPath(seen[s], uriOf[s])

=============================================================================
