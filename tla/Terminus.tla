------------------------------ MODULE Terminus ------------------------------
(***************************************************************************)
(* The router's subscription tree and message dispatch                     *)
(* (internal/core/terminus.go).                                            *)
(*                                                                         *)
(* A subscription object s is one call of Client.Subscribe; a publication  *)
(* p is one call of Client.Publish.  Every call may run concurrently with  *)
(* every other: peer sessions handle each frame in a goroutine of its own. *)
(* One action is one critical section or one unsynchronised access.        *)
(*                                                                         *)
(* subTreeNode.subz is appended to and read under the node's own lock but  *)
(* filtered in place under rstree_lock only, a data race.  Its outcomes    *)
(* are modelled: a filter overwrites a concurrent append, an append that   *)
(* read the slice first brings removed entries back, and a reader sees     *)
(* each slot before or after the shift (Views).  A slice header is read    *)
(* and written atomically.                                                 *)
(***************************************************************************)
EXTENDS UriPattern, FiniteSets

CONSTANTS
  Clients,    \* Client objects
  Subs,       \* subscription objects
  SubIds,     \* UniqueMessageIDs
  Pubs,       \* publications
  Nil,
  clientOf,   \* [Subs -> Clients]
  idOf,       \* [Subs -> SubIds]   a re-sent subscribe has the same id
  uriOf,      \* [Subs -> patterns]
  tap,        \* [Subs -> BOOLEAN]
  topicOf,    \* [Pubs -> URIs]
  consumers,  \* [Pubs -> Nat]      0: no limit
  after,      \* [Pubs -> SUBSET Pubs]  publishes the caller made before this one
  subAfter,   \* [Subs -> SUBSET Subs]  subscribes the caller made before this one
  Callers,    \* the ids that are also unsubscribed from outside
  Leavers,    \* the clients whose context may be cancelled
  QueueCap    \* capacity of subscription.mqueue (4096 in the code)

Root == [path |-> <<>>, by |-> Nil]

\* A node is named by its path and by the addSub call that allocated it.
Node == {Root} \cup
        UNION {{[path |-> SubSeq(uriOf[s], 1, k), by |-> s] : k \in 1 .. Len(uriOf[s])} : s \in Subs}

Cell == UNION {{uriOf[s][k] : k \in 1 .. Len(uriOf[s])} : s \in Subs}

ASSUME TerminusAssumption ==
  /\ clientOf \in [Subs -> Clients]
  /\ idOf \in [Subs -> SubIds]
  /\ \A s \in Subs : uriOf[s] \in Seq(STRING) /\ uriOf[s] # <<>>
  /\ \A p \in Pubs : topicOf[p] \in Seq(STRING)
  /\ tap \in [Subs -> BOOLEAN]
  /\ consumers \in [Pubs -> Nat]
  /\ after \in [Pubs -> SUBSET Pubs]
  /\ subAfter \in [Subs -> SUBSET Subs]
  /\ Callers \subseteq SubIds /\ Leavers \subseteq Clients
  /\ QueueCap \in Nat \ {0}
  /\ Nil \notin Node /\ Nil \notin Pubs /\ Nil \notin Subs

VARIABLES
  children,   \* subTreeNode.children: [Node -> [Cell -> Node or Nil]]
  subz,       \* subTreeNode.subz: [Node -> Seq(Subs)]
  rstree,     \* Terminus.rstree: [SubIds -> Node or Nil]
  rlock,      \* holder of rstree_lock and its filter in progress, or Nil
  cmap,       \* Terminus.cmap: "none", "creating", "listed", "removed"
  clpc,       \* phase of a client's cleanup goroutine
  ctxdone,    \* clients whose context is done
  clsubs,     \* Client.subs
  pc,         \* phase of a Subscribe call
  at,         \* where addSub is in the tree
  seen,       \* the slice addSub is appending to, as it read it
  gpc,        \* phase of a subscription's dispatch goroutine
  cancelled,  \* subscriptions whose ctxcancel was called
  toTerm,     \* Unsubscribe's toTerm, per calling thread
  mqueue,     \* subscription.mqueue
  cur,        \* the message the dispatch goroutine holds
  log,        \* calls of the handler, in order; Nil is handler(nil)
  late,       \* history: handler(m) calls made after the context was done
  upc,        \* phase of an outside Unsubscribe(id) call
  ppc,        \* phase of a Publish call
  stack,      \* rmatchSubs: calls still to make, next one first
  list,       \* Publish: clientlist, what is left of it
  count       \* Publish: count

treeVars == <<children, subz, rstree, rlock>>
clientVars == <<cmap, clpc, ctxdone, clsubs>>
subVars == <<pc, at, seen>>
dispVars == <<gpc, cancelled, toTerm, mqueue, cur, log, late>>
pubVars == <<ppc, stack, list, count>>
vars == <<treeVars, clientVars, subVars, dispVars, upc, pubVars>>

\* The threads that filter a node: a dispatch goroutine, an outside caller of
\* Unsubscribe, a client's cleanup goroutine.
Thread == [kind: {"dispatch"}, s: Subs] \cup [kind: {"caller"}, id: SubIds]
          \cup [kind: {"cleanup"}, c: Clients]
Dispatch(s) == [kind |-> "dispatch", s |-> s]
Caller(id) == [kind |-> "caller", id |-> id]
Cleanup(c) == [kind |-> "cleanup", c |-> c]

\* context.WithCancel(ctx) in Subscribe: done with its parent or on its own
Done(s) == s \in cancelled \/ clientOf[s] \in ctxdone

-----------------------------------------------------------------------------
Init ==
  /\ children = [n \in Node |-> [c \in Cell |-> Nil]]
  /\ subz = [n \in Node |-> <<>>]
  /\ rstree = [i \in SubIds |-> Nil]
  /\ rlock = Nil
  /\ cmap = [c \in Clients |-> "none"]
  /\ clpc = [c \in Clients |-> "none"]
  /\ ctxdone = {}
  /\ clsubs = [c \in Clients |-> {}]
  /\ pc = [s \in Subs |-> "idle"]
  /\ at = [s \in Subs |-> Root]
  /\ seen = [s \in Subs |-> <<>>]
  /\ gpc = [s \in Subs |-> "none"]
  /\ cancelled = {}
  /\ toTerm = [t \in Thread |-> {}]
  /\ mqueue = [s \in Subs |-> <<>>]
  /\ cur = [s \in Subs |-> Nil]
  /\ log = [s \in Subs |-> <<>>]
  /\ late = [s \in Subs |-> 0]
  /\ upc = [i \in SubIds |-> "idle"]
  /\ ppc = [p \in Pubs |-> "idle"]
  /\ stack = [p \in Pubs |-> <<>>]
  /\ list = [p \in Pubs |-> <<>>]
  /\ count = [p \in Pubs |-> 0]

-----------------------------------------------------------------------------
(* Clients *)

\* CreateClient starts the cleanup goroutine before it enters the client in
\* cmap, so cleanup may run in between.
CreateClient(c) ==
  /\ cmap[c] = "none"
  /\ cmap' = [cmap EXCEPT ![c] = "creating"]
  /\ clpc' = [clpc EXCEPT ![c] = "waiting"]
  /\ UNCHANGED <<treeVars, ctxdone, clsubs, subVars, dispVars, upc, pubVars>>

ListClient(c) ==
  /\ cmap[c] = "creating"
  /\ cmap' = [cmap EXCEPT ![c] = "listed"]
  /\ UNCHANGED <<treeVars, clpc, ctxdone, clsubs, subVars, dispVars, upc, pubVars>>

\* The owner of the client's context cancels it (a peer session breaks, an
\* api user is done).
CtxDone(c) ==
  /\ cmap[c] # "none"
  /\ c \in Leavers \ ctxdone
  /\ ctxdone' = ctxdone \cup {c}
  /\ UNCHANGED <<treeVars, cmap, clpc, clsubs, subVars, dispVars, upc, pubVars>>

-----------------------------------------------------------------------------
(* The in-place filter of a node's slice, under rstree_lock *)

\* The elements of q that keep allows, in their order (a set of one sequence).
Filtered(q, keep) ==
  {r \in UNION {[1 .. k -> keep] : k \in 0 .. Len(q)} :
     \E f \in [DOMAIN r -> {i \in DOMAIN q : q[i] \in keep}] :
       /\ \A i, j \in DOMAIN r : i < j => f[i] < f[j]
       /\ \A m \in DOMAIN q : q[m] \in keep => \E i \in DOMAIN r : f[i] = m
       /\ \A i \in DOMAIN r : r[i] = q[f[i]]}

\* What a reader of n.subz may see while a filter shifts it.
Views(n) ==
  IF rlock # Nil /\ rlock.node = n
  THEN {[i \in DOMAIN subz[n] |-> IF i \in moved THEN rlock.kept[i] ELSE subz[n][i]] :
          moved \in SUBSET DOMAIN rlock.kept}
  ELSE {subz[n]}

Read(t, id, keep, todo) ==
  LET n == rstree[id] IN
  \E kept \in Filtered(subz[n], keep) :
    rlock' = [owner |-> t, id |-> id, node |-> n, old |-> subz[n], kept |-> kept, todo |-> todo]

Store ==
  /\ subz' = [subz EXCEPT ![rlock.node] = rlock.kept]
  /\ rstree' = [rstree EXCEPT ![rlock.id] = Nil]

Holds(t) == rlock # Nil /\ rlock.owner = t

\* Unsubscribe(id) by thread t: lock and read, store and unlock, then cancel
\* what was removed.
UnsubscribeRead(t, id) ==
  /\ rlock = Nil
  /\ rstree[id] # Nil
  /\ Read(t, id, {s \in Subs : idOf[s] # id}, {})
  /\ UNCHANGED <<children, subz, rstree>>

UnsubscribeMiss(id) == rlock = Nil /\ rstree[id] = Nil

UnsubscribeStore(t) ==
  /\ Holds(t)
  /\ Store
  /\ rlock' = Nil
  /\ toTerm' = [toTerm EXCEPT ![t] =
                  {s \in Subs : idOf[s] = rlock.id /\ \E i \in DOMAIN rlock.old : rlock.old[i] = s}]
  /\ UNCHANGED children

UnsubscribeTerm(t) == cancelled' = cancelled \cup toTerm[t]

-----------------------------------------------------------------------------
(* Client.Subscribe and AddSub *)

SubscribeStart(s) ==
  /\ pc[s] = "idle"
  /\ cmap[clientOf[s]] \in {"listed", "removed"}
  /\ \A u \in subAfter[s] : pc[u] = "done"
  /\ pc' = [pc EXCEPT ![s] = "walk"]
  /\ gpc' = [gpc EXCEPT ![s] = "run"]
  /\ UNCHANGED <<treeVars, clientVars, at, seen, cancelled, toTerm, mqueue, cur, log, late, upc, pubVars>>

Depth(s) == Len(at[s].path)
NextCell(s) == uriOf[s][Depth(s) + 1]

AddSubDescend(s) ==
  /\ pc[s] = "walk"
  /\ Depth(s) < Len(uriOf[s])
  /\ children[at[s]][NextCell(s)] # Nil
  /\ at' = [at EXCEPT ![s] = children[at[s]][NextCell(s)]]
  /\ UNCHANGED <<treeVars, clientVars, pc, seen, dispVars, upc, pubVars>>

\* The child is missing: the rest of the path and the subscription go into new
\* nodes that nobody else can see yet.
AddSubBuild(s) ==
  /\ pc[s] = "walk"
  /\ Depth(s) < Len(uriOf[s])
  /\ children[at[s]][NextCell(s)] = Nil
  /\ pc' = [pc EXCEPT ![s] = "link"]
  /\ children' = [n \in Node |->
       IF n.by = s /\ Len(n.path) \in Depth(s) + 1 .. Len(uriOf[s]) - 1
       THEN [children[n] EXCEPT ![uriOf[s][Len(n.path) + 1]] =
               [path |-> SubSeq(uriOf[s], 1, Len(n.path) + 1), by |-> s]]
       ELSE children[n]]
  /\ subz' = [subz EXCEPT ![[path |-> uriOf[s], by |-> s]] = <<s>>]
  /\ UNCHANGED <<rstree, rlock, clientVars, at, seen, dispVars, upc, pubVars>>

\* ... and are then linked in, whatever the parent holds by now.
AddSubLink(s) ==
  /\ pc[s] = "link"
  /\ children' = [children EXCEPT ![at[s]][NextCell(s)] =
                    [path |-> SubSeq(uriOf[s], 1, Depth(s) + 1), by |-> s]]
  /\ at' = [at EXCEPT ![s] = [path |-> uriOf[s], by |-> s]]
  /\ pc' = [pc EXCEPT ![s] = "register"]
  /\ UNCHANGED <<subz, rstree, rlock, clientVars, seen, dispVars, upc, pubVars>>

\* s.subz = append(s.subz, sub) under the node's lock: read ...
AddSubRead(s) ==
  /\ pc[s] = "walk"
  /\ Depth(s) = Len(uriOf[s])
  /\ \A u \in Subs : pc[u] = "append" => at[u] # at[s]
  /\ pc' = [pc EXCEPT ![s] = "append"]
  /\ \E v \in Views(at[s]) : seen' = [seen EXCEPT ![s] = v]
  /\ UNCHANGED <<treeVars, clientVars, at, dispVars, upc, pubVars>>

\* ... and write.  The elements are those it read or, where append did not
\* reallocate, what a filter has shifted into their place since.
AddSubAppend(s) ==
  LET now == subz[at[s]]
      inPlace == [i \in DOMAIN seen[s] |-> IF i \in DOMAIN now THEN now[i] ELSE seen[s][i]]
  IN
  /\ pc[s] = "append"
  /\ \E base \in {seen[s], inPlace} : subz' = [subz EXCEPT ![at[s]] = Append(base, s)]
  /\ pc' = [pc EXCEPT ![s] = "register"]
  /\ seen' = [seen EXCEPT ![s] = <<>>]
  /\ UNCHANGED <<children, rstree, rlock, clientVars, at, dispVars, upc, pubVars>>

AddSubRegister(s) ==
  /\ pc[s] = "register"
  /\ rlock = Nil
  /\ rstree' = [rstree EXCEPT ![idOf[s]] = at[s]]
  /\ pc' = [pc EXCEPT ![s] = "record"]
  /\ UNCHANGED <<children, subz, rlock, clientVars, at, seen, dispVars, upc, pubVars>>

\* cl.subs = append(cl.subs, subid) is not synchronised: with another Subscribe
\* of the same client at the same point, one of the two may be lost.
RecordSub(s) ==
  LET c == clientOf[s] IN
  /\ pc[s] = "record"
  /\ \/ clsubs' = [clsubs EXCEPT ![c] = @ \cup {idOf[s]}]
     \/ /\ \E u \in Subs \ {s} : clientOf[u] = c /\ pc[u] = "record"
        /\ UNCHANGED clsubs
  /\ pc' = [pc EXCEPT ![s] = "done"]
  /\ UNCHANGED <<treeVars, cmap, clpc, ctxdone, at, seen, dispVars, upc, pubVars>>

-----------------------------------------------------------------------------

(* The dispatch goroutine started by Subscribe *)

GoTo(s, phase) == gpc' = [gpc EXCEPT ![s] = phase]

\* bug: the context is not checked again after a message was received
DispatchTakeUnchecked(s) ==
  /\ gpc[s] = "run"
  /\ mqueue[s] # <<>>
  /\ mqueue' = [mqueue EXCEPT ![s] = Tail(@)]
  /\ GoTo(s, "handle")
  /\ cur' = [cur EXCEPT ![s] = Head(mqueue[s])]
  /\ UNCHANGED <<treeVars, clientVars, subVars, cancelled, toTerm, log, late, upc, pubVars>>

DispatchTake(s) ==
  /\ gpc[s] = "run"
  /\ mqueue[s] # <<>>
  /\ mqueue' = [mqueue EXCEPT ![s] = Tail(@)]
  /\ \/ Done(s) /\ GoTo(s, "unsub") /\ UNCHANGED cur
     \/ ~Done(s) /\ GoTo(s, "handle") /\ cur' = [cur EXCEPT ![s] = Head(mqueue[s])]
  /\ UNCHANGED <<treeVars, clientVars, subVars, cancelled, toTerm, log, late, upc, pubVars>>

\* bug: the goroutine stops after one message
DispatchHandleOnce(s) ==
  /\ gpc[s] = "handle"
  /\ log' = [log EXCEPT ![s] = Append(@, cur[s])]
  /\ late' = [late EXCEPT ![s] = IF Done(s) THEN @ + 1 ELSE @]
  /\ cur' = [cur EXCEPT ![s] = Nil]
  /\ GoTo(s, "none")
  /\ UNCHANGED <<treeVars, clientVars, subVars, cancelled, toTerm, mqueue, upc, pubVars>>

DispatchHandle(s) ==
  /\ gpc[s] = "handle"
  /\ log' = [log EXCEPT ![s] = Append(@, cur[s])]
  /\ late' = [late EXCEPT ![s] = IF Done(s) THEN @ + 1 ELSE @]
  /\ cur' = [cur EXCEPT ![s] = Nil]
  /\ GoTo(s, "run")
  /\ UNCHANGED <<treeVars, clientVars, subVars, cancelled, toTerm, mqueue, upc, pubVars>>

\* bug: the context is looked at only when there is a message
DispatchDoneBusy(s) ==
  /\ gpc[s] = "run"
  /\ Done(s) /\ mqueue[s] # <<>>
  /\ GoTo(s, "unsub")
  /\ UNCHANGED <<treeVars, clientVars, subVars, cancelled, toTerm, mqueue, cur, log, late, upc, pubVars>>

DispatchDone(s) ==
  /\ gpc[s] = "run"
  /\ Done(s)
  /\ GoTo(s, "unsub")
  /\ UNCHANGED <<treeVars, clientVars, subVars, cancelled, toTerm, mqueue, cur, log, late, upc, pubVars>>

\* Unsubscribe(newsub.subid); its error is ignored
DispatchUnsub(s) ==
  /\ \/ gpc[s] = "unsub" /\ UnsubscribeRead(Dispatch(s), idOf[s]) /\ GoTo(s, "locked") /\ UNCHANGED <<cancelled, toTerm>>
     \/ gpc[s] = "unsub" /\ UnsubscribeMiss(idOf[s]) /\ GoTo(s, "ending") /\ UNCHANGED <<treeVars, cancelled, toTerm>>
     \/ gpc[s] = "locked" /\ UnsubscribeStore(Dispatch(s)) /\ GoTo(s, "term") /\ UNCHANGED cancelled
     \/ gpc[s] = "term" /\ UnsubscribeTerm(Dispatch(s)) /\ GoTo(s, "ending") /\ UNCHANGED <<treeVars, toTerm>>
  /\ UNCHANGED <<clientVars, subVars, mqueue, cur, log, late, upc, pubVars>>

\* bug: no return after handler(nil)
DispatchEndNoReturn(s) ==
  /\ gpc[s] = "ending"
  /\ log' = [log EXCEPT ![s] = Append(@, Nil)]
  /\ GoTo(s, "run")
  /\ UNCHANGED <<treeVars, clientVars, subVars, cancelled, toTerm, mqueue, cur, late, upc, pubVars>>

DispatchEnd(s) ==
  /\ gpc[s] = "ending"
  /\ log' = [log EXCEPT ![s] = Append(@, Nil)]
  /\ GoTo(s, "ended")
  /\ UNCHANGED <<treeVars, clientVars, subVars, cancelled, toTerm, mqueue, cur, late, upc, pubVars>>

-----------------------------------------------------------------------------
(* Unsubscribe called from outside (an unsubscribe message) *)

CallerUnsub(id) ==
  LET To(phase) == upc' = [upc EXCEPT ![id] = phase] IN
  /\ \/ upc[id] = "idle" /\ UnsubscribeRead(Caller(id), id) /\ To("locked") /\ UNCHANGED <<cancelled, toTerm>>
     \/ upc[id] = "idle" /\ UnsubscribeMiss(id) /\ To("error") /\ UNCHANGED <<treeVars, cancelled, toTerm>>
     \/ upc[id] = "locked" /\ UnsubscribeStore(Caller(id)) /\ To("term") /\ UNCHANGED cancelled
     \/ upc[id] = "term" /\ UnsubscribeTerm(Caller(id)) /\ To("ok") /\ UNCHANGED <<treeVars, toTerm>>
  /\ UNCHANGED <<clientVars, subVars, gpc, mqueue, cur, log, late, pubVars>>

-----------------------------------------------------------------------------
(* A client's cleanup goroutine *)

CleanupLock(c) ==
  /\ clpc[c] = "waiting"
  /\ c \in ctxdone
  /\ rlock = Nil
  /\ rlock' = [owner |-> Cleanup(c), id |-> Nil, node |-> Nil, old |-> <<>>, kept |-> <<>>,
               todo |-> clsubs[c]]
  /\ clpc' = [clpc EXCEPT ![c] = "cleaning"]
  /\ UNCHANGED <<children, subz, rstree, cmap, ctxdone, clsubs, subVars, dispVars, upc, pubVars>>

\* One round of the loop: entries are kept by client, not by subscription id.
CleanupRead(c) ==
  /\ Holds(Cleanup(c))
  /\ rlock.node = Nil
  /\ \E id \in rlock.todo :
       \/ /\ rstree[id] # Nil
          /\ Read(Cleanup(c), id, {s \in Subs : clientOf[s] # c}, rlock.todo \ {id})
       \/ /\ rstree[id] = Nil
          /\ rlock' = [rlock EXCEPT !.todo = @ \ {id}]
  /\ UNCHANGED <<children, subz, rstree, clientVars, subVars, dispVars, upc, pubVars>>

CleanupStore(c) ==
  /\ Holds(Cleanup(c))
  /\ rlock.node # Nil
  /\ Store
  /\ rlock' = [rlock EXCEPT !.id = Nil, !.node = Nil, !.old = <<>>, !.kept = <<>>]
  /\ UNCHANGED <<children, clientVars, subVars, dispVars, upc, pubVars>>

CleanupUnlock(c) ==
  /\ Holds(Cleanup(c))
  /\ rlock.node = Nil
  /\ rlock.todo = {}
  /\ rlock' = Nil
  /\ clpc' = [clpc EXCEPT ![c] = "unlisting"]
  /\ UNCHANGED <<children, subz, rstree, cmap, ctxdone, clsubs, subVars, dispVars, upc, pubVars>>

\* bug: the client is not removed from cmap
CleanupUnlistNot(c) ==
  /\ clpc[c] = "unlisting"
  /\ clpc' = [clpc EXCEPT ![c] = "gone"]
  /\ UNCHANGED <<treeVars, cmap, ctxdone, clsubs, subVars, dispVars, upc, pubVars>>

\* delete(cmap, cid) is a no-op if CreateClient has not entered it yet.
CleanupUnlist(c) ==
  /\ clpc[c] = "unlisting"
  /\ cmap' = [cmap EXCEPT ![c] = IF @ = "listed" THEN "removed" ELSE @]
  /\ clpc' = [clpc EXCEPT ![c] = "gone"]
  /\ UNCHANGED <<treeVars, ctxdone, clsubs, subVars, dispVars, upc, pubVars>>

-----------------------------------------------------------------------------
(* Client.Publish *)

PublishStart(p) ==
  /\ ppc[p] = "idle"
  /\ \A q \in after[p] : ppc[q] = "done"
  /\ ppc' = [ppc EXCEPT ![p] = "match"]
  /\ stack' = [stack EXCEPT ![p] = <<[node |-> Root, pos |-> 0]>>]
  /\ UNCHANGED <<treeVars, clientVars, subVars, dispVars, upc, list, count>>

\* rmatchSubs: pos cells of the topic are consumed
Child(n, cell) == IF cell \in Cell THEN children[n][cell] ELSE Nil

Calls(n, cell, from, to) ==
  IF Child(n, cell) = Nil THEN <<>>
  ELSE [i \in 1 .. to - from + 1 |-> [node |-> Child(n, cell), pos |-> from + i - 1]]

\* bug: a pattern matches once all but the last cell is consumed
AtEndEarly(p, f) == f.pos + 1 >= Len(topicOf[p])

\* len(parts) == 0
AtEnd(p, f) == f.pos = Len(topicOf[p])

PublishMatch(p) ==
  LET L == Len(topicOf[p])
      f == Head(stack[p])
  IN
  /\ ppc[p] = "match"
  /\ stack[p] # <<>>
  /\ \/ /\ AtEnd(p, f)
        /\ \E v \in Views(f.node) : list' = [list EXCEPT ![p] = @ \o v]
        /\ stack' = [stack EXCEPT ![p] = Tail(@)]
     \/ /\ ~AtEnd(p, f)
        /\ stack' = [stack EXCEPT ![p] =
             Calls(f.node, topicOf[p][f.pos + 1], f.pos + 1, f.pos + 1)
             \o Calls(f.node, "+", f.pos + 1, f.pos + 1)
             \o Calls(f.node, "*", f.pos, L)
             \o Tail(@)]
        /\ UNCHANGED list
  /\ UNCHANGED <<treeVars, clientVars, subVars, dispVars, upc, ppc, count>>

Permuted(q) ==
  {[i \in DOMAIN q |-> q[f[i]]] :
     f \in {g \in [DOMAIN q -> DOMAIN q] : \A i, j \in DOMAIN q : g[i] = g[j] => i = j}}

PublishShuffle(p) ==
  /\ ppc[p] = "match"
  /\ stack[p] = <<>>
  /\ \E q \in IF consumers[p] # 0 THEN Permuted(list[p]) ELSE {list[p]} :
       list' = [list EXCEPT ![p] = q]
  /\ ppc' = [ppc EXCEPT ![p] = "send"]
  /\ UNCHANGED <<treeVars, clientVars, subVars, dispVars, upc, stack, count>>

\* bug: off by one
LimitHitLate(p, s) == ~tap[s] /\ consumers[p] # 0 /\ count[p] > consumers[p]

LimitHit(p, s) == ~tap[s] /\ consumers[p] # 0 /\ count[p] >= consumers[p]

\* bug: off by one
RoomOneMore(s) == Len(mqueue[s]) <= QueueCap

\* the send to sub.mqueue would not block
Room(s) == Len(mqueue[s]) < QueueCap

\* bug: the queue is used as a stack
EnqueueFront(p, s) == mqueue' = [mqueue EXCEPT ![s] = <<p>> \o @]

Enqueue(p, s) == mqueue' = [mqueue EXCEPT ![s] = Append(@, p)]

PublishSend(p) ==
  LET s == Head(list[p])
      counted == count' = [count EXCEPT ![p] = @ + 1]
  IN
  /\ ppc[p] = "send"
  /\ list[p] # <<>>
  /\ list' = [list EXCEPT ![p] = Tail(@)]
  /\ \/ LimitHit(p, s) /\ UNCHANGED <<mqueue, cancelled, count>>
     \/ /\ ~LimitHit(p, s) /\ Room(s)
        /\ Enqueue(p, s)
        /\ counted /\ UNCHANGED cancelled
     \/ /\ ~LimitHit(p, s) /\ ~Room(s)
        /\ cancelled' = cancelled \cup {s}
        /\ counted /\ UNCHANGED mqueue
  /\ UNCHANGED <<treeVars, clientVars, subVars, gpc, toTerm, cur, log, late, upc, ppc, stack>>

PublishEnd(p) ==
  /\ ppc[p] = "send"
  /\ list[p] = <<>>
  /\ ppc' = [ppc EXCEPT ![p] = "done"]
  /\ UNCHANGED <<treeVars, clientVars, subVars, dispVars, upc, stack, list, count>>

-----------------------------------------------------------------------------
SubStep(s) ==
  \/ SubscribeStart(s) \/ AddSubDescend(s) \/ AddSubBuild(s) \/ AddSubLink(s)
  \/ AddSubRead(s) \/ AddSubAppend(s) \/ AddSubRegister(s) \/ RecordSub(s)

DispatchStep(s) ==
  \/ DispatchTake(s) \/ DispatchHandle(s) \/ DispatchDone(s) \/ DispatchUnsub(s) \/ DispatchEnd(s)

CleanupStep(c) ==
  \/ CleanupLock(c) \/ CleanupRead(c) \/ CleanupStore(c) \/ CleanupUnlock(c) \/ CleanupUnlist(c)

ClientStep(c) == CreateClient(c) \/ ListClient(c) \/ CtxDone(c) \/ CleanupStep(c)

PubStep(p) ==
  \/ PublishStart(p) \/ PublishMatch(p) \/ PublishShuffle(p) \/ PublishSend(p) \/ PublishEnd(p)

Next ==
  \/ \E s \in Subs : SubStep(s) \/ DispatchStep(s)
  \/ \E i \in Callers : CallerUnsub(i)
  \/ \E c \in Clients : ClientStep(c)
  \/ \E p \in Pubs : PubStep(p)

Spec == Init /\ [][Next]_vars

\* Goroutines that are running keep being scheduled: the dispatch and cleanup
\* goroutines, and an Unsubscribe call that has taken the lock.  Nothing is
\* assumed of callers that have not called yet.
Fairness ==
  /\ \A s \in Subs : WF_vars(DispatchStep(s))
  /\ \A c \in Clients : WF_vars(CleanupStep(c))
  /\ \A i \in Callers : WF_vars(upc[i] # "idle" /\ CallerUnsub(i))

FairSpec == Spec /\ Fairness

-----------------------------------------------------------------------------
(* Properties *)

Frame == [node: Node, pos: Nat]
Holding == [owner: Thread, id: SubIds \cup {Nil}, node: Node \cup {Nil},
            old: Seq(Subs), kept: Seq(Subs), todo: SUBSET SubIds]

\* Every variable has its type: the tree, the lock record, the phases of every
\* goroutine and call, and queues no longer than the channel's capacity.
TypeOK ==
  /\ children \in [Node -> [Cell -> Node \cup {Nil}]]
  /\ subz \in [Node -> Seq(Subs)]
  /\ rstree \in [SubIds -> Node \cup {Nil}]
  /\ rlock \in Holding \cup {Nil}
  /\ cmap \in [Clients -> {"none", "creating", "listed", "removed"}]
  /\ clpc \in [Clients -> {"none", "waiting", "cleaning", "unlisting", "gone"}]
  /\ ctxdone \in SUBSET Clients
  /\ clsubs \in [Clients -> SUBSET SubIds]
  /\ pc \in [Subs -> {"idle", "walk", "link", "append", "register", "record", "done"}]
  /\ at \in [Subs -> Node]
  /\ seen \in [Subs -> Seq(Subs)]
  /\ gpc \in [Subs -> {"none", "run", "handle", "unsub", "locked", "term", "ending", "ended"}]
  /\ cancelled \in SUBSET Subs
  /\ toTerm \in [Thread -> SUBSET Subs]
  /\ mqueue \in [Subs -> Seq(Pubs)]
  /\ cur \in [Subs -> Pubs \cup {Nil}]
  /\ log \in [Subs -> Seq(Pubs \cup {Nil})]
  /\ late \in [Subs -> Nat]
  /\ upc \in [SubIds -> {"idle", "locked", "term", "ok", "error"}]
  /\ ppc \in [Pubs -> {"idle", "match", "send", "done"}]
  /\ stack \in [Pubs -> Seq(Frame)]
  /\ list \in [Pubs -> Seq(Subs)]
  /\ count \in [Pubs -> Nat]
  /\ \A s \in Subs : Len(mqueue[s]) <= QueueCap

\* A handler is only ever given messages whose topic its subscription's URI
\* matches, whatever adds, removals and publications race in the tree
\* (rmatchSubs, addSub and the in-place filters).
DeliveredMatches ==
  \A s \in Subs : \A i \in DOMAIN log[s] :
    log[s][i] # Nil => Matches(uriOf[s], topicOf[log[s][i]])

\* handler(nil) is the end of a subscription: it is called at most once and no
\* message is handled after it.
EndIsLast ==
  \A s \in Subs : \A i \in DOMAIN log[s] : log[s][i] = Nil => i = Len(log[s])

\* Once a subscription's context is done (unsubscribed, queue full, client
\* gone) at most one more message reaches the handler: the one the dispatch
\* goroutine had already taken when it checked the context.
AtMostOneLate == \A s \in Subs : late[s] <= 1

\* The places of p in the logs l, in the queues q, and in hand, c, of the
\* subscriptions in S.
HandledBy(p, S, l) == UNION {{<<s, "handled", i>> : i \in {j \in DOMAIN l[s] : l[s][j] = p}} : s \in S}
QueuedBy(p, S, q) == UNION {{<<s, "queued", i>> : i \in {j \in DOMAIN q[s] : q[s][j] = p}} : s \in S}
TakenBy(p, S, c) == {<<s, "taken", 0>> : s \in {u \in S : c[u] = p}}
Held(p, S, l, q, c) == HandledBy(p, S, l) \cup QueuedBy(p, S, q) \cup TakenBy(p, S, c)

\* Where the copies of p that subscriptions in S were given are now.
Copies(p, S) == Held(p, S, log, mqueue, cur)

\* A publication limited to N consumers is given to at most N of the
\* subscriptions that are not taps, even when a racing read of the tree lists
\* a subscription twice.
ConsumerLimit ==
  \A p \in Pubs :
    consumers[p] # 0 => Cardinality(Copies(p, {s \in Subs : ~tap[s]})) <= consumers[p]

\* Messages one caller publishes in order are handled in that order by every
\* subscription, duplicates and losses aside.
PublisherOrder ==
  \A s \in Subs : \A i, j \in DOMAIN log[s] :
    i < j /\ log[s][i] # Nil => log[s][j] \notin after[log[s][i]]

\* Once its context is done, a subscription's dispatch goroutine ends and tells
\* the handler so: no slow or vanished subscriber is kept for ever.
DoneEnds == \A s \in Subs : (gpc[s] # "none" /\ Done(s)) ~> (gpc[s] = "ended")

\* A message put in a subscription's queue is handled, or the subscription ends.
QueuedIsHandled ==
  \A s \in Subs, p \in Pubs :
    (\E i \in DOMAIN mqueue[s] : mqueue[s][i] = p) ~>
      (gpc[s] = "ended" \/ \E i \in DOMAIN log[s] : log[s][i] = p)

\* A client that is in cmap when its context is done leaves it.
ListedClientLeaves ==
  \A c \in Clients : (c \in ctxdone /\ cmap[c] = "listed" /\ clpc[c] = "waiting") ~> (cmap[c] = "removed")

-----------------------------------------------------------------------------
(* What comments and documents say of the tree *)

\* rstree "map[s] a subscription ID onto the snode that contains it"
\* (terminus.go:100).  The logging goroutine of CreateTerminus, which runs
\* under the read lock, dereferences the subscription it finds there.
LoggerFinds(id) == \E i \in DOMAIN subz[rstree[id]] : idOf[subz[rstree[id]][i]] = id

RstreeContains == rlock = Nil => \A id \in SubIds : rstree[id] # Nil => LoggerFinds(id)

\* The node a path leads to from the root, or Nil.
Lookup(path) ==
  LET down[k \in 0 .. Len(path)] ==
        IF k = 0 THEN Root
        ELSE IF down[k-1] = Nil THEN Nil ELSE Child(down[k-1], path[k])
  IN down[Len(path)]

\* AddSub "adds a subscription to terminus" and returns the id "of the actual
\* subscription in the tree" (terminus.go:163): a subscription that nobody has
\* unsubscribed and whose context is not done is in the tree.
AddedIsInTree ==
  \A s \in Subs :
    (pc[s] = "done" /\ ~Done(s) /\ upc[idOf[s]] = "idle" /\ rlock = Nil) =>
      /\ Lookup(uriOf[s]) # Nil
      /\ \E i \in DOMAIN subz[Lookup(uriOf[s])] : subz[Lookup(uriOf[s])][i] = s

\* "Tapping does not count in deliver-to-N messages" (doc/spec.md:189): a
\* subscription is passed over only when N that are not taps have been served.
TapsDoNotCount ==
  \A p \in Pubs :
    (ppc[p] = "send" /\ list[p] # <<>> /\ LimitHit(p, Head(list[p]))) =>
      Cardinality(Copies(p, {s \in Subs : ~tap[s]})) >= consumers[p]
=============================================================================
