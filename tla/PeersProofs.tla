---------------------------- MODULE PeersProofs -----------------------------
(***************************************************************************)
(* Theorems about Peers, for any requests, any number of connections and   *)
(* any plan: the inductive invariant, what the operations do to the state, *)
(* that every step keeps the invariant, and what follows from it.          *)
(***************************************************************************)
EXTENDS Peers, TLAPS

-----------------------------------------------------------------------------
(* The inductive invariant *)

\* Only the newest connection carries anything to the client.
Links ==
  /\ conn <= plan.conns
  /\ \A n \in closed : link[n] = "cut"
  /\ rx # "regen" => todo = {}
  /\ rx = "dial" => link[conn] = "cut" /\ toClient[conn] = <<>>
  /\ \A n \in Conns : n < conn => link[n] = "cut" /\ toClient[n] = <<>>

\* Nothing has happened on the connections that are still to come.
Unmade(n) ==
  /\ link[n] = "none" /\ toServer[n] = <<>> /\ toClient[n] = <<>> /\ n \notin reading /\ n \notin over
  /\ \A r \in Reqs : hpc[<<n, r>>] = "none"
  /\ \A s \in Subscribes : entry[<<n, s>>] = "none" /\ queue[<<n, s>>] = <<>> /\ <<n, s>> \notin tree

Later == \A n \in Conns : n > conn => Unmade(n)

\* Only a subscription is answered with its id.
SubFrames ==
  \A n \in Conns : \A i \in DOMAIN toClient[n] :
    toClient[n][i].cmd = "sub" => toClient[n][i].req \in Subscribes

\* Only the handler of an Unsubscribe remembers an outcome.
Labels == \A n \in Conns, r \in Reqs : hpc[<<n, r>>] \in {"ok", "err"} => r \in Unsubscribes

\* A queue holds something of F; and at most once.
Has(q, F) == \E i \in DOMAIN q : q[i] \in F
Lone(q, F) == \A i, j \in DOMAIN q : q[i] \in F /\ q[j] \in F => i = j

\* What a request that was not made has not left behind.
Fresh(r) ==
  /\ replyCB[r] = "none" /\ answers[r] = <<>> /\ r \notin activesubs
  /\ \A cb \in {"plain", "filter"} : nils[r][cb] = 0
  /\ \A n \in Conns : hpc[<<n, r>>] = "none" /\ ~Has(toServer[n], {r})

Uncalled == \A r \in Reqs \ called : Fresh(r)

\* A publication is under way to the server once, or has one goroutine there.
OneCopy(p) ==
  /\ \A n \in Conns : Lone(toServer[n], {p})
  /\ \A n, m \in Conns : Has(toServer[n], {p}) /\ Has(toServer[m], {p}) => n = m
  /\ \A n, m \in Conns : Has(toServer[n], {p}) => hpc[<<m, p>>] = "none"
  /\ \A n, m \in Conns : hpc[<<n, p>>] # "none" /\ hpc[<<m, p>>] # "none" => n = m
  /\ published[p] = 0 \/ (published[p] = 1 /\ \E n \in Conns : hpc[<<n, p>>] = "done")

Once == \A p \in Publishes : OneCopy(p)

\* A publication that is not answered, and whose caller will not hear of a
\* lost connection either.
Awaited(p) == replyCB[p] = "plain" /\ answers[p] = <<>> /\ nils[p]["plain"] = 0

MadeOrWill(p) == published[p] = 1 \/ \E n \in Conns : hpc[<<n, p>>] = "act"

To(p) == {f \in Frames : f.req = p}
Grants(p) == {f \in Frames : f.req = p /\ f.cmd = "ok"}

\* While a request or its answer is under way on the connection that the
\* client reads from, the answer is awaited; and a success is the only answer.
Verdict(p) ==
  /\ replyCB[p] # "filter" /\ nils[p]["filter"] = 0
  /\ rx # "dial" /\ (Has(toServer[conn], {p}) \/ hpc[<<conn, p>>] = "start") =>
       Awaited(p) /\ ~Has(toClient[conn], To(p))
  /\ Lone(toClient[conn], To(p))
  /\ Has(toClient[conn], To(p)) => Awaited(p)
  /\ Has(toClient[conn], Grants(p)) => MadeOrWill(p)
  /\ Has(answers[p], {"ok"}) =>
       Len(answers[p]) = 1 /\ replyCB[p] = "none" /\ nils[p]["plain"] = 0 /\ MadeOrWill(p)

Verdicts == \A p \in Publishes : Verdict(p)

Results(s, p) == {f \in Frames : f.req = s /\ f.of = p}

\* A publication is in the log of a subscription, under way to it or queued for
\* it on the newest connection: in one of these places, and once.
Place(s, p) ==
  /\ Lone(log[s], {p}) /\ Lone(toClient[conn], Results(s, p)) /\ Lone(queue[<<conn, s>>], {p})
  /\ ~(Has(log[s], {p}) /\ Has(toClient[conn], Results(s, p)))
  /\ ~(Has(log[s], {p}) /\ Has(queue[<<conn, s>>], {p}))
  /\ ~(Has(toClient[conn], Results(s, p)) /\ Has(queue[<<conn, s>>], {p}))
  /\ Has(log[s], {p}) \/ Has(toClient[conn], Results(s, p)) \/ Has(queue[<<conn, s>>], {p}) => published[p] # 0

Single == \A s \in Subscribes, p \in Publishes : Place(s, p)

\* The end of a subscription is the last thing its handler gets.
Ended ==
  \A s \in Subscribes : \A i \in DOMAIN log[s] : log[s][i] = "end" =>
    i = Len(log[s]) /\ replyCB[s] = "none" /\ s \in called /\ s \notin activesubs

\* The client reads from a connection that holds.
Connected == ~panicked /\ rx # "dial" /\ link[conn] = "up" /\ conn \notin closed

As(s, cmd) == {f \in Frames : f.req = s /\ f.cmd = cmd}
Framed(s, cmd) == Has(toClient[conn], As(s, cmd))

\* On such a connection an active subscription has been sent again, or is about
\* to be, and what the server made of it is in step with the frames it sent.
Kept(s) ==
  /\ s \in activesubs \ (todo \cup plan.mayFail) => Has(toServer[conn], {s}) \/ hpc[<<conn, s>>] # "none"
  /\ hpc[<<conn, s>>] \notin {"none", "start"} /\ s \notin plan.mayFail => entry[<<conn, s>>] # "none"
  /\ Framed(s, "sub") => hpc[<<conn, s>>] \notin {"none", "start"}
  /\ entry[<<conn, s>>] = "live" => <<conn, s>> \in tree
  /\ entry[<<conn, s>>] = "ended" =>
       Framed(s, "end") \/ (s \notin activesubs /\ replyCB[s] = "none" /\ s \in called)
  /\ Lone(toServer[conn], {s}) /\ (Has(toServer[conn], {s}) => hpc[<<conn, s>>] = "none")
  /\ s \in todo => ~Has(toServer[conn], {s}) /\ hpc[<<conn, s>>] = "none"

InStep == Connected => conn \notin over /\ \A s \in Subscribes : Kept(s)

IInv == TypeOK /\ Links /\ Later /\ SubFrames /\ Labels /\ Uncalled /\ Once /\ Verdicts /\ Single /\ Ended /\ InStep

-----------------------------------------------------------------------------
(* Types *)

LEMMA PlanType ==
  ASSUME plan \in Plans
  PROVE  /\ plan.conns \in Conns /\ plan.calls \subseteq Reqs /\ plan.mayFail \subseteq Reqs
         /\ MaxConns \in Nat /\ Conns \subseteq Nat \ {0}
BY PeersAssumption DEF Conns

LEMMA NextConn ==
  ASSUME TypeOK, Links, conn < plan.conns
  PROVE  conn + 1 \in Conns /\ conn + 1 > conn
<1>1. plan.conns \in 1 .. MaxConns /\ conn \in 1 .. MaxConns /\ MaxConns \in Nat
  BY PlanType, Zenon DEF TypeOK, Conns
<1> QED
  BY <1>1 DEF Conns

\* Queues that something is added to, taken from, or that are emptied.
LEMMA AppendType ==
  ASSUME NEW S, NEW D, NEW f \in [D -> Seq(S)], NEW d \in D, NEW e \in S
  PROVE  [f EXCEPT ![d] = Append(@, e)] \in [D -> Seq(S)]
OBVIOUS

LEMMA TailType ==
  ASSUME NEW S, NEW D, NEW f \in [D -> Seq(S)], NEW d \in D, f[d] # <<>>
  PROVE  [f EXCEPT ![d] = Tail(@)] \in [D -> Seq(S)] /\ Head(f[d]) \in S
OBVIOUS

LEMMA EmptyType ==
  ASSUME NEW S, NEW D, NEW f \in [D -> Seq(S)], NEW d \in D
  PROVE  [f EXCEPT ![d] = <<>>] \in [D -> Seq(S)]
OBVIOUS

LEMMA CountType ==
  ASSUME NEW S, NEW D, NEW f \in [D -> [S -> Nat]], NEW d \in D, NEW k \in S
  PROVE  /\ f[d][k] \in Nat
         /\ [f EXCEPT ![d][k] = @ + 1] \in [D -> [S -> Nat]]
         /\ f[d][k] > 0 => [f EXCEPT ![d][k] = @ - 1] \in [D -> [S -> Nat]]
<1>1. f[d] \in [S -> Nat] /\ f[d][k] \in Nat
  OBVIOUS
<1>2. [f[d] EXCEPT ![k] = @ + 1] \in [S -> Nat]
  BY <1>1
<1>3. f[d][k] > 0 => [f[d] EXCEPT ![k] = @ - 1] \in [S -> Nat]
  BY <1>1
<1> QED
  BY <1>1, <1>2, <1>3, Zenon

LEMMA TransactType ==
  ASSUME TypeOK, NEW r \in Reqs, NEW cb \in {"plain", "filter"}, transact(r, cb)
  PROVE  /\ link' = link
         /\ toServer' \in [Conns -> Seq(Reqs)]
         /\ closed' \subseteq Conns
         /\ replyCB' = [replyCB EXCEPT ![r] = cb]
         /\ replyCB' \in [Reqs -> {"none", "plain", "filter"}]
         /\ nils' \in [Reqs -> [{"plain", "filter"} -> Nat]]
<1>1. /\ toServer \in [Conns -> Seq(Reqs)] /\ closed \subseteq Conns /\ conn \in Conns
      /\ replyCB \in [Reqs -> {"none", "plain", "filter"}]
      /\ nils \in [Reqs -> [{"plain", "filter"} -> Nat]]
  BY Zenon DEF TypeOK
<1>2. /\ [toServer EXCEPT ![conn] = Append(@, r)] \in [Conns -> Seq(Reqs)]
      /\ [nils EXCEPT ![r][cb] = @ + 1] \in [Reqs -> [{"plain", "filter"} -> Nat]]
  BY <1>1, AppendType, CountType, Zenon
<1> QED
  BY <1>1, <1>2, Zenon DEF transact, Spawn

LEMMA ReplyType ==
  ASSUME TypeOK, NEW n \in Conns, NEW r \in Reqs, NEW cmd \in {"ok", "err", "sub", "result", "end"},
         NEW of \in Publishes \cup {"none"}, reply(n, r, cmd, of)
  PROVE  toClient' \in [Conns -> Seq(Frames)] /\ over' \subseteq Conns
<1>1. toClient \in [Conns -> Seq(Frames)] /\ over \subseteq Conns
  BY Zenon DEF TypeOK
<1>2. [req |-> r, cmd |-> cmd, of |-> of] \in Frames
  BY Zenon DEF Frames
<1>3. [toClient EXCEPT ![n] = Append(@, [req |-> r, cmd |-> cmd, of |-> of])] \in [Conns -> Seq(Frames)]
  BY <1>1, <1>2, AppendType
<1> QED
  BY <1>1, <1>3, Zenon DEF reply

LEMMA RemoveType ==
  ASSUME TypeOK, NEW s \in Subscribes
  PROVE  /\ Unsubscribed(s) \in [Conns \X Subscribes -> {"none", "live", "cancelled", "ending", "ended"}]
         /\ Remove(s) => tree' \subseteq Conns \X Subscribes /\ rstree' \subseteq Subscribes
BY Zenon DEF TypeOK, Unsubscribed, Remove

\* What a frame for r that is at the head of the connection does.
OnTop(r, f) ==
  /\ toClient[conn] # <<>> /\ f = Head(toClient[conn]) /\ r = f.req
  /\ toClient' = [toClient EXCEPT ![conn] = Tail(@)]

Ignored(r, f) ==
  /\ replyCB[r] # "plain" /\ (panicked' \/ f.cmd \notin {"result", "end"})
  /\ UNCHANGED <<replyCB, activesubs, answers, log>>

Decided(r, f) ==
  /\ r \in Publishes \cup Unsubscribes /\ replyCB[r] # "none"
  /\ \E a \in {"ok", "err"} : (a = "ok" => f.cmd = "ok") /\ answers' = [answers EXCEPT ![r] = Append(@, a)]
  /\ replyCB' = [replyCB EXCEPT ![r] = "none"]
  /\ UNCHANGED <<activesubs, log>>

Accepted(r, f) ==
  /\ r \in Subscribes \cup Queries /\ replyCB[r] # "none" /\ f.cmd # "end"
  /\ \E a \in {"ok", "err"} : answers' = [answers EXCEPT ![r] = Append(@, a)]
  /\ activesubs' = IF f.cmd = "sub" THEN activesubs \cup {r} ELSE activesubs
  /\ UNCHANGED <<replyCB, log>>

Handed(r, f) ==
  /\ r \in Subscribes \cup Queries /\ replyCB[r] # "none" /\ f.cmd = "result"
  /\ log' = [log EXCEPT ![r] = Append(@, f.of)]
  /\ UNCHANGED <<replyCB, activesubs, answers>>

Closed(r, f) ==
  /\ r \in Subscribes \cup Queries /\ replyCB[r] # "none" /\ f.cmd = "end"
  /\ log' = [log EXCEPT ![r] = Append(@, "end")]
  /\ replyCB' = [replyCB EXCEPT ![r] = "none"]
  /\ activesubs' = activesubs \ {r}
  /\ UNCHANGED answers

Moved(r, f) == Ignored(r, f) \/ Decided(r, f) \/ Accepted(r, f) \/ Handed(r, f) \/ Closed(r, f)

LEMMA FrameMoves ==
  ASSUME TypeOK, RxFrame
  PROVE  \E f \in Frames, r \in Reqs : OnTop(r, f) /\ Moved(r, f)
<1> DEFINE g == Head(toClient[conn])
<1>1. g \in Frames
  BY TailType, Zenon DEF TypeOK, RxFrame
<1>2. g.req \in Reqs
  BY <1>1, Zenon DEF Frames
<1>3. OnTop(g.req, g)
  BY Zenon DEF RxFrame, OnTop
<1>4. OnFrame(g.req, g)
  BY Zenon DEF RxFrame
<1> HIDE DEF g
<1>5. Moved(g.req, g)
  BY <1>4, Zenon DEF OnFrame, OnVerdict, OnEnd, Answer, Hand, removeCB, Panic, Moved, Ignored, Decided, Accepted, Handed, Closed
<1> QED
  BY <1>1, <1>2, <1>3, <1>5, Zenon

LEMMA GotoType ==
  ASSUME TypeOK, NEW n \in Conns, NEW r \in Reqs,
         NEW label \in {"none", "start", "act", "ok", "err", "last", "done"}, Goto(n, r, label)
  PROVE  hpc' \in [Conns \X Reqs -> {"none", "start", "act", "ok", "err", "last", "done"}]
<1>1. hpc \in [Conns \X Reqs -> {"none", "start", "act", "ok", "err", "last", "done"}]
  BY Zenon DEF TypeOK
<1> QED
  BY <1>1, Zenon DEF Goto

LEMMA InitType == Init => TypeOK
<1> SUFFICES ASSUME Init PROVE TypeOK
  OBVIOUS
<1>1. /\ plan \in Plans /\ conn \in Conns /\ closed \subseteq Conns
      /\ link \in [Conns -> {"none", "up", "cut"}]
      /\ replyCB \in [Reqs -> {"none", "plain", "filter"}]
      /\ activesubs \subseteq Subscribes /\ todo \subseteq activesubs
      /\ rx \in {"read", "dial", "regen"} /\ called \subseteq Reqs
      /\ over \subseteq Conns /\ reading \subseteq Conns /\ cleaned \subseteq Conns
      /\ tree \subseteq Conns \X Subscribes /\ rstree \subseteq Subscribes
  BY PeersAssumption DEF Init, Conns
<1>2. /\ toServer \in [Conns -> Seq(Reqs)] /\ toClient \in [Conns -> Seq(Frames)]
      /\ answers \in [Reqs -> Seq({"ok", "err"})]
      /\ log \in [Subscribes \cup Queries -> Seq(Publishes \cup {"none", "end"})]
      /\ queue \in [Conns \X Subscribes -> Seq(Publishes)]
  BY DEF Init
<1>3. /\ nils \in [Reqs -> [{"plain", "filter"} -> Nat]]
      /\ hpc \in [Conns \X Reqs -> {"none", "start", "act", "ok", "err", "last", "done"}]
      /\ entry \in [Conns \X Subscribes -> {"none", "live", "cancelled", "ending", "ended"}]
      /\ published \in [Publishes -> Nat]
  BY Zenon DEF Init
<1>4. panicked \in BOOLEAN
  BY Zenon DEF Init
<1> QED
  BY <1>1, <1>2, <1>3, <1>4, Zenon DEF TypeOK

LEMMA TypeStep == TypeOK /\ Links /\ SubFrames /\ [Next]_vars => TypeOK'
<1> SUFFICES ASSUME TypeOK, Links, SubFrames, [Next]_vars PROVE TypeOK'
  OBVIOUS
<1>1. CASE Break /\ UNCHANGED plan
  BY <1>1, Zenon DEF TypeOK, Break, clientVars, serverVars, routerVars
<1>2. ASSUME NEW r \in Reqs, Call(r), UNCHANGED plan PROVE TypeOK'
  BY <1>2, TransactType, Zenon DEF TypeOK, Call, serverVars, routerVars
<1>3. CASE RxFrame /\ UNCHANGED plan
  <2>1. PICK f \in Frames, r \in Reqs : OnTop(r, f) /\ Moved(r, f)
    BY <1>3, FrameMoves, Zenon
  <2>2. f.of \in Publishes \cup {"none"}
    BY Zenon DEF Frames
  <2>a. f.cmd = "sub" => r \in Subscribes
    BY <2>1 DEF OnTop, SubFrames, TypeOK
  <2>3. /\ replyCB \in [Reqs -> {"none", "plain", "filter"}] /\ answers \in [Reqs -> Seq({"ok", "err"})]
        /\ log \in [Subscribes \cup Queries -> Seq(Publishes \cup {"none", "end"})]
        /\ activesubs \subseteq Subscribes /\ todo = {} /\ todo' = {}
    BY <1>3, Zenon DEF TypeOK, Links, RxFrame
  <2>b. \A a \in {"ok", "err"} : [answers EXCEPT ![r] = Append(@, a)] \in [Reqs -> Seq({"ok", "err"})]
    BY <2>3, AppendType, Zenon
  <2>4. answers' \in [Reqs -> Seq({"ok", "err"})]
    BY <2>1, <2>3, <2>b, ZenonT(30) DEF Moved, Ignored, Decided, Accepted, Handed, Closed
  <2>c. replyCB' \in [Reqs -> {"none", "plain", "filter"}]
    BY <2>1, <2>3, Zenon DEF Moved, Ignored, Decided, Accepted, Handed, Closed
  <2>d. r \in Subscribes \cup Queries =>
          /\ [log EXCEPT ![r] = Append(@, f.of)] \in [Subscribes \cup Queries -> Seq(Publishes \cup {"none", "end"})]
          /\ [log EXCEPT ![r] = Append(@, "end")] \in [Subscribes \cup Queries -> Seq(Publishes \cup {"none", "end"})]
    BY <2>2, <2>3, AppendType, Zenon
  <2>5. log' \in [Subscribes \cup Queries -> Seq(Publishes \cup {"none", "end"})]
    BY <2>1, <2>3, <2>d, Zenon DEF Moved, Ignored, Decided, Accepted, Handed, Closed
  <2>6. activesubs' \subseteq Subscribes /\ todo' \subseteq activesubs'
    BY <2>1, <2>a, <2>3, Zenon DEF Moved, Ignored, Decided, Accepted, Handed, Closed
  <2>7. panicked' \in BOOLEAN
    BY <1>3, Zenon DEF TypeOK, RxFrame, OnFrame, Panic
  <2>8. toClient' \in [Conns -> Seq(Frames)]
    BY <2>1, TailType, Zenon DEF TypeOK, OnTop
  <2> QED
    BY <1>3, <2>4, <2>c, <2>5, <2>6, <2>7, <2>8, Zenon DEF TypeOK, RxFrame, serverVars, routerVars
<1>4. CASE RxError /\ UNCHANGED plan
  BY <1>4 DEF TypeOK, RxError, serverVars, routerVars, Loss, Broadcast
<1>5. CASE RxDial /\ UNCHANGED plan
  <2>1. conn + 1 \in Conns
    BY <1>5, PlanType DEF TypeOK, RxDial, Links, Conns
  <2> QED
    BY <1>5, <2>1, Zenon DEF TypeOK, RxDial, routerVars, ToRegen
<1>6. CASE RxRegen /\ UNCHANGED plan
  BY <1>6, TransactType, Zenon DEF TypeOK, RxRegen, serverVars, routerVars, Reqs
<1>7. ASSUME NEW r \in Reqs, NEW cb \in {"plain", "filter"}, NilCall(r, cb), UNCHANGED plan PROVE TypeOK'
  <2>1. /\ nils' \in [Reqs -> [{"plain", "filter"} -> Nat]] /\ panicked' \in BOOLEAN
    BY <1>7, CountType, Zenon DEF TypeOK, NilCall, Panic
  <2>2. /\ replyCB' \in [Reqs -> {"none", "plain", "filter"}] /\ answers' \in [Reqs -> Seq({"ok", "err"})]
    <3>1. replyCB \in [Reqs -> {"none", "plain", "filter"}] /\ answers \in [Reqs -> Seq({"ok", "err"})]
      BY Zenon DEF TypeOK
    <3>2. [answers EXCEPT ![r] = Append(@, "err")] \in [Reqs -> Seq({"ok", "err"})]
      BY <3>1, AppendType, Zenon
    <3> QED
      BY <1>7, <3>1, <3>2, Zenon DEF NilCall, Answer, removeCB
  <2> QED
    BY <1>7, <2>1, <2>2, Zenon DEF TypeOK, NilCall, netVars, serverVars, routerVars
<1>8. ASSUME NEW n \in Conns, SrvRead(n), UNCHANGED plan PROVE TypeOK'
  BY <1>8, TailType, Zenon DEF TypeOK, SrvRead, clientVars, routerVars
<1>9. ASSUME NEW n \in Conns, SrvError(n), UNCHANGED plan PROVE TypeOK'
  BY <1>9 DEF TypeOK, SrvError, clientVars, routerVars
<1>10. ASSUME NEW n \in Conns, Cleanup(n), UNCHANGED plan PROVE TypeOK'
  BY <1>10, Zenon DEF TypeOK, Cleanup, netVars, clientVars, serverVars
<1>11. ASSUME NEW n \in Conns, NEW r \in Reqs, NEW cmd \in {"ok", "err", "sub", "result", "end"},
             NEW label \in {"act", "last", "done"}, Answering(n, r, cmd, "none", label), UNCHANGED plan
       PROVE  TypeOK'
  <2>1. toClient' \in [Conns -> Seq(Frames)] /\ over' \subseteq Conns
    BY <1>11, ReplyType, Zenon DEF Answering
  <2>2. hpc' \in [Conns \X Reqs -> {"none", "start", "act", "ok", "err", "last", "done"}]
    BY <1>11, GotoType, Zenon DEF Answering
  <2> QED
    BY <1>11, <2>1, <2>2, Zenon DEF TypeOK, Answering, clientVars, routerVars
<1>12. ASSUME NEW n \in Conns, NEW p \in Reqs, HandlePublish(n, p), UNCHANGED plan PROVE TypeOK'
  <2>1. queue' \in [Conns \X Subscribes -> Seq(Publishes)]
    BY <1>12 DEF TypeOK, HandlePublish
  <2>2. entry' \in [Conns \X Subscribes -> {"none", "live", "cancelled", "ending", "ended"}]
    BY <1>12 DEF TypeOK, HandlePublish
  <2>3. published' \in [Publishes -> Nat]
    BY <1>12 DEF TypeOK, HandlePublish
  <2> QED
    BY <1>12, <2>1, <2>2, <2>3, Zenon DEF TypeOK, HandlePublish, Goto, netVars, clientVars
<1>13. ASSUME NEW n \in Conns, NEW s \in Reqs, HandleSubscribe(n, s), UNCHANGED plan PROVE TypeOK'
  <2>1. entry' \in [Conns \X Subscribes -> {"none", "live", "cancelled", "ending", "ended"}]
    BY <1>13, Zenon DEF TypeOK, HandleSubscribe
  <2>2. tree' \subseteq Conns \X Subscribes /\ rstree' \subseteq Subscribes
    BY <1>13 DEF TypeOK, HandleSubscribe
  <2> QED
    BY <1>13, <2>1, <2>2, GotoType, Zenon DEF TypeOK, HandleSubscribe, netVars, clientVars
<1>14. ASSUME NEW n \in Conns, NEW u \in Reqs, HandleUnsubscribe(n, u), UNCHANGED plan PROVE TypeOK'
  BY <1>14, RemoveType, GotoType, PeersAssumption, Zenon DEF TypeOK, HandleUnsubscribe, netVars, clientVars
<1>15. ASSUME NEW n \in Conns, NEW s \in Subscribes, Dispatch(n, s), UNCHANGED plan PROVE TypeOK'
  <2>1. queue' \in [Conns \X Subscribes -> Seq(Publishes)] /\ Head(queue[<<n, s>>]) \in Publishes
    BY <1>15, TailType DEF TypeOK, Dispatch
  <2>2. toClient' \in [Conns -> Seq(Frames)] /\ over' \subseteq Conns
    BY <1>15, <2>1, ReplyType, Zenon DEF Dispatch, Reqs
  <2> QED
    BY <1>15, <2>1, <2>2, Zenon DEF TypeOK, Dispatch, clientVars
<1>16. ASSUME NEW n \in Conns, NEW s \in Subscribes, DispatchDone(n, s), UNCHANGED plan PROVE TypeOK'
  BY <1>16, RemoveType, Zenon DEF TypeOK, DispatchDone, Ending, netVars, clientVars, serverVars
<1>17. ASSUME NEW n \in Conns, NEW s \in Subscribes, DispatchEnd(n, s), UNCHANGED plan PROVE TypeOK'
  BY <1>17, ReplyType, Zenon DEF TypeOK, DispatchEnd, clientVars, Reqs
<1>18. CASE UNCHANGED vars
  BY <1>18, Zenon DEF TypeOK, vars, netVars, clientVars, serverVars, routerVars
<1>19. ASSUME NEW n \in Conns, NEW r \in Reqs, Handle(n, r), UNCHANGED plan PROVE TypeOK'
  BY <1>11, <1>12, <1>13, <1>14, <1>19, Zenon DEF Handle, HandleRefuse, HandleStatus, HandleSubscribed, HandleQuery,
     HandleUnsubscribed
<1> QED
  BY <1>1, <1>2, <1>3, <1>4, <1>5, <1>6, <1>7, <1>8, <1>9, <1>10, <1>15, <1>16, <1>17, <1>18, <1>19, Zenon
     DEF Next, Run, Rx, Entry

-----------------------------------------------------------------------------
(* What the operations do to queues *)

LEMMA HasAppend ==
  ASSUME NEW S, NEW q \in Seq(S), NEW e, NEW F
  PROVE  /\ Has(Append(q, e), F) <=> Has(q, F) \/ e \in F
         /\ Lone(Append(q, e), F) <=> Lone(q, F) /\ ~(Has(q, F) /\ e \in F)
<1>1. DOMAIN q = 1 .. Len(q) /\ Len(q) \in Nat /\ DOMAIN Append(q, e) = 1 .. Len(q) + 1
  OBVIOUS
<1>2. Append(q, e)[Len(q) + 1] = e /\ \A i \in 1 .. Len(q) : Append(q, e)[i] = q[i]
  OBVIOUS
<1>3. Has(Append(q, e), F) <=> Has(q, F) \/ e \in F
  BY <1>1, <1>2 DEF Has
<1> QED
  BY <1>1, <1>2, <1>3, SMTT(30) DEF Has, Lone

LEMMA HasTail ==
  ASSUME NEW S, NEW q \in Seq(S), q # <<>>, NEW F
  PROVE  /\ Has(q, F) <=> Head(q) \in F \/ Has(Tail(q), F)
         /\ Lone(q, F) => Lone(Tail(q), F) /\ ~(Head(q) \in F /\ Has(Tail(q), F))
<1>1. /\ DOMAIN q = 1 .. Len(q) /\ Len(q) \in Nat \ {0} /\ DOMAIN Tail(q) = 1 .. Len(q) - 1
      /\ Head(q) = q[1] /\ \A i \in 1 .. Len(q) - 1 : Tail(q)[i] = q[i + 1]
  OBVIOUS
<1>2. Has(q, F) => Head(q) \in F \/ Has(Tail(q), F)
  <2> SUFFICES ASSUME NEW i \in 1 .. Len(q), q[i] \in F, i # 1 PROVE Has(Tail(q), F)
    BY <1>1, Zenon DEF Has
  <2>1. i - 1 \in 1 .. Len(q) - 1 /\ Tail(q)[i - 1] = q[i]
    BY <1>1
  <2> QED
    BY <1>1, <2>1, Zenon DEF Has
<1>3. Has(Tail(q), F) => Has(q, F)
  BY <1>1 DEF Has
<1>4. Head(q) \in F => Has(q, F)
  BY <1>1 DEF Has
<1>5. Lone(q, F) => Lone(Tail(q), F)
  BY <1>1 DEF Lone
<1>6. Lone(q, F) => ~(Head(q) \in F /\ Has(Tail(q), F))
  BY <1>1 DEF Lone, Has
<1> QED
  BY <1>2, <1>3, <1>4, <1>5, <1>6, Zenon

LEMMA HasEmpty ==
  ASSUME NEW F
  PROVE  ~Has(<<>>, F) /\ Lone(<<>>, F)
BY DEF Has, Lone

LEMMA AppendAt ==
  ASSUME NEW S, NEW D, NEW f \in [D -> Seq(S)], NEW d \in D, NEW e \in S
  PROVE  LET g == [f EXCEPT ![d] = Append(@, e)] IN
           /\ \A x \in D : x # d => g[x] = f[x]
           /\ DOMAIN f[d] = 1 .. Len(f[d]) /\ Len(f[d]) \in Nat
           /\ DOMAIN g[d] = 1 .. Len(f[d]) + 1
           /\ \A i \in DOMAIN g[d] : IF i \in DOMAIN f[d] THEN g[d][i] = f[d][i]
                                     ELSE i = Len(f[d]) + 1 /\ g[d][i] = e
OBVIOUS

LEMMA TailAt ==
  ASSUME NEW S, NEW D, NEW f \in [D -> Seq(S)], NEW d \in D, f[d] # <<>>
  PROVE  LET g == [f EXCEPT ![d] = Tail(@)] IN
           /\ \A x \in D : x # d => g[x] = f[x]
           /\ DOMAIN f[d] = 1 .. Len(f[d]) /\ Len(f[d]) \in Nat \ {0}
           /\ Head(f[d]) = f[d][1] /\ 1 \in DOMAIN f[d]
           /\ DOMAIN g[d] = 1 .. Len(f[d]) - 1
           /\ \A i \in DOMAIN g[d] : i + 1 \in DOMAIN f[d] /\ g[d][i] = f[d][i + 1]
OBVIOUS

\* A frame reaches the client only on the connection it reads from.
LEMMA ReplyAt ==
  ASSUME TypeOK, Links, Later, NEW n \in Conns, NEW r, NEW cmd, NEW of, reply(n, r, cmd, of)
  PROVE  /\ n <= conn
         /\ \/ UNCHANGED toClient
            \/ /\ n = conn /\ link[conn] = "up" /\ rx # "dial"
               /\ toClient' = [toClient EXCEPT ![conn] = Append(@, [req |-> r, cmd |-> cmd, of |-> of])]
         /\ over' \in {over, over \cup {n}}
         /\ link[n] = "up" => over' = over
<1>1. conn \in Nat /\ n \in Nat
  BY PlanType, Zenon DEF TypeOK, Conns
<1> QED
  BY <1>1 DEF reply, Links, Later, Unmade, TypeOK

LEMMA TransactAt ==
  ASSUME TypeOK, Links, NEW r \in Reqs, NEW cb \in {"plain", "filter"}, transact(r, cb)
  PROVE  \/ /\ link[conn] = "up" /\ toServer' = [toServer EXCEPT ![conn] = Append(@, r)]
            /\ closed' = closed /\ nils' = nils
         \/ /\ link[conn] = "cut" /\ toServer' = toServer
            /\ closed' \in {closed, closed \cup {conn}}
            /\ nils' \in {nils, [nils EXCEPT ![r][cb] = @ + 1]}
BY Zenon DEF transact, Spawn, Links, TypeOK

LEMMA GotoAt ==
  ASSUME TypeOK, NEW n \in Conns, NEW r \in Reqs,
         NEW label \in {"none", "start", "act", "ok", "err", "last", "done"}, Goto(n, r, label)
  PROVE  \A m \in Conns, q \in Reqs : hpc'[<<m, q>>] = IF m = n /\ q = r THEN label ELSE hpc[<<m, q>>]
<1>1. hpc \in [Conns \X Reqs -> {"none", "start", "act", "ok", "err", "last", "done"}]
  BY Zenon DEF TypeOK
<1> QED
  BY <1>1, Zenon DEF Goto

LEMMA ReadAt ==
  ASSUME TypeOK, NEW n \in Conns, SrvRead(n)
  PROVE  /\ Head(toServer[n]) \in Reqs
         /\ \A m \in Conns, q \in Reqs :
              hpc'[<<m, q>>] = IF m = n /\ q = Head(toServer[n]) THEN "start" ELSE hpc[<<m, q>>]
<1>1. Head(toServer[n]) \in Reqs
  BY TailType, Zenon DEF TypeOK, SrvRead
<1>2. Goto(n, Head(toServer[n]), "start")
  BY Zenon DEF SrvRead, Goto
<1> QED
  BY <1>1, <1>2, GotoAt

LEMMA PublishGoes ==
  ASSUME TypeOK, NEW n \in Conns, NEW p \in Reqs, HandlePublish(n, p)
  PROVE  \A m \in Conns, q \in Reqs : hpc'[<<m, q>>] = IF m = n /\ q = p THEN "done" ELSE hpc[<<m, q>>]
<1>1. hpc \in [Conns \X Reqs -> {"none", "start", "act", "ok", "err", "last", "done"}]
  BY Zenon DEF TypeOK
<1> QED
  BY <1>1, Zenon DEF HandlePublish, Goto

LEMMA PublishCounts ==
  ASSUME TypeOK, NEW n \in Conns, NEW p \in Reqs, HandlePublish(n, p)
  PROVE  \A q \in Publishes : published'[q] = IF q = p THEN published[p] + 1 ELSE published[q]
BY Zenon DEF HandlePublish, TypeOK

LEMMA PublishAt ==
  ASSUME TypeOK, NEW n \in Conns, NEW p \in Reqs, HandlePublish(n, p)
  PROVE  \A m \in Conns, s \in Subscribes :
           /\ \/ entry'[<<m, s>>] = entry[<<m, s>>]
              \/ entry[<<m, s>>] = "live" /\ entry'[<<m, s>>] = "cancelled"
           /\ \/ queue'[<<m, s>>] = queue[<<m, s>>]
              \/ <<m, s>> \in tree /\ queue'[<<m, s>>] = Append(queue[<<m, s>>], p)
<1>1. DOMAIN entry = Conns \X Subscribes /\ DOMAIN queue = Conns \X Subscribes
  BY Zenon DEF TypeOK
<1>2. PICK full :
        /\ queue' = [x \in DOMAIN queue |-> IF x \in tree \ full THEN Append(queue[x], p) ELSE queue[x]]
        /\ entry' = [x \in DOMAIN entry |-> IF x \in full /\ entry[x] = "live" THEN "cancelled" ELSE entry[x]]
  BY Zenon DEF HandlePublish
<1> QED
  BY <1>1, <1>2, Zenon

\* Entries, their queues and the tree when subscription s is taken out.
LEMMA RemoveAt ==
  ASSUME TypeOK, NEW s \in Subscribes
  PROVE  /\ \A m \in Conns, t \in Subscribes :
              Unsubscribed(s)[<<m, t>>] =
                IF s \in rstree /\ <<m, t>> \in tree /\ t = s /\ entry[<<m, t>>] = "live"
                THEN "cancelled" ELSE entry[<<m, t>>]
         /\ Remove(s) => \A m \in Conns, t \in Subscribes :
              <<m, t>> \in tree' <=> <<m, t>> \in tree /\ ~(s \in rstree /\ t = s)
<1>1. DOMAIN entry = Conns \X Subscribes
  BY Zenon DEF TypeOK
<1> QED
  BY <1>1, Zenon DEF Unsubscribed, Remove

LEMMA SubscribeAt ==
  ASSUME TypeOK, NEW n \in Conns, NEW s \in Reqs, HandleSubscribe(n, s)
  PROVE  /\ \A m \in Conns, q \in Reqs : hpc'[<<m, q>>] = IF m = n /\ q = s THEN "act" ELSE hpc[<<m, q>>]
         /\ \A m \in Conns, t \in Subscribes :
              /\ entry'[<<m, t>>] = IF m = n /\ t = s THEN "live" ELSE entry[<<m, t>>]
              /\ <<m, t>> \in tree' <=> <<m, t>> \in tree \/ (m = n /\ t = s)
<1>0. Goto(n, s, "act")
  BY Zenon DEF HandleSubscribe
<1>1. \A m \in Conns, q \in Reqs : hpc'[<<m, q>>] = IF m = n /\ q = s THEN "act" ELSE hpc[<<m, q>>]
  <2>1. hpc \in [Conns \X Reqs -> {"none", "start", "act", "ok", "err", "last", "done"}]
    BY Zenon DEF TypeOK
  <2> QED
    BY <1>0, <2>1, Zenon DEF Goto
<1>2. entry \in [Conns \X Subscribes -> {"none", "live", "cancelled", "ending", "ended"}]
  BY Zenon DEF TypeOK
<1> QED
  BY <1>1, <1>2, Zenon DEF HandleSubscribe

LEMMA UnsubscribeGoes ==
  ASSUME TypeOK, NEW n \in Conns, NEW u \in Reqs, HandleUnsubscribe(n, u)
  PROVE  /\ u \in Unsubscribes /\ hpc'[<<n, u>>] \in {"ok", "err"}
         /\ \A m \in Conns, q \in Reqs : ~(m = n /\ q = u) => hpc'[<<m, q>>] = hpc[<<m, q>>]
<1>1. hpc \in [Conns \X Reqs -> {"none", "start", "act", "ok", "err", "last", "done"}]
  BY Zenon DEF TypeOK
<1> QED
  BY <1>1, Zenon DEF HandleUnsubscribe, Goto

LEMMA UnsubscribeAt ==
  ASSUME TypeOK, NEW n \in Conns, NEW u \in Reqs, HandleUnsubscribe(n, u)
  PROVE  \A m \in Conns, t \in Subscribes :
           /\ entry'[<<m, t>>] = IF t = subOf[u] /\ t \in rstree /\ <<m, t>> \in tree /\ entry[<<m, t>>] = "live"
                                THEN "cancelled" ELSE entry[<<m, t>>]
           /\ <<m, t>> \in tree' <=> <<m, t>> \in tree /\ ~(t \in rstree /\ t = subOf[u])
<1>1. subOf[u] \in Subscribes /\ entry' = Unsubscribed(subOf[u]) /\ Remove(subOf[u])
  BY PeersAssumption, Zenon DEF HandleUnsubscribe
<1>2. PICK s \in Subscribes : s = subOf[u] /\ entry' = Unsubscribed(s) /\ Remove(s)
  BY <1>1, Zenon
<1>3. \A m \in Conns, t \in Subscribes :
        entry'[<<m, t>>] = IF s \in rstree /\ <<m, t>> \in tree /\ t = s /\ entry[<<m, t>>] = "live"
                           THEN "cancelled" ELSE entry[<<m, t>>]
  BY <1>2, RemoveAt, ZenonT(30)
<1>4. \A m \in Conns, t \in Subscribes : <<m, t>> \in tree' <=> <<m, t>> \in tree /\ ~(s \in rstree /\ t = s)
  BY <1>2, RemoveAt, Zenon
<1> QED
  BY <1>2, <1>3, <1>4, ZenonT(30)

LEMMA DoneAt ==
  ASSUME TypeOK, NEW n \in Conns, NEW s \in Subscribes, DispatchDone(n, s)
  PROVE  \A m \in Conns, t \in Subscribes :
           entry'[<<m, t>>] = IF m = n /\ t = s THEN "ending" ELSE Unsubscribed(s)[<<m, t>>]
<1>1. Unsubscribed(s) \in [Conns \X Subscribes -> {"none", "live", "cancelled", "ending", "ended"}]
  BY RemoveType, Zenon
<1> QED
  BY <1>1, Zenon DEF DispatchDone, Ending

LEMMA EndAt ==
  ASSUME TypeOK, NEW n \in Conns, NEW s \in Subscribes, DispatchEnd(n, s)
  PROVE  \A m \in Conns, t \in Subscribes :
           entry'[<<m, t>>] = IF m = n /\ t = s THEN "ended" ELSE entry[<<m, t>>]
<1>1. entry \in [Conns \X Subscribes -> {"none", "live", "cancelled", "ending", "ended"}]
  BY Zenon DEF TypeOK
<1> QED
  BY <1>1, Zenon DEF DispatchEnd

\* The server does not touch the client, and only RxDial changes the connection.
LEMMA ServerKeeps ==
  /\ \A n \in Conns : SrvRead(n) \/ SrvError(n) \/ Cleanup(n) => UNCHANGED <<link, clientVars>>
  /\ \A n \in Conns, r \in Reqs : Handle(n, r) => UNCHANGED <<link, clientVars, reading>>
  /\ \A n \in Conns, s \in Subscribes : Entry(n, s) => UNCHANGED <<link, clientVars, toServer, reading, hpc>>
<1>1. \A n \in Conns : SrvRead(n) \/ SrvError(n) \/ Cleanup(n) => UNCHANGED <<link, clientVars>>
  BY Zenon DEF SrvRead, SrvError, Cleanup, netVars
<1>2. \A n \in Conns, r \in Reqs : Handle(n, r) => UNCHANGED <<link, clientVars, reading>>
  BY DEF Handle, HandleRefuse, HandleStatus, HandlePublish, HandleSubscribe, HandleSubscribed,
     HandleQuery, HandleUnsubscribe, HandleUnsubscribed, Answering, netVars
<1>3. \A n \in Conns, s \in Subscribes : Entry(n, s) => UNCHANGED <<link, clientVars, toServer, reading, hpc>>
  BY Zenon DEF Entry, Dispatch, DispatchDone, DispatchEnd, netVars, serverVars
<1> QED
  BY <1>1, <1>2, <1>3, Zenon

LEMMA ClientSteps == [Next]_vars => RxDial \/ UNCHANGED conn
<1>1. Break \/ RxFrame \/ RxError \/ RxRegen \/ UNCHANGED vars => UNCHANGED conn
  BY Zenon DEF Break, RxFrame, RxError, RxRegen, vars, clientVars
<1>2. \A r \in Reqs : Call(r) \/ (\E cb \in {"plain", "filter"} : NilCall(r, cb)) => UNCHANGED conn
  BY Zenon DEF Call, NilCall
<1> QED
  BY <1>1, <1>2, ServerKeeps, Zenon DEF Next, Run, Rx, clientVars

\* A handler that answers.
Reports(n, r) ==
  \/ HandleRefuse(n, r) \/ HandleStatus(n, r) \/ HandleSubscribed(n, r) \/ HandleQuery(n, r)
  \/ HandleUnsubscribed(n, r)

Reporting(n, r, cmd, label) ==
  /\ hpc[<<n, r>>] # "none" /\ hpc[<<n, r>>] # "done"
  /\ cmd = "sub" => r \in Subscribes
  /\ r \in Publishes => hpc[<<n, r>>] = "start" /\ (cmd = "ok" => label = "act")
  /\ r \in Subscribes => cmd # "end" /\ (cmd = "sub" => hpc[<<n, r>>] = "act")
  /\ r \in Subscribes /\ hpc[<<n, r>>] = "start" => r \in plan.mayFail

LEMMA ReportingIs ==
  ASSUME TypeOK, Labels, NEW n \in Conns, NEW r \in Reqs, Reports(n, r)
  PROVE  \E cmd \in {"ok", "err", "sub", "result", "end"}, label \in {"act", "last", "done"} :
           Reporting(n, r, cmd, label) /\ Answering(n, r, cmd, "none", label)
<1> DEFINE Some == \E cmd \in {"ok", "err", "sub", "result", "end"}, label \in {"act", "last", "done"} :
                     Reporting(n, r, cmd, label) /\ Answering(n, r, cmd, "none", label)
<1>1. ASSUME HandleRefuse(n, r) PROVE Some
  BY <1>1, Zenon DEF HandleRefuse, Reporting
<1>2. ASSUME HandleStatus(n, r) PROVE Some
  BY <1>2, PeersAssumption, Zenon DEF HandleStatus, Reporting
<1>3. ASSUME HandleSubscribed(n, r) PROVE Some
  BY <1>3, PeersAssumption, Zenon DEF HandleSubscribed, Reporting
<1>4. ASSUME HandleQuery(n, r) PROVE Some
  BY <1>4, PeersAssumption, Zenon DEF HandleQuery, Reporting
<1>5. ASSUME HandleUnsubscribed(n, r) PROVE Some
  BY <1>5, PeersAssumption, Zenon DEF HandleUnsubscribed, Reporting, Labels
<1> QED
  BY <1>1, <1>2, <1>3, <1>4, <1>5, Zenon DEF Reports

LEMMA AnsweringAt ==
  ASSUME TypeOK, Labels, NEW n \in Conns, NEW r \in Reqs, Reports(n, r)
  PROVE  \E cmd \in {"ok", "err", "sub", "result", "end"}, label \in {"act", "last", "done"} :
           Reporting(n, r, cmd, label) /\ reply(n, r, cmd, "none") /\ hpc'[<<n, r>>] = label
<1>1. hpc \in [Conns \X Reqs -> {"none", "start", "act", "ok", "err", "last", "done"}]
  BY Zenon DEF TypeOK
<1>2. PICK cmd \in {"ok", "err", "sub", "result", "end"}, label \in {"act", "last", "done"} :
        Reporting(n, r, cmd, label) /\ Answering(n, r, cmd, "none", label)
  BY ReportingIs, Zenon
<1>3. hpc'[<<n, r>>] = label /\ reply(n, r, cmd, "none")
  BY <1>1, <1>2, Zenon DEF Answering, Goto
<1> QED
  BY <1>2, <1>3, Zenon

LEMMA AnsweringKeeps ==
  ASSUME TypeOK, Labels, NEW n \in Conns, NEW r \in Reqs, Reports(n, r)
  PROVE  /\ \A m \in Conns, q \in Reqs : ~(m = n /\ q = r) => hpc'[<<m, q>>] = hpc[<<m, q>>]
         /\ UNCHANGED <<toServer, routerVars>>
<1>1. hpc \in [Conns \X Reqs -> {"none", "start", "act", "ok", "err", "last", "done"}]
  BY Zenon DEF TypeOK
<1>2. PICK cmd, label : Answering(n, r, cmd, "none", label)
  BY ReportingIs, Zenon
<1> QED
  BY <1>1, <1>2, Zenon DEF Answering, Goto

\* A handler moves its own label only.
LEMMA HandleGoes ==
  ASSUME TypeOK, Labels, NEW n \in Conns, NEW r \in Reqs, Handle(n, r)
  PROVE  /\ hpc[<<n, r>>] \notin {"none", "done"} /\ hpc'[<<n, r>>] \notin {"none", "start"}
         /\ \A m \in Conns, q \in Reqs : ~(m = n /\ q = r) => hpc'[<<m, q>>] = hpc[<<m, q>>]
         /\ UNCHANGED toServer
<1>1. CASE Reports(n, r)
  BY <1>1, AnsweringAt, AnsweringKeeps, ZenonT(30) DEF Reporting
<1>2. CASE HandlePublish(n, r)
  <2>1. \A m \in Conns, q \in Reqs : hpc'[<<m, q>>] = IF m = n /\ q = r THEN "done" ELSE hpc[<<m, q>>]
    BY <1>2, PublishGoes, ZenonT(30)
  <2> QED
    BY <1>2, <2>1, Zenon DEF HandlePublish, netVars
<1>3. CASE HandleSubscribe(n, r)
  <2>1. \A m \in Conns, q \in Reqs : hpc'[<<m, q>>] = IF m = n /\ q = r THEN "act" ELSE hpc[<<m, q>>]
    BY <1>3, SubscribeAt, ZenonT(30)
  <2> QED
    BY <1>3, <2>1, Zenon DEF HandleSubscribe, netVars
<1>4. CASE HandleUnsubscribe(n, r)
  BY <1>4, UnsubscribeGoes, Zenon DEF HandleUnsubscribe, netVars
<1> QED
  BY <1>1, <1>2, <1>3, <1>4, Zenon DEF Handle, Reports

-----------------------------------------------------------------------------
(* Connections *)

LEMMA LinksStep == TypeOK /\ Links /\ Later /\ [Next]_vars => Links'
<1> SUFFICES ASSUME TypeOK, Links, Later, [Next]_vars PROVE Links'
  OBVIOUS
<1>0. conn \in Nat /\ plan.conns \in Nat /\ \A n \in Conns : n \in Nat
  BY PlanType, Zenon DEF TypeOK, Conns
<1>1. CASE Break /\ UNCHANGED plan
  BY <1>0, <1>1, Zenon DEF TypeOK, Links, Break, clientVars, serverVars, routerVars
<1>2. ASSUME NEW r \in Reqs, Call(r), UNCHANGED plan PROVE Links'
  <2>1. transact(r, "plain")
    BY <1>2, Zenon DEF Call
  <2> QED
    BY <1>2, <2>1, Zenon DEF TypeOK, Links, Call, transact
<1>3. CASE RxFrame /\ UNCHANGED plan
  BY <1>0, <1>3, Zenon DEF TypeOK, Links, RxFrame
<1>4. CASE RxError /\ UNCHANGED plan
  BY <1>0, <1>4, ZenonT(30) DEF TypeOK, Links, RxError
<1>5. CASE RxDial /\ UNCHANGED plan
  <2>1. conn + 1 \in Conns
    BY <1>0, <1>5, PlanType, SMTT(30) DEF TypeOK, Links, RxDial, Conns
  <2> QED
    BY <1>0, <1>5, <2>1 DEF TypeOK, Links, Later, Unmade, RxDial
<1>6. CASE RxRegen /\ UNCHANGED plan
  BY <1>6, Zenon DEF TypeOK, Links, RxRegen, transact
<1>7. ASSUME NEW r \in Reqs, NEW cb \in {"plain", "filter"}, NilCall(r, cb), UNCHANGED plan PROVE Links'
  BY <1>7, Zenon DEF Links, NilCall, netVars
<1>8. ASSUME NEW n \in Conns, NEW r, NEW cmd, NEW of, reply(n, r, cmd, of), UNCHANGED <<plan, link, clientVars>>
      PROVE  Links'
  BY <1>0, <1>8, ReplyAt, ZenonT(30) DEF TypeOK, Links, clientVars
<1>9. CASE UNCHANGED <<plan, link, toClient, clientVars>>
  BY <1>9, Zenon DEF Links, clientVars
<1>10. ASSUME NEW n \in Conns, SrvRead(n) \/ SrvError(n) \/ Cleanup(n), UNCHANGED plan PROVE Links'
  BY <1>9, <1>10, Zenon DEF SrvRead, SrvError, Cleanup, netVars
<1>11. ASSUME NEW n \in Conns, NEW r \in Reqs, Handle(n, r), UNCHANGED plan PROVE Links'
  BY <1>8, <1>9, <1>11, Zenon DEF Handle, HandleRefuse, HandleStatus, HandlePublish, HandleSubscribe, HandleSubscribed,
     HandleQuery, HandleUnsubscribe, HandleUnsubscribed, Answering, netVars
<1>12. ASSUME NEW n \in Conns, NEW s \in Subscribes, Entry(n, s), UNCHANGED plan PROVE Links'
  BY <1>8, <1>9, <1>12, Zenon DEF Entry, Dispatch, DispatchDone, DispatchEnd, netVars
<1>13. CASE UNCHANGED vars
  BY <1>9, <1>13, Zenon DEF vars, netVars
<1> QED
  BY <1>1, <1>2, <1>3, <1>4, <1>5, <1>6, <1>7, <1>10, <1>11, <1>12, <1>13, Zenon DEF Next, Run, Rx

LEMMA LaterStep == TypeOK /\ Labels /\ Later /\ [Next]_vars => Later'
<1> SUFFICES ASSUME TypeOK, Labels, Later, [Next]_vars, NEW m \in Conns, m > conn' PROVE Unmade(m)'
  BY Zenon DEF Later
<1>0. conn \in Nat /\ m \in Nat /\ \A n \in Conns : n \in Nat
  BY PlanType, Zenon DEF TypeOK, Conns
<1>1. conn' \in {conn, conn + 1}
  BY ClientSteps, Zenon DEF RxDial
<1>2. m > conn /\ Unmade(m)
  BY <1>0, <1>1 DEF Later
<1>3. CASE Break \/ RxFrame \/ RxError
  BY <1>0, <1>2, <1>3, SMTT(30) DEF TypeOK, Unmade, Break, RxFrame, RxError, clientVars, serverVars, routerVars
<1>4. ASSUME NEW r \in Reqs, NEW cb \in {"plain", "filter"}, transact(r, cb),
             UNCHANGED <<toClient, serverVars, routerVars>>
      PROVE  Unmade(m)'
  BY <1>0, <1>2, <1>4, Zenon DEF TypeOK, Unmade, transact, serverVars, routerVars
<1>5. CASE UNCHANGED <<netVars, serverVars, routerVars>>
  BY <1>2, <1>5, Zenon DEF Unmade, netVars, serverVars, routerVars
<1>6. CASE RxDial
  BY <1>0, <1>2, <1>6, SMTT(30) DEF TypeOK, Unmade, RxDial, routerVars
<1>7. ASSUME NEW r \in Reqs, Call(r) PROVE Unmade(m)'
  BY <1>4, <1>7, Zenon DEF Call
<1>8. CASE RxRegen
  BY <1>4, <1>5, <1>8, Zenon DEF RxRegen, Reqs, TypeOK, netVars
<1>9. ASSUME NEW r \in Reqs, NEW cb \in {"plain", "filter"}, NilCall(r, cb) PROVE Unmade(m)'
  BY <1>5, <1>9, Zenon DEF NilCall
<1>10. ASSUME NEW n \in Conns, SrvRead(n) PROVE Unmade(m)'
  <2>1. n # m
    BY <1>2, <1>10, Zenon DEF Unmade, SrvRead
  <2>2. \A q \in Reqs : hpc'[<<m, q>>] = hpc[<<m, q>>]
    BY <1>10, <2>1, ReadAt, Zenon
  <2>3. toServer'[m] = toServer[m]
    BY <1>10, <2>1, Zenon DEF TypeOK, SrvRead
  <2> QED
    BY <1>2, <1>10, <2>2, <2>3, Zenon DEF Unmade, SrvRead, routerVars
<1>11. ASSUME NEW n \in Conns, SrvError(n) PROVE Unmade(m)'
  BY <1>2, <1>11, Zenon DEF TypeOK, Unmade, SrvError, routerVars
<1>12. ASSUME NEW n \in Conns, Cleanup(n) PROVE Unmade(m)'
  BY <1>2, <1>12, Zenon DEF Unmade, Cleanup, netVars, serverVars
<1>13. ASSUME NEW n \in Conns, NEW r \in Reqs, Handle(n, r) PROVE Unmade(m)'
  <2>0. /\ n # m
        /\ UNCHANGED <<link, reading>>
    BY <1>2, <1>13, ServerKeeps, Zenon DEF Unmade, Handle, HandleRefuse, HandleStatus, HandlePublish, HandleSubscribe,
       HandleSubscribed, HandleQuery, HandleUnsubscribe, HandleUnsubscribed
  <2>1. CASE Reports(n, r)
    <3>1. PICK cmd : reply(n, r, cmd, "none")
      BY <2>1, AnsweringAt, Zenon
    <3>2. /\ \A q \in Reqs : hpc'[<<m, q>>] = hpc[<<m, q>>]
          /\ UNCHANGED <<toServer, routerVars>>
      BY <2>0, <2>1, AnsweringKeeps, Zenon
    <3> QED
      BY <1>2, <2>0, <3>1, <3>2, Zenon DEF Unmade, TypeOK, reply, routerVars
  <2>2. CASE HandlePublish(n, r)
    <3>1. \A q \in Reqs : hpc'[<<m, q>>] = hpc[<<m, q>>]
      BY <2>0, <2>2, PublishGoes
    <3>3. \A k \in Conns, s \in Subscribes :
            /\ \/ entry'[<<k, s>>] = entry[<<k, s>>]
               \/ entry[<<k, s>>] = "live" /\ entry'[<<k, s>>] = "cancelled"
            /\ \/ queue'[<<k, s>>] = queue[<<k, s>>]
               \/ <<k, s>> \in tree /\ queue'[<<k, s>>] = Append(queue[<<k, s>>], r)
      BY <2>2, PublishAt, Zenon
    <3>2. \A s \in Subscribes : entry'[<<m, s>>] = "none" /\ queue'[<<m, s>>] = <<>>
      BY <1>2, <3>3, ZenonT(30) DEF Unmade
    <3> QED
      BY <1>2, <2>0, <2>2, <3>1, <3>2, Zenon DEF Unmade, HandlePublish, netVars
  <2>3. CASE HandleSubscribe(n, r)
    <3>0. /\ \A k \in Conns, q \in Reqs : hpc'[<<k, q>>] = IF k = n /\ q = r THEN "act" ELSE hpc[<<k, q>>]
          /\ \A k \in Conns, t \in Subscribes :
               /\ entry'[<<k, t>>] = IF k = n /\ t = r THEN "live" ELSE entry[<<k, t>>]
               /\ <<k, t>> \in tree' <=> <<k, t>> \in tree \/ (k = n /\ t = r)
      BY <2>3, SubscribeAt, ZenonT(30)
    <3>1. \A q \in Reqs : hpc'[<<m, q>>] = hpc[<<m, q>>]
      BY <2>0, <3>0, Zenon
    <3>2. \A s \in Subscribes : entry'[<<m, s>>] = "none" /\ <<m, s>> \notin tree'
      BY <1>2, <2>0, <3>0, Zenon DEF Unmade
    <3> QED
      BY <1>2, <2>0, <2>3, <3>1, <3>2, Zenon DEF Unmade, HandleSubscribe, netVars
  <2>4. CASE HandleUnsubscribe(n, r)
    <3>1. \A q \in Reqs : hpc'[<<m, q>>] = hpc[<<m, q>>]
      <4>1. \A k \in Conns, q \in Reqs : ~(k = n /\ q = r) => hpc'[<<k, q>>] = hpc[<<k, q>>]
        BY <2>4, UnsubscribeGoes, Zenon
      <4> QED
        BY <2>0, <4>1, Zenon
    <3>2. \A s \in Subscribes : entry'[<<m, s>>] = "none" /\ <<m, s>> \notin tree'
      BY <1>2, <2>4, UnsubscribeAt, Zenon DEF Unmade
    <3> QED
      BY <1>2, <2>0, <2>4, <3>1, <3>2, Zenon DEF Unmade, HandleUnsubscribe, netVars
  <2> QED
    BY <1>13, <2>1, <2>2, <2>3, <2>4, Zenon DEF Handle, Reports
<1>14. ASSUME NEW n \in Conns, NEW s \in Subscribes, Entry(n, s) PROVE Unmade(m)'
  <2>0. /\ n # m
        /\ UNCHANGED <<link, toServer, reading, hpc>>
    BY <1>2, <1>14, ServerKeeps, Zenon DEF Unmade, Entry, Dispatch, DispatchDone, DispatchEnd
  <2>1. CASE Dispatch(n, s)
    <3>1. \A t \in Subscribes : queue'[<<m, t>>] = queue[<<m, t>>]
      BY <2>0, <2>1, Zenon DEF Dispatch, TypeOK
    <3>2. toClient'[m] = toClient[m]
      BY <2>0, <2>1, Zenon DEF Dispatch, reply, TypeOK
    <3> QED
      BY <1>2, <2>0, <2>1, <3>1, <3>2, Zenon DEF Unmade, Dispatch, reply
  <2>2. CASE DispatchDone(n, s)
    <3>1. \A t \in Subscribes : entry'[<<m, t>>] = "none" /\ <<m, t>> \notin tree'
      <4>0. \A k \in Conns, t \in Subscribes :
              entry'[<<k, t>>] = IF k = n /\ t = s THEN "ending" ELSE Unsubscribed(s)[<<k, t>>]
        BY <2>2, DoneAt, ZenonT(30)
      <4>1. \A t \in Subscribes : entry'[<<m, t>>] = Unsubscribed(s)[<<m, t>>]
        BY <2>0, <4>0, Zenon
      <4>2. Remove(s)
        BY <2>2, Zenon DEF DispatchDone
      <4>3. \A k \in Conns, t \in Subscribes :
              Unsubscribed(s)[<<k, t>>] =
                IF s \in rstree /\ <<k, t>> \in tree /\ t = s /\ entry[<<k, t>>] = "live"
                THEN "cancelled" ELSE entry[<<k, t>>]
        BY RemoveAt, Zenon
      <4>4. \A k \in Conns, t \in Subscribes :
              <<k, t>> \in tree' <=> <<k, t>> \in tree /\ ~(s \in rstree /\ t = s)
        BY <4>2, RemoveAt, Zenon
      <4> QED
        BY <1>2, <4>1, <4>3, <4>4, Zenon DEF Unmade
    <3> QED
      BY <1>2, <2>0, <2>2, <3>1, Zenon DEF Unmade, DispatchDone, netVars, serverVars
  <2>3. CASE DispatchEnd(n, s)
    <3>0. \A k \in Conns, t \in Subscribes :
            entry'[<<k, t>>] = IF k = n /\ t = s THEN "ended" ELSE entry[<<k, t>>]
      BY <2>3, EndAt, ZenonT(30)
    <3>1. \A t \in Subscribes : entry'[<<m, t>>] = "none"
      BY <1>2, <2>0, <3>0, Zenon DEF Unmade
    <3> QED
      BY <1>2, <2>0, <2>3, <3>1, SMTT(30) DEF Unmade, DispatchEnd, reply, TypeOK
  <2> QED
    BY <1>14, <2>1, <2>2, <2>3, Zenon DEF Entry
<1>15. CASE UNCHANGED vars
  BY <1>5, <1>15, Zenon DEF vars
<1> QED
  BY <1>3, <1>6, <1>7, <1>8, <1>9, <1>10, <1>11, <1>12, <1>13, <1>14, <1>15, Zenon DEF Next, Run, Rx

-----------------------------------------------------------------------------
(* Frames and labels *)

LEMMA QuietSteps ==
  /\ Break \/ RxDial \/ RxRegen \/ UNCHANGED vars => UNCHANGED toClient
  /\ \A r \in Reqs : Call(r) \/ (\E cb \in {"plain", "filter"} : NilCall(r, cb)) => UNCHANGED toClient
  /\ \A n \in Conns : SrvRead(n) \/ SrvError(n) \/ Cleanup(n) => UNCHANGED toClient
  /\ \A n \in Conns, r \in Reqs :
       HandlePublish(n, r) \/ HandleSubscribe(n, r) \/ HandleUnsubscribe(n, r) => UNCHANGED toClient
  /\ \A n \in Conns, s \in Subscribes : DispatchDone(n, s) => UNCHANGED toClient
BY ZenonT(30) DEF Break, RxDial, RxRegen, vars, Call, NilCall, SrvRead, SrvError, Cleanup, HandlePublish, HandleSubscribe,
   HandleUnsubscribe, DispatchDone, netVars

LEMMA SubFramesStep ==
  TypeOK /\ Links /\ Later /\ Labels /\ SubFrames /\ [Next]_vars => SubFrames'
<1> SUFFICES ASSUME TypeOK, Links, Later, Labels, SubFrames, [Next]_vars PROVE SubFrames'
  OBVIOUS
<1>0. toClient \in [Conns -> Seq(Frames)] /\ conn \in Conns
  BY Zenon DEF TypeOK
<1>1. CASE UNCHANGED toClient
  BY <1>1, Zenon DEF SubFrames
<1>2. CASE RxFrame
  <2>1. toClient[conn] # <<>> /\ toClient' = [toClient EXCEPT ![conn] = Tail(@)]
    BY <1>2, Zenon DEF RxFrame
  <2> QED
    BY <1>0, <2>1, TailAt, SMTT(30) DEF SubFrames
<1>3. CASE RxError
  BY <1>0, <1>3 DEF SubFrames, RxError
<1>4. ASSUME NEW n \in Conns, NEW r \in Reqs, NEW cmd \in {"ok", "err", "sub", "result", "end"},
             NEW of \in Publishes \cup {"none"}, reply(n, r, cmd, of), cmd = "sub" => r \in Subscribes
      PROVE  SubFrames'
  <2> DEFINE f == [req |-> r, cmd |-> cmd, of |-> of]
  <2>1. f \in Frames /\ (f.cmd = "sub" => f.req \in Subscribes)
    BY <1>4, Zenon DEF Frames
  <2> HIDE DEF f
  <2>2. UNCHANGED toClient \/ toClient' = [toClient EXCEPT ![conn] = Append(@, f)]
    BY <1>4, ReplyAt DEF f
  <2>3. CASE toClient' = [toClient EXCEPT ![conn] = Append(@, f)]
    BY <1>0, <2>1, <2>3, AppendAt DEF SubFrames
  <2> QED
    BY <1>1, <2>2, <2>3, Zenon
<1>5. ASSUME NEW n \in Conns, NEW r \in Reqs, Handle(n, r) PROVE SubFrames'
  <2>1. CASE Reports(n, r)
    <3>1. PICK cmd \in {"ok", "err", "sub", "result", "end"}, label \in {"act", "last", "done"} :
            Reporting(n, r, cmd, label) /\ reply(n, r, cmd, "none")
      BY <2>1, AnsweringAt, ZenonT(30)
    <3> QED
      BY <1>4, <3>1, Zenon DEF Reporting
  <2> QED
    BY <1>1, <1>5, <2>1, QuietSteps, Zenon DEF Handle, Reports
<1>6. ASSUME NEW n \in Conns, NEW s \in Subscribes, Entry(n, s) PROVE SubFrames'
  <2>1. CASE Dispatch(n, s)
    <3>1. Head(queue[<<n, s>>]) \in Publishes
      BY <2>1, TailType DEF TypeOK, Dispatch
    <3> QED
      BY <1>4, <2>1, <3>1, Zenon DEF Dispatch, Reqs
  <2> QED
    BY <1>1, <1>4, <1>6, <2>1, QuietSteps, Zenon DEF Entry, DispatchEnd, Reqs
<1> QED
  BY <1>1, <1>2, <1>3, <1>5, <1>6, QuietSteps, Zenon DEF Next, Run, Rx

LEMMA LabelsStep == TypeOK /\ Labels /\ [Next]_vars => Labels'
<1> SUFFICES ASSUME TypeOK, Labels, [Next]_vars PROVE Labels'
  OBVIOUS
<1>1. CASE UNCHANGED hpc
  BY <1>1, Zenon DEF Labels
<1>2. ASSUME NEW n \in Conns, SrvRead(n) PROVE Labels'
  BY <1>2, ReadAt, Zenon DEF Labels
<1>3. ASSUME NEW n \in Conns, NEW r \in Reqs, Handle(n, r) PROVE Labels'
  <2>1. CASE Reports(n, r)
    <3>1. /\ hpc'[<<n, r>>] \in {"act", "last", "done"}
          /\ \A m \in Conns, q \in Reqs : ~(m = n /\ q = r) => hpc'[<<m, q>>] = hpc[<<m, q>>]
      BY <2>1, AnsweringAt, AnsweringKeeps, ZenonT(30)
    <3> QED
      BY <3>1, Zenon DEF Labels
  <2>2. CASE HandlePublish(n, r)
    BY <2>2, PublishGoes, Zenon DEF Labels
  <2>3. CASE HandleSubscribe(n, r)
    BY <2>3, SubscribeAt, SMTT(30) DEF Labels
  <2>4. CASE HandleUnsubscribe(n, r)
    BY <2>4, UnsubscribeGoes, Zenon DEF Labels
  <2> QED
    BY <1>3, <2>1, <2>2, <2>3, <2>4, Zenon DEF Handle, Reports
<1>4. CASE Break \/ Rx \/ UNCHANGED vars
  BY <1>1, <1>4, Zenon DEF Break, Rx, RxFrame, RxError, RxDial, RxRegen, vars, serverVars
<1>5. ASSUME NEW r \in Reqs, Call(r) \/ \E cb \in {"plain", "filter"} : NilCall(r, cb) PROVE Labels'
  BY <1>1, <1>5, Zenon DEF Call, NilCall, serverVars
<1>6. ASSUME NEW n \in Conns, SrvError(n) \/ Cleanup(n) PROVE Labels'
  BY <1>1, <1>6, Zenon DEF SrvError, Cleanup, serverVars
<1> QED
  BY <1>1, <1>2, <1>3, <1>4, <1>5, <1>6, ServerKeeps, Zenon DEF Next, Run

-----------------------------------------------------------------------------
(* Requests that were not made *)

LEMMA UncalledStep == TypeOK /\ Labels /\ Uncalled /\ [Next]_vars => Uncalled'
<1> SUFFICES ASSUME TypeOK, Labels, Uncalled, [Next]_vars, NEW r \in Reqs, r \notin called' PROVE Fresh(r)'
  BY Zenon DEF Uncalled
<1>1. r \notin called
  <2>1. ASSUME NEW q \in Reqs, Call(q) PROVE called \subseteq called'
    BY <2>1, Zenon DEF Call
  <2>2. ASSUME NEW q \in Reqs, NEW cb, NilCall(q, cb) PROVE called \subseteq called'
    BY <2>2, Zenon DEF NilCall
  <2>3. CASE Break \/ Rx \/ UNCHANGED vars
    BY <2>3, Zenon DEF Break, Rx, RxFrame, RxError, RxDial, RxRegen, vars, clientVars
  <2> QED
    BY <2>1, <2>2, <2>3, ServerKeeps, Zenon DEF Next, Run, clientVars
<1>2. Fresh(r)
  BY <1>1, Zenon DEF Uncalled
<1>3. CASE UNCHANGED <<clientVars, toServer, hpc>>
  BY <1>2, <1>3, Zenon DEF Fresh, clientVars
<1>4. ASSUME NEW q \in Reqs, NEW cb \in {"plain", "filter"}, transact(q, cb), q # r,
             UNCHANGED <<activesubs, answers, hpc>>
      PROVE  Fresh(r)'
  <2>1. replyCB'[r] = replyCB[r] /\ nils'[r] = nils[r]
    BY <1>4, Zenon DEF transact, Spawn, TypeOK
  <2>2. \A n \in Conns : ~Has(toServer'[n], {r})
    <3>1. toServer \in [Conns -> Seq(Reqs)] /\ conn \in Conns /\ \A n \in Conns : ~Has(toServer[n], {r})
      BY <1>2, Zenon DEF TypeOK, Fresh
    <3>2. ~Has(Append(toServer[conn], q), {r})
      BY <1>4, <3>1, HasAppend, Zenon
    <3>3. toServer' = toServer \/ toServer' = [toServer EXCEPT ![conn] = Append(@, q)]
      BY <1>4, Zenon DEF transact
    <3> QED
      BY <3>1, <3>2, <3>3, Zenon
  <2> QED
    BY <1>2, <1>4, <2>1, <2>2, Zenon DEF Fresh
<1>5. ASSUME NEW q \in Reqs, Call(q) PROVE Fresh(r)'
  BY <1>4, <1>5, Zenon DEF Call, serverVars
<1>6. CASE RxFrame
  <2>1. PICK f \in Frames, q \in Reqs : Moved(q, f)
    BY <1>6, FrameMoves, Zenon
  <2>2. /\ replyCB \in [Reqs -> {"none", "plain", "filter"}] /\ answers \in [Reqs -> Seq({"ok", "err"})]
        /\ UNCHANGED <<toServer, hpc, nils>>
    BY <1>6, Zenon DEF TypeOK, RxFrame, serverVars
  <2>3. CASE q = r
    BY <1>2, <2>1, <2>2, <2>3, Zenon DEF Fresh, Moved, Ignored, Decided, Accepted, Handed, Closed
  <2>4. CASE q # r
    BY <1>2, <2>1, <2>2, <2>4, Zenon DEF Fresh, Moved, Ignored, Decided, Accepted, Handed, Closed
  <2> QED
    BY <2>3, <2>4, Zenon
<1>7. CASE RxError
  <2>1. \A cb \in {"plain", "filter"} : nils'[r][cb] = 0
    <3>1. Broadcast(replyCB)
      BY <1>7, Zenon DEF RxError, Loss
    <3>2. nils'[r] = [k \in {"plain", "filter"} |-> nils[r][k] + IF replyCB[r] = k THEN 1 ELSE 0]
      BY <3>1, Zenon DEF Broadcast
    <3>3. replyCB[r] = "none" /\ \A cb \in {"plain", "filter"} : nils[r][cb] = 0
      BY <1>2, Zenon DEF Fresh
    <3> QED
      BY <3>2, <3>3
  <2> QED
    BY <1>2, <1>7, <2>1, Zenon DEF Fresh, RxError, serverVars
<1>8. CASE RxDial
  BY <1>2, <1>8, Zenon DEF Fresh, RxDial
<1>9. CASE RxRegen
  <2>1. ASSUME NEW s \in todo, transact(s, "filter") PROVE Fresh(r)'
    <3>1. s \in Reqs /\ s # r
      BY <1>2, Zenon DEF Fresh, TypeOK, Reqs
    <3> QED
      BY <1>4, <1>9, <2>1, <3>1, Zenon DEF RxRegen, serverVars
  <2>2. CASE UNCHANGED <<todo, link, toServer, closed, replyCB, nils>>
    BY <1>2, <1>9, <2>2, Zenon DEF Fresh, RxRegen, serverVars
  <2> QED
    BY <1>9, <2>1, <2>2, Zenon DEF RxRegen
<1>10. ASSUME NEW q \in Reqs, NEW cb \in {"plain", "filter"}, NilCall(q, cb) PROVE Fresh(r)'
  <2>1. q # r
    BY <1>2, <1>10 DEF Fresh, NilCall
  <2>2. replyCB'[r] = replyCB[r] /\ nils'[r] = nils[r] /\ answers'[r] = answers[r]
    BY <1>10, <2>1, ZenonT(30) DEF NilCall, Answer, removeCB, TypeOK
  <2> QED
    BY <1>2, <1>10, <2>2, Zenon DEF Fresh, NilCall, netVars, serverVars
<1>11. ASSUME NEW n \in Conns, SrvRead(n) PROVE Fresh(r)'
  <2>1. toServer \in [Conns -> Seq(Reqs)] /\ toServer[n] # <<>> /\ toServer' = [toServer EXCEPT ![n] = Tail(@)]
    BY <1>11, Zenon DEF TypeOK, SrvRead
  <2>a. \A m \in Conns : ~Has(toServer[m], {r})
    BY <1>2, Zenon DEF Fresh
  <2>b. Head(toServer[n]) # r /\ ~Has(Tail(toServer[n]), {r})
    BY <2>1, <2>a, HasTail, Zenon
  <2>2. Head(toServer[n]) # r /\ \A m \in Conns : ~Has(toServer'[m], {r})
    BY <2>1, <2>a, <2>b, Zenon
  <2>3. \A m \in Conns : hpc'[<<m, r>>] = "none"
    BY <1>2, <1>11, <2>2, ReadAt, ZenonT(30) DEF Fresh
  <2> QED
    BY <1>2, <1>11, <2>2, <2>3, Zenon DEF Fresh, SrvRead, clientVars
<1>12. ASSUME NEW n \in Conns, SrvError(n) PROVE Fresh(r)'
  <2>1. \A m \in Conns : ~Has(toServer'[m], {r})
    BY <1>2, <1>12, HasEmpty, Zenon DEF Fresh, SrvError, TypeOK
  <2> QED
    BY <1>2, <1>12, <2>1, Zenon DEF Fresh, SrvError, clientVars
<1>13. ASSUME NEW n \in Conns, NEW q \in Reqs, Handle(n, q) PROVE Fresh(r)'
  <2>0. q # r /\ UNCHANGED clientVars /\ UNCHANGED toServer
    BY <1>2, <1>13, HandleGoes, ServerKeeps, Zenon DEF Fresh
  <2>1. \A m \in Conns : hpc'[<<m, r>>] = hpc[<<m, r>>]
    BY <1>13, <2>0, HandleGoes, ZenonT(30)
  <2> QED
    BY <1>2, <2>0, <2>1, Zenon DEF Fresh, clientVars
<1> QED
  BY <1>3, <1>5, <1>6, <1>7, <1>8, <1>9, <1>10, <1>11, <1>12, <1>13, ServerKeeps, ZenonT(30)
     DEF Next, Run, Rx, Break, Cleanup, vars, netVars, serverVars

-----------------------------------------------------------------------------
(* One copy of each publication *)

LEMMA PublishSteps ==
  ASSUME TypeOK, NEW p \in Publishes, NEW n \in Conns, NEW r \in Reqs, Handle(n, r)
  PROVE  published'[p] = published[p] \/ (r = p /\ HandlePublish(n, p))
<1>1. CASE HandlePublish(n, r)
  BY <1>1, PublishCounts, Zenon
<1>2. CASE ~HandlePublish(n, r)
  BY <1>2, Zenon DEF Handle, HandleRefuse, HandleStatus, HandleSubscribe,
     HandleSubscribed, HandleQuery, HandleUnsubscribe, HandleUnsubscribed, Answering, routerVars
<1> QED
  BY <1>1, <1>2, Zenon

LEMMA TransactOther ==
  ASSUME TypeOK, NEW r \in Reqs, NEW cb, transact(r, cb), NEW p, p # r
  PROVE  \A n \in Conns : /\ Has(toServer'[n], {p}) <=> Has(toServer[n], {p})
                          /\ Lone(toServer'[n], {p}) <=> Lone(toServer[n], {p})
<1>1. toServer \in [Conns -> Seq(Reqs)] /\ conn \in Conns
  BY Zenon DEF TypeOK
<1>2. /\ Has(Append(toServer[conn], r), {p}) <=> Has(toServer[conn], {p})
      /\ Lone(Append(toServer[conn], r), {p}) <=> Lone(toServer[conn], {p})
  BY <1>1, HasAppend, ZenonT(30)
<1>3. toServer' = toServer \/ toServer' = [toServer EXCEPT ![conn] = Append(@, r)]
  BY Zenon DEF transact
<1> QED
  BY <1>1, <1>2, <1>3, Zenon

LEMMA ReadTakes ==
  ASSUME TypeOK, NEW n \in Conns, SrvRead(n), NEW p
  PROVE  /\ Has(toServer[n], {p}) <=> Head(toServer[n]) = p \/ Has(toServer'[n], {p})
         /\ Lone(toServer[n], {p}) => Lone(toServer'[n], {p}) /\ ~(Head(toServer[n]) = p /\ Has(toServer'[n], {p}))
         /\ \A m \in Conns : m # n => toServer'[m] = toServer[m]
<1>1. /\ toServer \in [Conns -> Seq(Reqs)] /\ toServer[n] # <<>>
      /\ toServer'[n] = Tail(toServer[n]) /\ \A m \in Conns : m # n => toServer'[m] = toServer[m]
  BY Zenon DEF TypeOK, SrvRead
<1> QED
  BY <1>1, HasTail

LEMMA OnceStep == TypeOK /\ Labels /\ Uncalled /\ Once /\ [Next]_vars => Once'
<1> SUFFICES ASSUME TypeOK, Labels, Uncalled, Once, [Next]_vars, NEW p \in Publishes PROVE OneCopy(p)'
  BY Zenon DEF Once
<1>0. OneCopy(p) /\ p \in Reqs
  BY Zenon DEF Once, Reqs
<1>1. CASE UNCHANGED <<toServer, hpc, published>>
  BY <1>0, <1>1, Zenon DEF OneCopy
<1>2. ASSUME NEW r \in Reqs, NEW cb, transact(r, cb), r # p, UNCHANGED <<hpc, published>> PROVE OneCopy(p)'
  BY <1>0, <1>2, TransactOther, Zenon DEF OneCopy
<1>3. ASSUME NEW r \in Reqs, Call(r) PROVE OneCopy(p)'
  <2>1. CASE r = p
    <3>1. \A n \in Conns : hpc[<<n, p>>] = "none" /\ ~Has(toServer[n], {p})
      BY <1>0, <1>3, <2>1, Zenon DEF Call, Uncalled, Fresh
    <3>2. toServer \in [Conns -> Seq(Reqs)] /\ conn \in Conns
      BY Zenon DEF TypeOK
    <3>3. Lone(Append(toServer[conn], p), {p})
      BY <1>0, <3>1, <3>2, HasAppend, ZenonT(30) DEF OneCopy
    <3>4. toServer' = toServer \/ toServer' = [toServer EXCEPT ![conn] = Append(@, p)]
      BY <1>3, <2>1, Zenon DEF Call, transact
    <3>5. /\ \A n \in Conns : Lone(toServer'[n], {p})
          /\ \A n \in Conns : n # conn => ~Has(toServer'[n], {p})
      BY <1>0, <3>1, <3>2, <3>3, <3>4, Zenon DEF OneCopy
    <3> QED
      BY <1>0, <1>3, <3>1, <3>5, Zenon DEF OneCopy, Call, serverVars, routerVars
  <2>2. CASE r # p
    BY <1>2, <1>3, <2>2, Zenon DEF Call, serverVars, routerVars
  <2> QED
    BY <2>1, <2>2, Zenon
<1>4. CASE RxRegen
  <2>1. ASSUME NEW s \in todo, transact(s, "filter") PROVE OneCopy(p)'
    <3>1. s \in Reqs /\ s # p
      BY PeersAssumption, SMTT(30) DEF TypeOK, Reqs
    <3> QED
      BY <1>2, <1>4, <2>1, <3>1, Zenon DEF RxRegen, serverVars, routerVars
  <2> QED
    BY <1>1, <1>4, <2>1, Zenon DEF RxRegen, serverVars, routerVars
<1>5. ASSUME NEW n \in Conns, SrvRead(n) PROVE OneCopy(p)'
  <2>1. CASE Head(toServer[n]) = p
    <3>1. Has(toServer[n], {p}) /\ \A m \in Conns : hpc[<<m, p>>] = "none"
      BY <1>0, <1>5, <2>1, ReadTakes, Zenon DEF OneCopy
    <3>2. \A m \in Conns : ~Has(toServer'[m], {p}) /\ Lone(toServer'[m], {p})
      BY <1>0, <1>5, <2>1, <3>1, ReadTakes, Zenon DEF OneCopy
    <3>3. \A m \in Conns : hpc'[<<m, p>>] = IF m = n THEN "start" ELSE "none"
      BY <1>0, <1>5, <2>1, <3>1, ReadAt, ZenonT(30)
    <3> QED
      BY <1>0, <1>5, <3>1, <3>2, <3>3, ZenonT(30) DEF OneCopy, SrvRead, routerVars
  <2>2. CASE Head(toServer[n]) # p
    <3>1. \A m \in Conns : /\ Has(toServer'[m], {p}) <=> Has(toServer[m], {p})
                           /\ Lone(toServer'[m], {p})
      BY <1>0, <1>5, <2>2, ReadTakes, Zenon DEF OneCopy
    <3>2. \A m \in Conns : hpc'[<<m, p>>] = hpc[<<m, p>>]
      BY <1>0, <1>5, <2>2, ReadAt, Zenon
    <3> QED
      BY <1>0, <1>5, <3>1, <3>2, Zenon DEF OneCopy, SrvRead, routerVars
  <2> QED
    BY <2>1, <2>2, Zenon
<1>6. ASSUME NEW n \in Conns, SrvError(n) PROVE OneCopy(p)'
  <2>1. \A m \in Conns : /\ Has(toServer'[m], {p}) => Has(toServer[m], {p})
                         /\ Lone(toServer'[m], {p})
    BY <1>0, <1>6, HasEmpty, Zenon DEF OneCopy, SrvError, TypeOK
  <2> QED
    BY <1>0, <1>6, <2>1, Zenon DEF OneCopy, SrvError, routerVars
<1>7. ASSUME NEW n \in Conns, NEW r \in Reqs, Handle(n, r) PROVE OneCopy(p)'
  <2>0. /\ hpc[<<n, r>>] \notin {"none", "done"} /\ hpc'[<<n, r>>] # "none"
        /\ \A m \in Conns, q \in Reqs : ~(m = n /\ q = r) => hpc'[<<m, q>>] = hpc[<<m, q>>]
        /\ UNCHANGED toServer
    BY <1>7, HandleGoes, Zenon
  <2>1. CASE r # p
    <3>1. published'[p] = published[p] /\ \A m \in Conns : hpc'[<<m, p>>] = hpc[<<m, p>>]
      BY <1>0, <1>7, <2>0, <2>1, PublishSteps, Zenon
    <3> QED
      BY <1>0, <2>0, <3>1, Zenon DEF OneCopy
  <2>2. CASE r = p
    <3>1. published[p] = 0 /\ \A m \in Conns : m # n => hpc[<<m, p>>] = "none" /\ hpc'[<<m, p>>] = "none"
      BY <1>0, <2>0, <2>2, Zenon DEF OneCopy
    <3>2. published'[p] = 0 \/ (published'[p] = 1 /\ hpc'[<<n, p>>] = "done")
      BY <1>0, <1>7, <2>2, <3>1, PublishSteps, PublishCounts, PublishGoes, SMTT(30)
    <3> QED
      BY <1>0, <2>0, <2>2, <3>1, <3>2, Zenon DEF OneCopy
  <2> QED
    BY <2>1, <2>2, Zenon
<1>8. CASE Break \/ RxFrame \/ RxError \/ RxDial \/ UNCHANGED vars
  BY <1>1, <1>8, Zenon DEF Break, RxFrame, RxError, RxDial, vars, netVars, serverVars, routerVars
<1>9. ASSUME NEW r \in Reqs, NEW cb \in {"plain", "filter"}, NilCall(r, cb) PROVE OneCopy(p)'
  BY <1>1, <1>9, Zenon DEF NilCall, netVars, serverVars, routerVars
<1>10. ASSUME NEW n \in Conns, Cleanup(n) PROVE OneCopy(p)'
  BY <1>1, <1>10, Zenon DEF Cleanup, netVars, serverVars
<1>11. ASSUME NEW n \in Conns, NEW s \in Subscribes, Entry(n, s) PROVE OneCopy(p)'
  BY <1>1, <1>11, Zenon DEF Entry, Dispatch, DispatchDone, DispatchEnd, netVars, serverVars
<1> QED
  BY <1>3, <1>4, <1>5, <1>6, <1>7, <1>8, <1>9, <1>10, <1>11, Zenon DEF Next, Run, Rx

-----------------------------------------------------------------------------
(* Verdicts *)

\* A frame that is not of F changes nothing for F; one that is, comes last.
LEMMA ReplyOther ==
  ASSUME TypeOK, Links, Later, NEW n \in Conns, NEW r \in Reqs, NEW cmd \in {"ok", "err", "sub", "result", "end"},
         NEW of \in Publishes \cup {"none"}, reply(n, r, cmd, of), NEW F, [req |-> r, cmd |-> cmd, of |-> of] \notin F
  PROVE  /\ Has(toClient'[conn], F) <=> Has(toClient[conn], F)
         /\ Lone(toClient'[conn], F) <=> Lone(toClient[conn], F)
<1> DEFINE f == [req |-> r, cmd |-> cmd, of |-> of]
<1>1. toClient \in [Conns -> Seq(Frames)] /\ conn \in Conns
  BY Zenon DEF TypeOK
<1>2. toClient' = toClient \/ toClient' = [toClient EXCEPT ![conn] = Append(@, f)]
  BY ReplyAt
<1> HIDE DEF f
<1>3. f \notin F
  BY Zenon DEF f
<1>4. toClient'[conn] = toClient[conn] \/ toClient'[conn] = Append(toClient[conn], f)
  BY <1>1, <1>2, Zenon
<1>5. /\ Has(Append(toClient[conn], f), F) <=> Has(toClient[conn], F) \/ f \in F
      /\ Lone(Append(toClient[conn], f), F) <=> Lone(toClient[conn], F) /\ ~(Has(toClient[conn], F) /\ f \in F)
  BY <1>1, HasAppend
<1> QED
  BY <1>3, <1>4, <1>5, Zenon

LEMMA ReplyAdds ==
  ASSUME TypeOK, Links, Later, NEW n \in Conns, NEW r \in Reqs, NEW cmd \in {"ok", "err", "sub", "result", "end"},
         NEW of \in Publishes \cup {"none"}, reply(n, r, cmd, of), NEW F
  PROVE  /\ Has(toClient[conn], F) => Has(toClient'[conn], F)
         /\ Has(toClient'[conn], F) => Has(toClient[conn], F) \/ (n = conn /\ link[conn] = "up" /\ rx # "dial")
         /\ Lone(toClient[conn], F) /\ ~Has(toClient[conn], F) => Lone(toClient'[conn], F)
         /\ n = conn /\ link[conn] = "up" /\ [req |-> r, cmd |-> cmd, of |-> of] \in F => Has(toClient'[conn], F)
<1> DEFINE f == [req |-> r, cmd |-> cmd, of |-> of]
<1>1. toClient \in [Conns -> Seq(Frames)] /\ conn \in Conns
  BY Zenon DEF TypeOK
<1>2. /\ \/ toClient' = toClient
         \/ n = conn /\ link[conn] = "up" /\ rx # "dial" /\ toClient' = [toClient EXCEPT ![conn] = Append(@, f)]
      /\ n = conn /\ link[conn] = "up" => toClient' = [toClient EXCEPT ![conn] = Append(@, f)]
  BY ReplyAt DEF reply
<1> HIDE DEF f
<1>3. /\ \/ toClient'[conn] = toClient[conn]
         \/ n = conn /\ link[conn] = "up" /\ rx # "dial" /\ toClient'[conn] = Append(toClient[conn], f)
      /\ n = conn /\ link[conn] = "up" => toClient'[conn] = Append(toClient[conn], f)
  BY <1>1, <1>2, Zenon
<1>4. /\ Has(Append(toClient[conn], f), F) <=> Has(toClient[conn], F) \/ f \in F
      /\ Lone(Append(toClient[conn], f), F) <=> Lone(toClient[conn], F) /\ ~(Has(toClient[conn], F) /\ f \in F)
  BY <1>1, HasAppend
<1> QED
  BY <1>3, <1>4, Zenon DEF f

\* The head of the connection goes.
LEMMA FrameGoes ==
  ASSUME TypeOK, NEW f \in Frames, NEW r \in Reqs, OnTop(r, f), NEW F
  PROVE  /\ Has(toClient[conn], F) <=> f \in F \/ Has(toClient'[conn], F)
         /\ Lone(toClient[conn], F) => Lone(toClient'[conn], F) /\ ~(f \in F /\ Has(toClient'[conn], F))
<1>1. /\ toClient[conn] \in Seq(Frames) /\ toClient[conn] # <<>>
      /\ toClient'[conn] = Tail(toClient[conn]) /\ f = Head(toClient[conn])
  BY Zenon DEF TypeOK, OnTop
<1> QED
  BY <1>1, HasTail

LEMMA VerdictsClient ==
  ASSUME TypeOK, Links, Later, Uncalled, Verdicts, NEW p \in Publishes,
         Break \/ Rx \/ \E r \in Reqs : Call(r) \/ \E cb \in {"plain", "filter"} : NilCall(r, cb)
  PROVE  Verdict(p)'
<1>0. Verdict(p) /\ p \in Reqs /\ p \notin Subscribes /\ p \notin Queries
  BY PeersAssumption, Zenon DEF Verdicts, Reqs
<1>1. CASE Break
  BY <1>0, <1>1, Zenon DEF Verdict, Awaited, MadeOrWill, Break, clientVars, serverVars, routerVars
<1>2. ASSUME NEW r \in Reqs, NEW cb \in {"plain", "filter"}, transact(r, cb), r # p,
             UNCHANGED <<conn, answers, toClient, hpc, published>>, rx = "dial" <=> rx' = "dial"
      PROVE  Verdict(p)'
  <2>1. replyCB'[p] = replyCB[p] /\ nils'[p] = nils[p]
    BY <1>0, <1>2, Zenon DEF transact, Spawn, TypeOK
  <2>2. Has(toServer'[conn], {p}) <=> Has(toServer[conn], {p})
    BY <1>2, TransactOther, Zenon DEF TypeOK
  <2> QED
    BY <1>0, <1>2, <2>1, <2>2, Zenon DEF Verdict, Awaited, MadeOrWill
<1>3. ASSUME NEW r \in Reqs, Call(r) PROVE Verdict(p)'
  <2>1. CASE r = p
    <3>1. /\ replyCB[p] = "none" /\ answers[p] = <<>> /\ nils[p]["plain"] = 0
          /\ hpc[<<conn, p>>] = "none" /\ ~Has(toServer[conn], {p})
      BY <1>0, <1>3, <2>1, Zenon DEF Call, Uncalled, Fresh, TypeOK
    <3>2. ~Has(toClient[conn], To(p)) /\ ~Has(answers[p], {"ok"}) /\ Lone(toClient[conn], To(p))
      BY <1>0, <3>1, HasEmpty, Zenon DEF Verdict, Awaited
    <3>3. /\ UNCHANGED <<conn, rx, answers, toClient, hpc, published>>
          /\ replyCB'[p] = "plain"
      BY <1>3, <2>1, Zenon DEF Call, transact, serverVars, routerVars, TypeOK
    <3>4. nils' = nils \/ (toServer' = toServer /\ nils'[p]["filter"] = nils[p]["filter"])
      BY <1>3, <2>1 DEF Call, transact, Spawn, TypeOK
    <3>5. nils'[p]["filter"] = 0 /\ (nils'[p]["plain"] = 0 \/ ~Has(toServer'[conn], {p}))
      BY <1>0, <3>1, <3>4, Zenon DEF Verdict
    <3> QED
      BY <1>0, <3>1, <3>2, <3>3, <3>5, Zenon DEF Verdict, Awaited, MadeOrWill
  <2>2. CASE r # p
    BY <1>2, <1>3, <2>2, Zenon DEF Call, serverVars, routerVars
  <2> QED
    BY <2>1, <2>2, Zenon
<1>4. CASE RxRegen
  <2>1. ASSUME NEW s \in todo, transact(s, "filter"), UNCHANGED rx PROVE Verdict(p)'
    <3>1. s \in Reqs /\ s # p
      BY <1>0, Zenon DEF TypeOK, Reqs
    <3> QED
      BY <1>2, <1>4, <2>1, <3>1, Zenon DEF RxRegen, serverVars, routerVars
  <2>2. CASE UNCHANGED <<toServer, replyCB, nils>> /\ rx' = "read"
    BY <1>0, <1>4, <2>2, Zenon DEF RxRegen, serverVars, routerVars, Verdict, Awaited, MadeOrWill
  <2> QED
    BY <1>4, <2>1, <2>2, Zenon DEF RxRegen
<1>5. CASE RxDial
  <2>1. conn + 1 \in Conns /\ conn + 1 > conn
    BY <1>5, NextConn, Zenon DEF RxDial
  <2>2. toServer[conn + 1] = <<>> /\ toClient[conn + 1] = <<>> /\ hpc[<<conn + 1, p>>] = "none"
    BY <1>0, <2>1, Zenon DEF Later, Unmade
  <2>3. /\ ~Has(toServer'[conn'], {p}) /\ hpc'[<<conn', p>>] = "none"
        /\ ~Has(toClient'[conn'], To(p)) /\ ~Has(toClient'[conn'], Grants(p)) /\ Lone(toClient'[conn'], To(p))
    BY <1>5, <2>2, HasEmpty, Zenon DEF RxDial
  <2> QED
    BY <1>0, <1>5, <2>3, Zenon DEF RxDial, routerVars, Verdict, Awaited, MadeOrWill
<1>6. CASE RxError
  <2>1. toClient'[conn] = <<>> /\ rx' = "dial" /\ UNCHANGED <<conn, toServer, replyCB, answers, hpc, published>>
    BY <1>6, Zenon DEF RxError, TypeOK, serverVars, routerVars
  <2>2. \A k \in {"plain", "filter"} : replyCB[p] # k => nils'[p][k] = nils[p][k]
    BY <1>0, <1>6 DEF RxError, Loss, Broadcast, TypeOK
  <2>3. ~Has(toClient'[conn], To(p)) /\ ~Has(toClient'[conn], Grants(p)) /\ Lone(toClient'[conn], To(p))
    BY <2>1, HasEmpty, Zenon
  <2> QED
    BY <1>0, <2>1, <2>2, <2>3, Zenon DEF Verdict, Awaited, MadeOrWill
<1>7. CASE RxFrame
  <2>1. PICK f \in Frames, r \in Reqs : OnTop(r, f) /\ Moved(r, f)
    BY <1>7, FrameMoves, Zenon
  <2>2. rx = "read" /\ UNCHANGED <<conn, rx, toServer, nils, hpc, published>>
    BY <1>7, Zenon DEF RxFrame, serverVars, routerVars
  <2>3. /\ replyCB \in [Reqs -> {"none", "plain", "filter"}] /\ answers \in [Reqs -> Seq({"ok", "err"})]
        /\ r = f.req
    BY <2>1, Zenon DEF TypeOK, OnTop
  <2>4. CASE r # p
    <3>1. replyCB'[p] = replyCB[p] /\ answers'[p] = answers[p]
      BY <1>0, <2>1, <2>3, <2>4, Zenon DEF Moved, Ignored, Decided, Accepted, Handed, Closed
    <3>2. f \notin To(p) /\ f \notin Grants(p)
      BY <2>3, <2>4, Zenon DEF To, Grants
    <3>3. /\ Has(toClient'[conn], To(p)) <=> Has(toClient[conn], To(p))
          /\ Lone(toClient'[conn], To(p))
          /\ Has(toClient'[conn], Grants(p)) <=> Has(toClient[conn], Grants(p))
      BY <1>0, <2>1, <3>2, FrameGoes, Zenon DEF Verdict
    <3> QED
      BY <1>0, <2>2, <3>1, <3>3, Zenon DEF Verdict, Awaited, MadeOrWill
  <2>5. CASE r = p
    <3>1. f \in To(p) /\ (f.cmd = "ok" => f \in Grants(p)) /\ Grants(p) \subseteq To(p)
      BY <2>3, <2>5, Zenon DEF To, Grants
    <3>2. /\ Awaited(p) /\ ~Has(toClient'[conn], To(p)) /\ Lone(toClient'[conn], To(p))
          /\ f.cmd = "ok" => MadeOrWill(p)
      BY <1>0, <2>1, <3>1, FrameGoes, Zenon DEF Verdict
    <3>3. ~Has(toClient'[conn], Grants(p))
      BY <3>1, <3>2, Zenon DEF Has
    <3>4. ~Has(toServer[conn], {p}) /\ hpc[<<conn, p>>] # "start"
      BY <1>0, <2>1, <2>2, <3>1, FrameGoes, Zenon DEF Verdict
    <3>5. Decided(p, f)
      BY <1>0, <2>1, <2>5, <3>2, Zenon DEF Moved, Ignored, Accepted, Handed, Closed, Awaited
    <3>6. PICK a \in {"ok", "err"} : (a = "ok" => f.cmd = "ok") /\ answers'[p] = <<a>> /\ replyCB'[p] = "none"
      BY <1>0, <2>3, <3>2, <3>5 DEF Decided, Awaited
    <3>7. Len(answers'[p]) = 1 /\ (Has(answers'[p], {"ok"}) => a = "ok")
      BY <3>6 DEF Has
    <3> QED
      BY <1>0, <2>2, <3>2, <3>3, <3>4, <3>6, <3>7, Zenon DEF Verdict, Awaited, MadeOrWill
  <2> QED
    BY <2>4, <2>5, Zenon
<1>8. ASSUME NEW r \in Reqs, NEW cb \in {"plain", "filter"}, NilCall(r, cb) PROVE Verdict(p)'
  <2>1. UNCHANGED <<conn, rx, toServer, toClient, hpc, published>>
    BY <1>8, Zenon DEF NilCall, netVars, serverVars, routerVars
  <2>2. CASE r # p
    <3>1. replyCB'[p] = replyCB[p] /\ answers'[p] = answers[p] /\ nils'[p] = nils[p]
      BY <1>0, <1>8, <2>2 DEF NilCall, Answer, removeCB, TypeOK
    <3> QED
      BY <1>0, <2>1, <3>1, Zenon DEF Verdict, Awaited, MadeOrWill
  <2>3. CASE r = p
    <3>1. cb = "plain" /\ nils[p]["plain"] > 0 /\ nils[p]["plain"] \in Nat /\ nils[p]["filter"] = 0
      BY <1>0, <1>8, <2>3 DEF NilCall, Verdict, TypeOK
    <3>2. ~Awaited(p) /\ ~Has(answers[p], {"ok"})
      BY <1>0, <3>1, SMTT(30) DEF Awaited, Verdict
    <3>3. /\ nils'[p]["filter"] = 0 /\ replyCB'[p] = "none"
          /\ answers' = [answers EXCEPT ![p] = Append(@, "err")]
      BY <1>0, <1>8, <2>3, <3>1, PeersAssumption DEF NilCall, Answer, removeCB, TypeOK
    <3>4. answers[p] \in Seq({"ok", "err"}) /\ answers'[p] = Append(answers[p], "err")
      BY <1>0, <3>3, Zenon DEF TypeOK
    <3>5. ~Has(answers'[p], {"ok"})
      BY <3>2, <3>4, HasAppend
    <3> QED
      BY <1>0, <2>1, <3>2, <3>3, <3>5, Zenon DEF Verdict, Awaited, MadeOrWill
  <2> QED
    BY <2>2, <2>3, Zenon
<1> QED
  BY <1>1, <1>3, <1>4, <1>5, <1>6, <1>7, <1>8, Zenon DEF Rx

LEMMA VerdictsServer ==
  ASSUME TypeOK, Links, Later, Labels, Once, Verdicts, NEW p \in Publishes, OneCopy(p)',
         \/ \E n \in Conns : SrvRead(n) \/ SrvError(n) \/ Cleanup(n)
         \/ \E n \in Conns, r \in Reqs : Handle(n, r)
         \/ \E n \in Conns, s \in Subscribes : Entry(n, s)
  PROVE  Verdict(p)'
<1>0. /\ Verdict(p) /\ OneCopy(p) /\ p \in Reqs /\ conn \in Conns
      /\ p \notin Subscribes /\ p \notin Queries /\ p \notin Unsubscribes
      /\ UNCHANGED <<link, conn, rx, replyCB, nils, answers>>
  BY PeersAssumption, ServerKeeps, Zenon DEF Verdicts, Once, Reqs, TypeOK, clientVars
<1>1. ASSUME UNCHANGED <<toClient, hpc, published>>, Has(toServer'[conn], {p}) => Has(toServer[conn], {p})
      PROVE  Verdict(p)'
  BY <1>0, <1>1, Zenon DEF Verdict, Awaited, MadeOrWill
<1>2. ASSUME NEW n \in Conns, SrvRead(n) PROVE Verdict(p)'
  <2>1. UNCHANGED <<toClient, published>>
    BY <1>2, Zenon DEF SrvRead, routerVars
  <2>2. \A m \in Conns, q \in Reqs :
          hpc'[<<m, q>>] = IF m = n /\ q = Head(toServer[n]) THEN "start" ELSE hpc[<<m, q>>]
    BY <1>2, ReadAt, Zenon
  <2>3. /\ Has(toServer[n], {p}) <=> Head(toServer[n]) = p \/ Has(toServer'[n], {p})
        /\ \A m \in Conns : m # n => toServer'[m] = toServer[m]
    BY <1>2, ReadTakes, Zenon
  <2>4. \A m \in Conns : hpc'[<<m, p>>] = IF m = n /\ p = Head(toServer[n]) THEN "start" ELSE hpc[<<m, p>>]
    BY <1>0, <2>2, Zenon
  <2>5. /\ Has(toServer'[conn], {p}) => Has(toServer[conn], {p})
        /\ hpc'[<<conn, p>>] = "start" => Has(toServer[conn], {p}) \/ hpc[<<conn, p>>] = "start"
    <3>1. conn \in Conns
      BY <1>0, Zenon
    <3>2. CASE conn = n
      BY <2>3, <2>4, <3>1, <3>2, Zenon
    <3>3. CASE conn # n
      BY <2>3, <2>4, <3>1, <3>3, Zenon
    <3> QED
      BY <3>2, <3>3, Zenon
  <2>6. MadeOrWill(p) => MadeOrWill(p)'
    <3>1. ASSUME NEW m \in Conns, hpc[<<m, p>>] = "act" PROVE hpc'[<<m, p>>] = "act"
      <4>1. ~Has(toServer[n], {p})
        BY <1>0, <3>1, Zenon DEF OneCopy
      <4>2. Head(toServer[n]) # p
        BY <2>3, <4>1, Zenon
      <4> QED
        BY <2>4, <3>1, <4>2, Zenon
    <3> QED
      BY <2>1, <3>1, Zenon DEF MadeOrWill
  <2> QED
    BY <1>0, <2>1, <2>5, <2>6, Zenon DEF Verdict, Awaited
<1>3. ASSUME NEW n \in Conns, SrvError(n) PROVE Verdict(p)'
  <2>1. Has(toServer'[conn], {p}) => Has(toServer[conn], {p})
    BY <1>0, <1>3, HasEmpty, Zenon DEF SrvError, TypeOK
  <2> QED
    BY <1>1, <1>3, <2>1, Zenon DEF SrvError, routerVars
<1>4. ASSUME NEW n \in Conns, Cleanup(n) PROVE Verdict(p)'
  BY <1>1, <1>4, Zenon DEF Cleanup, netVars, serverVars
<1>5. ASSUME NEW n \in Conns, NEW r \in Reqs, NEW cmd \in {"ok", "err", "sub", "result", "end"},
             NEW of \in Publishes \cup {"none"}, reply(n, r, cmd, of), r # p,
             UNCHANGED <<toServer, published>>, \A m \in Conns : hpc'[<<m, p>>] = hpc[<<m, p>>]
      PROVE  Verdict(p)'
  <2>1. [req |-> r, cmd |-> cmd, of |-> of] \notin To(p) /\ [req |-> r, cmd |-> cmd, of |-> of] \notin Grants(p)
    BY <1>5, Zenon DEF To, Grants
  <2>2. /\ Has(toClient'[conn], To(p)) <=> Has(toClient[conn], To(p))
        /\ Lone(toClient'[conn], To(p)) <=> Lone(toClient[conn], To(p))
    BY <1>5, <2>1, ReplyOther, Zenon
  <2>3. Has(toClient'[conn], Grants(p)) <=> Has(toClient[conn], Grants(p))
    BY <1>5, <2>1, ReplyOther, Zenon
  <2> QED
    BY <1>0, <1>5, <2>2, <2>3, Zenon DEF Verdict, Awaited, MadeOrWill
<1>6. ASSUME NEW n \in Conns, NEW s \in Subscribes, Entry(n, s) PROVE Verdict(p)'
  <2>1. CASE Dispatch(n, s)
    <3>1. Head(queue[<<n, s>>]) \in Publishes \cup {"none"}
      BY <2>1, TailType DEF TypeOK, Dispatch
    <3> QED
      BY <1>0, <1>5, <2>1, <3>1, Zenon DEF Dispatch, Reqs
  <2>2. CASE DispatchDone(n, s)
    BY <1>1, <2>2, Zenon DEF DispatchDone, netVars, serverVars
  <2>3. CASE DispatchEnd(n, s)
    BY <1>0, <1>5, <2>3, Zenon DEF DispatchEnd, Reqs
  <2> QED
    BY <1>6, <2>1, <2>2, <2>3, Zenon DEF Entry
<1>7. ASSUME NEW n \in Conns, NEW r \in Reqs, Handle(n, r) PROVE Verdict(p)'
  <2>0. /\ hpc[<<n, r>>] \notin {"none", "done"} /\ hpc'[<<n, r>>] \notin {"none", "start"}
        /\ \A m \in Conns, q \in Reqs : ~(m = n /\ q = r) => hpc'[<<m, q>>] = hpc[<<m, q>>]
        /\ UNCHANGED toServer
    BY <1>7, HandleGoes, Zenon
  <2>1. CASE Reports(n, r)
    <3>1. PICK cmd \in {"ok", "err", "sub", "result", "end"}, label \in {"act", "last", "done"} :
            Reporting(n, r, cmd, label) /\ reply(n, r, cmd, "none") /\ hpc'[<<n, r>>] = label
      BY <2>1, AnsweringAt, Zenon
    <3>2. UNCHANGED published
      BY <2>1, AnsweringKeeps, Zenon DEF routerVars
    <3>3. CASE r # p
      BY <1>0, <1>5, <2>0, <3>1, <3>2, <3>3, ZenonT(30)
    <3>4. CASE r = p
      <4>1. hpc[<<n, p>>] = "start" /\ (cmd = "ok" => hpc'[<<n, p>>] = "act")
        BY <3>1, <3>4, Zenon DEF Reporting
      <4>2. ~Has(toServer[conn], {p}) /\ \A m \in Conns : m # n => hpc[<<m, p>>] = "none"
        BY <1>0, <4>1, Zenon DEF OneCopy
      <4>3. MadeOrWill(p) => published[p] = 1
        BY <4>1, <4>2, Zenon DEF MadeOrWill
      <4>4. n = conn /\ rx # "dial" => Awaited(p) /\ ~Has(toClient[conn], To(p))
        BY <1>0, <4>1, Zenon DEF Verdict
      <4>5. /\ Has(toClient'[conn], To(p)) => Awaited(p)
            /\ Lone(toClient'[conn], To(p))
        <5>1. /\ Has(toClient'[conn], To(p)) => Has(toClient[conn], To(p)) \/ (n = conn /\ rx # "dial")
              /\ Lone(toClient[conn], To(p)) /\ ~Has(toClient[conn], To(p)) => Lone(toClient'[conn], To(p))
          BY <3>1, ReplyAdds, Zenon
        <5>2. CASE n = conn /\ rx # "dial"
          BY <1>0, <4>4, <5>1, <5>2, Zenon DEF Verdict
        <5>3. CASE ~(n = conn /\ rx # "dial")
          <6>1. toClient' = toClient
            BY <3>1, <5>3, ReplyAt, Zenon
          <6> QED
            BY <1>0, <6>1, Zenon DEF Verdict
        <5> QED
          BY <5>2, <5>3, Zenon
      <4>6. Has(toClient'[conn], Grants(p)) => published[p] = 1 \/ hpc'[<<n, p>>] = "act"
        <5>1. CASE cmd = "ok"
          BY <4>1, <5>1, Zenon
        <5>2. CASE cmd # "ok"
          <6>1. [req |-> r, cmd |-> cmd, of |-> "none"] \notin Grants(p)
            BY <5>2, Zenon DEF Grants
          <6>2. Has(toClient'[conn], Grants(p)) <=> Has(toClient[conn], Grants(p))
            BY <3>1, <6>1, ReplyOther, Zenon
          <6> QED
            BY <1>0, <4>3, <6>2, Zenon DEF Verdict
        <5> QED
          BY <5>1, <5>2, Zenon
      <4>7. hpc'[<<conn, p>>] # "start"
        BY <1>0, <2>0, <3>4, <4>2, Zenon
      <4> QED
        BY <1>0, <2>0, <3>2, <4>2, <4>3, <4>5, <4>6, <4>7, Zenon DEF Verdict, Awaited, MadeOrWill
    <3> QED
      BY <3>3, <3>4, Zenon
  <2>2. CASE HandlePublish(n, r)
    <3>1. UNCHANGED toClient
      BY <2>2, QuietSteps, Zenon
    <3>2. hpc'[<<conn, p>>] = "start" => hpc[<<conn, p>>] = "start"
      BY <1>0, <2>0, Zenon
    <3>3. MadeOrWill(p) => MadeOrWill(p)'
      <4>1. CASE r = p
        <5>1. published'[p] = published[p] + 1
          BY <1>0, <2>2, <4>1, PublishCounts, Zenon
        <5>2. published[p] \in Nat
          BY Zenon DEF TypeOK
        <5>3. published'[p] \in {0, 1}
          BY Zenon DEF OneCopy
        <5> QED
          BY <5>1, <5>2, <5>3 DEF MadeOrWill
      <4>2. CASE r # p
        BY <1>0, <2>0, <2>2, <4>2, PublishCounts, ZenonT(30) DEF MadeOrWill
      <4> QED
        BY <4>1, <4>2, Zenon
    <3> QED
      BY <1>0, <2>0, <3>1, <3>2, <3>3, Zenon DEF Verdict, Awaited
  <2>3. CASE HandleSubscribe(n, r) \/ HandleUnsubscribe(n, r)
    <3>1. r # p /\ UNCHANGED <<toClient, published>>
      BY <1>0, <2>3, Zenon DEF HandleSubscribe, HandleUnsubscribe, netVars
    <3>2. \A m \in Conns : hpc'[<<m, p>>] = hpc[<<m, p>>]
      BY <1>0, <2>0, <3>1, Zenon
    <3> QED
      BY <1>0, <2>0, <3>1, <3>2, Zenon DEF Verdict, Awaited, MadeOrWill
  <2> QED
    BY <1>7, <2>1, <2>2, <2>3, Zenon DEF Handle, Reports
<1> QED
  BY <1>2, <1>3, <1>4, <1>6, <1>7, Zenon

LEMMA VerdictsStep ==
  TypeOK /\ Links /\ Later /\ Labels /\ Uncalled /\ Once /\ Verdicts /\ [Next]_vars => Verdicts'
<1> SUFFICES ASSUME TypeOK, Links, Later, Labels, Uncalled, Once, Verdicts, [Next]_vars, NEW p \in Publishes
             PROVE  Verdict(p)'
  BY Zenon DEF Verdicts
<1>1. OneCopy(p)'
  BY OnceStep, Zenon DEF Once
<1>2. CASE UNCHANGED vars
  BY <1>2, Zenon DEF Verdicts, Verdict, Awaited, MadeOrWill, vars, netVars, clientVars, serverVars, routerVars
<1> QED
  BY <1>1, <1>2, VerdictsClient, VerdictsServer, Zenon DEF Next, Run

-----------------------------------------------------------------------------
(* Deliveries *)

LEMMA EndedStep == TypeOK /\ Uncalled /\ Ended /\ [Next]_vars => Ended'
<1> SUFFICES ASSUME TypeOK, Uncalled, Ended, [Next]_vars PROVE Ended'
  OBVIOUS
<1>0. \A s \in Subscribes : replyCB[s] # "none" => s \in called
  BY Zenon DEF Uncalled, Fresh, Reqs
<1>1. CASE UNCHANGED <<log, replyCB, called, activesubs>>
  BY <1>1, Zenon DEF Ended
<1>2. ASSUME NEW r \in Reqs, NEW cb, replyCB' = [replyCB EXCEPT ![r] = cb], called \subseteq called',
             UNCHANGED <<log, activesubs>>, r \notin called \/ r \in activesubs \/ cb = "none"
      PROVE  Ended'
  BY <1>2, ZenonT(30) DEF Ended, TypeOK
<1>3. ASSUME NEW r \in Reqs, Call(r) PROVE Ended'
  BY <1>2, <1>3, Zenon DEF Call, transact
<1>4. ASSUME NEW r \in Reqs, NEW cb \in {"plain", "filter"}, NilCall(r, cb) PROVE Ended'
  BY <1>1, <1>2, <1>4, Zenon DEF NilCall, removeCB
<1>5. CASE RxRegen
  BY <1>1, <1>2, <1>5, Zenon DEF RxRegen, transact, TypeOK, Reqs
<1>6. CASE RxFrame
  <2>1. PICK f \in Frames, r \in Reqs : Moved(r, f)
    BY <1>6, FrameMoves, Zenon
  <2>2. f.of # "end"
    BY PeersAssumption, Zenon DEF Frames
  <2>3. /\ replyCB \in [Reqs -> {"none", "plain", "filter"}] /\ called' = called
        /\ log \in [Subscribes \cup Queries -> Seq(Publishes \cup {"none", "end"})]
    BY <1>6, Zenon DEF TypeOK, RxFrame
  <2>4. CASE Ignored(r, f)
    BY <1>1, <2>3, <2>4, Zenon DEF Ignored
  <2>5. CASE Decided(r, f)
    BY <1>2, <2>3, <2>5, Zenon DEF Decided
  <2>6. CASE Accepted(r, f)
    BY <2>3, <2>6, Zenon DEF Accepted, Ended
  <2>7. ASSUME NEW x, r \in Subscribes \cup Queries, replyCB[r] # "none", log' = [log EXCEPT ![r] = Append(@, x)],
               NEW s \in Subscribes, NEW i \in DOMAIN log'[s], log'[s][i] = "end"
        PROVE  \/ s # r /\ i = Len(log'[s]) /\ replyCB[s] = "none" /\ s \in called /\ s \notin activesubs
               \/ s = r /\ x = "end" /\ i = Len(log'[s])
    <3>1. CASE s # r
      BY <2>3, <2>7, <3>1, Zenon DEF Ended
    <3>2. CASE s = r
      <4>1. /\ log[s] \in Seq(Publishes \cup {"none", "end"}) /\ log'[s] = Append(log[s], x)
            /\ DOMAIN log[s] = 1 .. Len(log[s]) /\ Len(log[s]) \in Nat
        BY <2>3, <2>7, <3>2
      <4>2. i \in DOMAIN log[s] => log[s][i] = "end"
        BY <2>7, <4>1
      <4>3. i \notin DOMAIN log[s]
        BY <2>7, <3>2, <4>2, Zenon DEF Ended
      <4> QED
        BY <2>7, <3>2, <4>1, <4>3
    <3> QED
      BY <3>1, <3>2, Zenon
  <2>8. CASE Handed(r, f)
    BY <2>2, <2>3, <2>7, <2>8, ZenonT(30) DEF Handed, Ended
  <2>9. CASE Closed(r, f)
    BY <1>0, <2>3, <2>7, <2>9 DEF Closed, Ended
  <2> QED
    BY <2>1, <2>4, <2>5, <2>6, <2>8, <2>9, Zenon DEF Moved
<1>7. CASE Break \/ RxError \/ RxDial \/ UNCHANGED vars
  BY <1>1, <1>7, Zenon DEF Break, RxError, RxDial, vars, clientVars
<1> QED
  BY <1>1, <1>3, <1>4, <1>5, <1>6, <1>7, ServerKeeps, Zenon DEF Next, Run, Rx, clientVars

LEMMA SingleStep ==
  TypeOK /\ Links /\ Later /\ Labels /\ Once /\ Single /\ [Next]_vars => Single'
<1> SUFFICES ASSUME TypeOK, Links, Later, Labels, Once, Single, [Next]_vars,
                    NEW s \in Subscribes, NEW p \in Publishes
             PROVE  Place(s, p)'
  BY Zenon DEF Single
<1>0. /\ Place(s, p) /\ OneCopy(p) /\ conn \in Conns /\ s \in Reqs /\ p \in Reqs /\ p # "none" /\ p # "end"
      /\ toClient[conn] \in Seq(Frames) /\ queue[<<conn, s>>] \in Seq(Publishes)
      /\ log[s] \in Seq(Publishes \cup {"none", "end"})
  BY PeersAssumption, Zenon DEF Single, Once, TypeOK, Reqs
<1>1. CASE UNCHANGED <<conn, log, toClient, queue, published>>
  BY <1>0, <1>1, Zenon DEF Place
<1>2. CASE RxDial
  <2>1. conn + 1 \in Conns /\ conn + 1 > conn
    BY <1>2, NextConn, Zenon DEF RxDial
  <2>2. toClient'[conn'] = <<>> /\ queue'[<<conn', s>>] = <<>>
    BY <1>2, <2>1, Zenon DEF Later, Unmade, RxDial, routerVars
  <2>3. /\ ~Has(toClient'[conn'], Results(s, p)) /\ Lone(toClient'[conn'], Results(s, p))
        /\ ~Has(queue'[<<conn', s>>], {p}) /\ Lone(queue'[<<conn', s>>], {p})
    BY <2>2, HasEmpty, Zenon
  <2> QED
    BY <1>0, <1>2, <2>3, Zenon DEF Place, RxDial, routerVars
<1>3. CASE RxError
  <2>1. toClient'[conn'] = <<>> /\ UNCHANGED <<conn, log, queue, published>>
    BY <1>3, Zenon DEF RxError, TypeOK, routerVars
  <2>2. ~Has(toClient'[conn'], Results(s, p)) /\ Lone(toClient'[conn'], Results(s, p))
    BY <2>1, HasEmpty, Zenon
  <2> QED
    BY <1>0, <2>1, <2>2, Zenon DEF Place
<1>4. CASE RxFrame
  <2>1. PICK f \in Frames, r \in Reqs : OnTop(r, f) /\ Moved(r, f)
    BY <1>4, FrameMoves, Zenon
  <2>2. UNCHANGED <<conn, queue, published>> /\ r = f.req
    BY <1>4, <2>1, Zenon DEF RxFrame, routerVars, OnTop
  <2>3. log'[s] = log[s] \/ log'[s] = Append(log[s], "end") \/ (r = s /\ log'[s] = Append(log[s], f.of))
    BY <2>1, ZenonT(30) DEF Moved, Ignored, Decided, Accepted, Handed, Closed, TypeOK
  <2>4. f \in Results(s, p) <=> r = s /\ f.of = p
    BY <2>2, Zenon DEF Results
  <2>5. /\ Has(toClient[conn], Results(s, p)) <=> f \in Results(s, p) \/ Has(toClient'[conn], Results(s, p))
        /\ Lone(toClient'[conn], Results(s, p))
        /\ ~(f \in Results(s, p) /\ Has(toClient'[conn], Results(s, p)))
    BY <1>0, <2>1, FrameGoes, Zenon DEF Place
  <2>6. /\ Has(Append(log[s], "end"), {p}) <=> Has(log[s], {p})
        /\ Lone(Append(log[s], "end"), {p}) <=> Lone(log[s], {p})
        /\ Has(Append(log[s], f.of), {p}) <=> Has(log[s], {p}) \/ f.of = p
        /\ Lone(Append(log[s], f.of), {p}) <=> Lone(log[s], {p}) /\ ~(Has(log[s], {p}) /\ f.of = p)
    <3>1. ASSUME NEW S, log[s] \in Seq(S), NEW e
          PROVE  /\ Has(Append(log[s], e), {p}) <=> Has(log[s], {p}) \/ e \in {p}
                 /\ Lone(Append(log[s], e), {p}) <=> Lone(log[s], {p}) /\ ~(Has(log[s], {p}) /\ e \in {p})
      BY <3>1, HasAppend, Zenon
    <3>2. PICK S : log[s] \in Seq(S)
      BY <1>0, Zenon
    <3>3. p # "end"
      BY <1>0, Zenon
    <3>4. \A e : /\ Has(Append(log[s], e), {p}) <=> Has(log[s], {p}) \/ e = p
                 /\ Lone(Append(log[s], e), {p}) <=> Lone(log[s], {p}) /\ ~(Has(log[s], {p}) /\ e = p)
      BY <3>1, <3>2, Zenon
    <3> QED
      BY <3>3, <3>4
  <2>7. /\ Has(log'[s], {p}) => Has(log[s], {p}) \/ f \in Results(s, p)
        /\ Lone(log'[s], {p})
    BY <1>0, <2>3, <2>4, <2>5, <2>6, Zenon DEF Place
  <2> QED
    BY <1>0, <2>2, <2>5, <2>7, Zenon DEF Place
<1>5. ASSUME NEW n \in Conns, NEW r \in Reqs, NEW cmd \in {"ok", "err", "sub", "result", "end"},
             reply(n, r, cmd, "none"), UNCHANGED <<conn, log, queue, published>>
      PROVE  Place(s, p)'
  <2>1. [req |-> r, cmd |-> cmd, of |-> "none"] \notin Results(s, p)
    BY <1>0, Zenon DEF Results
  <2>2. /\ Has(toClient'[conn], Results(s, p)) <=> Has(toClient[conn], Results(s, p))
        /\ Lone(toClient'[conn], Results(s, p)) <=> Lone(toClient[conn], Results(s, p))
    BY <1>5, <2>1, ReplyOther, Zenon
  <2> QED
    BY <1>0, <1>5, <2>2, Zenon DEF Place
<1>6. ASSUME NEW n \in Conns, NEW t \in Subscribes, Dispatch(n, t) PROVE Place(s, p)'
  <2> DEFINE h == Head(queue[<<n, t>>])
  <2>1. /\ UNCHANGED <<conn, log, published>>
        /\ h \in Publishes /\ t \in Reqs /\ reply(n, t, "result", h)
        /\ queue[<<n, t>>] \in Seq(Publishes) /\ queue[<<n, t>>] # <<>>
    BY <1>6, TailType, Zenon DEF Dispatch, clientVars, TypeOK, Reqs
  <2>2. \A m \in Conns, u \in Subscribes :
          queue'[<<m, u>>] = IF m = n /\ u = t THEN Tail(queue[<<n, t>>]) ELSE queue[<<m, u>>]
    BY <1>6, Zenon DEF Dispatch, TypeOK
  <2> HIDE DEF h
  <2>3. CASE n = conn /\ t = s
    <3>1. queue'[<<conn, s>>] = Tail(queue[<<conn, s>>])
      BY <1>0, <2>2, <2>3, Zenon
    <3>2. /\ Has(queue[<<conn, s>>], {p}) <=> h = p \/ Has(queue'[<<conn, s>>], {p})
          /\ Lone(queue'[<<conn, s>>], {p}) /\ ~(h = p /\ Has(queue'[<<conn, s>>], {p}))
      <4> DEFINE q == queue[<<conn, s>>]
      <4>1. q \in Seq(Publishes) /\ q # <<>> /\ queue'[<<conn, s>>] = Tail(q) /\ h = Head(q)
        BY <2>1, <2>3, <3>1, Zenon DEF h
      <4>2. Lone(q, {p})
        BY <1>0, Zenon DEF Place
      <4> HIDE DEF q
      <4>3. /\ Has(q, {p}) <=> Head(q) \in {p} \/ Has(Tail(q), {p})
            /\ Lone(q, {p}) => Lone(Tail(q), {p}) /\ ~(Head(q) \in {p} /\ Has(Tail(q), {p}))
        BY <4>1, HasTail, Zenon
      <4>4. /\ Has(q, {p}) <=> h = p \/ Has(queue'[<<conn, s>>], {p})
            /\ Lone(queue'[<<conn, s>>], {p}) /\ ~(h = p /\ Has(queue'[<<conn, s>>], {p}))
        BY <4>1, <4>2, <4>3, Zenon
      <4> QED
        BY <4>4, Zenon DEF q
    <3>3. CASE h = p
      <4>1. ~Has(toClient[conn], Results(s, p)) /\ ~Has(log[s], {p}) /\ published[p] # 0
        BY <1>0, <3>2, <3>3, Zenon DEF Place
      <4>2. Lone(toClient'[conn], Results(s, p))
        BY <1>0, <2>1, <4>1, ReplyAdds, Zenon DEF Place
      <4> QED
        BY <1>0, <2>1, <3>2, <3>3, <4>1, <4>2, Zenon DEF Place
    <3>4. CASE h # p
      <4>1. [req |-> t, cmd |-> "result", of |-> h] \notin Results(s, p)
        BY <3>4, Zenon DEF Results
      <4>2. /\ Has(toClient'[conn], Results(s, p)) <=> Has(toClient[conn], Results(s, p))
            /\ Lone(toClient'[conn], Results(s, p)) <=> Lone(toClient[conn], Results(s, p))
        BY <2>1, <4>1, ReplyOther, Zenon
      <4> QED
        BY <1>0, <2>1, <3>2, <3>4, <4>2, Zenon DEF Place
    <3> QED
      BY <3>3, <3>4, Zenon
  <2>4. CASE n = conn /\ t # s
    <3>1. queue'[<<conn, s>>] = queue[<<conn, s>>]
      BY <1>0, <2>2, <2>4, Zenon
    <3>2. [req |-> t, cmd |-> "result", of |-> h] \notin Results(s, p)
      BY <2>4, Zenon DEF Results
    <3>3. /\ Has(toClient'[conn], Results(s, p)) <=> Has(toClient[conn], Results(s, p))
          /\ Lone(toClient'[conn], Results(s, p)) <=> Lone(toClient[conn], Results(s, p))
      BY <2>1, <3>2, ReplyOther, Zenon
    <3> QED
      BY <1>0, <2>1, <3>1, <3>3, Zenon DEF Place
  <2>5. CASE n # conn
    <3>1. queue'[<<conn, s>>] = queue[<<conn, s>>]
      BY <1>0, <2>2, <2>5, Zenon
    <3>2. toClient' = toClient
      BY <2>1, <2>5, ReplyAt, Zenon
    <3> QED
      BY <1>0, <2>1, <3>1, <3>2, Zenon DEF Place
  <2> QED
    BY <2>3, <2>4, <2>5, Zenon
<1>7. ASSUME NEW n \in Conns, NEW q \in Reqs, HandlePublish(n, q) PROVE Place(s, p)'
  <2>1. UNCHANGED <<conn, log, toClient>> /\ hpc[<<n, q>>] = "act"
    BY <1>7, Zenon DEF HandlePublish, clientVars, netVars
  <2>2. queue'[<<conn, s>>] = queue[<<conn, s>>] \/ queue'[<<conn, s>>] = Append(queue[<<conn, s>>], q)
    BY <1>0, <1>7, PublishAt, ZenonT(30)
  <2>3. /\ Has(Append(queue[<<conn, s>>], q), {p}) <=> Has(queue[<<conn, s>>], {p}) \/ q = p
        /\ Lone(Append(queue[<<conn, s>>], q), {p}) <=>
             Lone(queue[<<conn, s>>], {p}) /\ ~(Has(queue[<<conn, s>>], {p}) /\ q = p)
    BY <1>0, HasAppend
  <2>4. CASE q = p
    <3>1. published[p] = 0
      BY <1>0, <2>1, <2>4, Zenon DEF OneCopy
    <3>2. \A r \in Publishes : published'[r] = IF r = q THEN published[q] + 1 ELSE published[r]
      BY <1>7, PublishCounts, Zenon
    <3>3. published'[p] # 0
      <4>1. published'[p] = published[p] + 1
        BY <2>4, <3>2, Zenon
      <4> QED
        BY <3>1, <4>1
    <3>4. ~Has(log[s], {p}) /\ ~Has(toClient[conn], Results(s, p)) /\ ~Has(queue[<<conn, s>>], {p})
      BY <1>0, <3>1, Zenon DEF Place
    <3>5. Lone(queue'[<<conn, s>>], {p})
      BY <1>0, <2>2, <2>3, <3>4, Zenon DEF Place
    <3>6. Lone(log[s], {p}) /\ Lone(toClient[conn], Results(s, p))
      BY <1>0, Zenon DEF Place
    <3> QED
      BY <2>1, <3>3, <3>4, <3>5, <3>6, Zenon DEF Place
  <2>5. CASE q # p
    <3>1. published'[p] = published[p]
      BY <1>7, <2>5, PublishCounts, Zenon
    <3> QED
      BY <1>0, <2>1, <2>2, <2>3, <2>5, <3>1, Zenon DEF Place
  <2> QED
    BY <2>4, <2>5, Zenon
<1>8. ASSUME NEW n \in Conns, NEW r \in Reqs, Handle(n, r) PROVE Place(s, p)'
  <2>0. UNCHANGED <<conn, log>>
    BY <1>8, ServerKeeps, Zenon DEF clientVars
  <2>1. CASE Reports(n, r)
    <3>1. PICK cmd \in {"ok", "err", "sub", "result", "end"} : reply(n, r, cmd, "none")
      BY <2>1, AnsweringAt, Zenon
    <3>2. UNCHANGED <<queue, published>>
      BY <2>1, AnsweringKeeps, Zenon DEF routerVars
    <3> QED
      BY <1>5, <2>0, <3>1, <3>2, Zenon
  <2>2. CASE HandleSubscribe(n, r) \/ HandleUnsubscribe(n, r)
    BY <1>1, <2>0, <2>2, Zenon DEF HandleSubscribe, HandleUnsubscribe, netVars
  <2> QED
    BY <1>7, <1>8, <2>1, <2>2, Zenon DEF Handle, Reports
<1>9. ASSUME NEW n \in Conns, NEW t \in Subscribes, Entry(n, t) PROVE Place(s, p)'
  <2>0. UNCHANGED <<conn, log>>
    BY <1>9, ServerKeeps, Zenon DEF clientVars
  <2>1. CASE DispatchDone(n, t)
    BY <1>1, <2>0, <2>1, Zenon DEF DispatchDone, netVars
  <2>2. CASE DispatchEnd(n, t)
    BY <1>5, <2>0, <2>2, Zenon DEF DispatchEnd, Reqs
  <2> QED
    BY <1>6, <1>9, <2>1, <2>2, Zenon DEF Entry
<1>10. ASSUME NEW n \in Conns, SrvRead(n) \/ SrvError(n) \/ Cleanup(n) PROVE Place(s, p)'
  BY <1>1, <1>10, Zenon DEF SrvRead, SrvError, Cleanup, netVars, clientVars, routerVars
<1>11. ASSUME NEW r \in Reqs, Call(r) \/ \E cb \in {"plain", "filter"} : NilCall(r, cb) PROVE Place(s, p)'
  BY <1>1, <1>11, Zenon DEF Call, NilCall, netVars, routerVars
<1>12. CASE Break \/ RxRegen \/ UNCHANGED vars
  BY <1>1, <1>12, Zenon DEF Break, RxRegen, vars, netVars, clientVars, routerVars
<1> QED
  BY <1>2, <1>3, <1>4, <1>8, <1>9, <1>10, <1>11, <1>12, Zenon DEF Next, Run, Rx

-----------------------------------------------------------------------------
(* Subscriptions that are made again *)

LEMMA InStepClient ==
  ASSUME TypeOK, Links, Later, Uncalled, InStep, plan' = plan, Connected',
         Break \/ Rx \/ \E r \in Reqs : Call(r) \/ \E cb \in {"plain", "filter"} : NilCall(r, cb)
  PROVE  conn' \notin over' /\ \A s \in Subscribes : Kept(s)'
<1>0. /\ conn \in Conns /\ \A s \in Subscribes : s \in Reqs /\ s \notin Publishes
      /\ toServer[conn] \in Seq(Reqs)
  BY PeersAssumption, Zenon DEF TypeOK, Reqs
<1>1. CASE RxDial
  <2>1. conn + 1 \in Conns /\ conn + 1 > conn
    BY <1>1, NextConn, Zenon DEF RxDial
  <2>2. Unmade(conn + 1) /\ conn' = conn + 1
    BY <1>1, <2>1, Zenon DEF Later, RxDial
  <2>3. conn' \notin over'
    BY <1>1, <2>2, Zenon DEF Unmade, RxDial
  <2>4. ASSUME NEW s \in Subscribes PROVE Kept(s)'
    <3>1. toServer'[conn'] = <<>> /\ toClient'[conn'] = <<>> /\ hpc'[<<conn', s>>] = "none" /\ entry'[<<conn', s>>] = "none"
      BY <1>0, <1>1, <2>2, Zenon DEF Unmade, RxDial, routerVars
    <3>2. ~Framed(s, "sub")' /\ ~Has(toServer'[conn'], {s}) /\ Lone(toServer'[conn'], {s})
      BY <3>1, HasEmpty, Zenon DEF Framed
    <3>3. todo' = activesubs'
      BY <1>1, Zenon DEF RxDial, ToRegen
    <3> QED
      BY <3>1, <3>2, <3>3, Zenon DEF Kept
  <2> QED
    BY <2>3, <2>4, Zenon
<1>2. ASSUME Connected, UNCHANGED <<conn, serverVars, routerVars>>, \A s \in Subscribes : Kept(s) => Kept(s)'
      PROVE  conn' \notin over' /\ \A s \in Subscribes : Kept(s)'
  BY <1>2, Zenon DEF InStep, serverVars
<1>3. ASSUME NEW r \in Reqs, NEW cb, transact(r, cb),
             UNCHANGED <<toClient, conn, activesubs, panicked, serverVars, routerVars>>,
             rx # "dial", todo' \subseteq todo, called \subseteq called',
             ~Has(toServer[conn], {r}), hpc[<<conn, r>>] = "none", r \notin todo',
             r \notin called \/ r \in activesubs, todo \ {r} \subseteq todo'
      PROVE  conn' \notin over' /\ \A s \in Subscribes : Kept(s)'
  <2>1. Connected /\ toServer'[conn] = Append(toServer[conn], r)
    BY <1>0, <1>3, Zenon DEF Connected, transact, TypeOK, Links
  <2>2. ASSUME NEW s \in Subscribes, Kept(s) PROVE Kept(s)'
    <3>1. /\ Has(toServer'[conn], {s}) <=> Has(toServer[conn], {s}) \/ r = s
          /\ Lone(toServer'[conn], {s}) <=> Lone(toServer[conn], {s}) /\ ~(Has(toServer[conn], {s}) /\ r = s)
      <4> DEFINE q == toServer[conn]
      <4>1. q \in Seq(Reqs)
        BY <1>0, Zenon DEF TypeOK
      <4>2. toServer'[conn] = Append(q, r)
        BY <2>1, Zenon
      <4> HIDE DEF q
      <4>3. /\ Has(Append(q, r), {s}) <=> Has(q, {s}) \/ r \in {s}
            /\ Lone(Append(q, r), {s}) <=> Lone(q, {s}) /\ ~(Has(q, {s}) /\ r \in {s})
        BY <4>1, HasAppend, Zenon
      <4>4. /\ Has(toServer'[conn], {s}) <=> Has(q, {s}) \/ r = s
            /\ Lone(toServer'[conn], {s}) <=> Lone(q, {s}) /\ ~(Has(q, {s}) /\ r = s)
        BY <4>2, <4>3, Zenon
      <4> QED
        BY <4>4, Zenon DEF q
    <3>2. UNCHANGED <<hpc, entry, tree>> /\ (Framed(s, "sub")' <=> Framed(s, "sub"))
          /\ (Framed(s, "end")' <=> Framed(s, "end"))
      BY <1>3, Zenon DEF serverVars, routerVars, Framed
    <3>3. replyCB'[s] = replyCB[s] \/ r = s
      BY <1>0, <1>3, Zenon DEF transact, TypeOK
    <3> QED
      BY <1>3, <2>2, <3>1, <3>2, <3>3, Zenon DEF Kept
  <2> QED
    BY <1>2, <1>3, <2>1, <2>2, Zenon
<1>4. ASSUME NEW r \in Reqs, Call(r) PROVE conn' \notin over' /\ \A s \in Subscribes : Kept(s)'
  <2>1. ~Has(toServer[conn], {r}) /\ hpc[<<conn, r>>] = "none" /\ r \notin activesubs /\ r \notin called
    BY <1>0, <1>4, Zenon DEF Call, Uncalled, Fresh
  <2>2. rx # "dial" /\ r \notin todo
    BY <1>4, <2>1, Zenon DEF Call, Connected, TypeOK
  <2> QED
    BY <1>3, <1>4, <2>1, <2>2, Zenon DEF Call
<1>5. CASE RxRegen
  <2>1. ASSUME NEW s \in todo, transact(s, "filter"), todo' = todo \ {s}
        PROVE  conn' \notin over' /\ \A t \in Subscribes : Kept(t)'
    <3>1. s \in activesubs /\ s \in Subscribes /\ rx # "dial"
      BY <1>5, Zenon DEF TypeOK, RxRegen
    <3>2. Connected
      BY <1>0, <1>5, <2>1, Zenon DEF Connected, transact, RxRegen, TypeOK, Links
    <3>3. ~Has(toServer[conn], {s}) /\ hpc[<<conn, s>>] = "none"
      BY <2>1, <3>1, <3>2, Zenon DEF InStep, Kept
    <3> QED
      BY <1>0, <1>3, <1>5, <2>1, <3>1, <3>3, Zenon DEF RxRegen
  <2>2. CASE UNCHANGED <<todo, link, toServer, closed, replyCB, nils>>
    <3>1. Connected
      BY <1>5, <2>2, Zenon DEF Connected, RxRegen
    <3>2. UNCHANGED <<conn, serverVars, routerVars, toClient, activesubs, called>>
      BY <1>5, Zenon DEF RxRegen
    <3>3. ASSUME NEW s \in Subscribes, Kept(s) PROVE Kept(s)'
      BY <2>2, <3>2, <3>3, Zenon DEF Kept, Framed, serverVars, routerVars
    <3> QED
      BY <1>2, <3>1, <3>2, <3>3, Zenon
  <2> QED
    BY <1>5, <2>1, <2>2, Zenon DEF RxRegen
<1>6. ASSUME NEW r \in Reqs, NEW cb \in {"plain", "filter"}, NilCall(r, cb)
      PROVE  conn' \notin over' /\ \A s \in Subscribes : Kept(s)'
  <2>1. Connected /\ ~panicked'
    BY <1>6, Zenon DEF Connected, NilCall, netVars
  <2>2. \A s \in Subscribes : replyCB'[s] = replyCB[s]
    BY <1>0, <1>6, <2>1, SMTT(30) DEF NilCall, removeCB, Panic, TypeOK
  <2>3. UNCHANGED <<conn, serverVars, routerVars, toServer, toClient, activesubs, called, todo>>
    BY <1>6, Zenon DEF NilCall, netVars
  <2>4. ASSUME NEW s \in Subscribes, Kept(s) PROVE Kept(s)'
    BY <2>2, <2>3, <2>4, Zenon DEF Kept, Framed, serverVars, routerVars
  <2> QED
    BY <1>2, <2>1, <2>3, <2>4, Zenon
<1>7. CASE RxFrame
  <2>0. PICK f \in Frames, r \in Reqs : OnTop(r, f) /\ Moved(r, f)
    BY <1>7, FrameMoves, Zenon
  <2>1. /\ Connected /\ ~panicked' /\ r = f.req /\ conn' = conn
        /\ UNCHANGED <<todo, toServer, called, hpc, entry, tree, over>>
    BY <1>7, <2>0, Zenon DEF Connected, RxFrame, OnTop, serverVars, routerVars
  <2>2. ASSUME NEW s \in Subscribes, Kept(s) PROVE Kept(s)'
    <3>1. /\ Framed(s, "sub") <=> f \in As(s, "sub") \/ Framed(s, "sub")'
          /\ Framed(s, "end") <=> f \in As(s, "end") \/ Framed(s, "end")'
      BY <2>0, <2>1, FrameGoes, Zenon DEF Framed
    <3>2. \A cmd : f \in As(s, cmd) <=> r = s /\ f.cmd = cmd
      BY <2>1, Zenon DEF As
    <3>3. replyCB[s] # "none" => s \in called
      BY <1>0, Zenon DEF Uncalled, Fresh
    <3>4. s \in activesubs' => s \in activesubs \/ (r = s /\ f.cmd = "sub")
      BY <2>0, Zenon DEF Moved, Ignored, Decided, Accepted, Handed, Closed
    <3>5. s \notin activesubs /\ replyCB[s] = "none" => s \notin activesubs' /\ replyCB'[s] = "none"
      BY <1>0, <2>0, SMTT(30) DEF Moved, Ignored, Decided, Accepted, Handed, Closed, TypeOK
    <3>6. r = s /\ f.cmd = "end" => s \notin activesubs' /\ replyCB'[s] = "none" /\ s \in called
      BY <1>0, <2>0, <2>1, <3>3, PeersAssumption, SMTT(30) DEF Moved, Ignored, Decided, Accepted, Handed, Closed, TypeOK
    <3> QED
      BY <1>7, <2>1, <2>2, <3>1, <3>2, <3>4, <3>5, <3>6, ZenonT(30) DEF Kept
  <2> QED
    BY <2>1, <2>2, Zenon DEF InStep
<1>8. CASE Break
  BY <1>0, <1>8, Zenon DEF Break, Connected, clientVars, TypeOK
<1>9. CASE RxError
  BY <1>9, Zenon DEF RxError, Connected
<1> QED
  BY <1>1, <1>4, <1>5, <1>6, <1>7, <1>8, <1>9, Zenon DEF Rx

LEMMA InStepServer ==
  ASSUME TypeOK, Links, Later, Labels, InStep, plan' = plan, Connected',
         \/ \E n \in Conns : SrvRead(n) \/ SrvError(n) \/ Cleanup(n)
         \/ \E n \in Conns, r \in Reqs : Handle(n, r)
         \/ \E n \in Conns, s \in Subscribes : Entry(n, s)
  PROVE  conn' \notin over' /\ \A s \in Subscribes : Kept(s)'
<1>0. /\ conn \in Conns /\ (\A s \in Subscribes : s \in Reqs)
      /\ UNCHANGED <<link, conn, activesubs, todo, replyCB, called>>
      /\ Connected /\ link[conn] = "up" /\ conn \notin over /\ \A s \in Subscribes : Kept(s)
  BY ServerKeeps, SMTT(30) DEF clientVars, Connected, InStep, TypeOK, Reqs
<1>1. ASSUME NEW n \in Conns, SrvRead(n) PROVE conn' \notin over' /\ \A s \in Subscribes : Kept(s)'
  <2>1. UNCHANGED <<toClient, over, entry, tree>>
    BY <1>1, Zenon DEF SrvRead, routerVars
  <2>2. ASSUME NEW s \in Subscribes PROVE Kept(s)'
    <3>1. Kept(s) /\ s \in Reqs
      BY <1>0, Zenon
    <3>2. CASE n = conn /\ Head(toServer[n]) = s
      <4>1. Has(toServer[conn], {s}) /\ ~Has(toServer'[conn], {s}) /\ Lone(toServer'[conn], {s})
        BY <1>1, <3>1, <3>2, ReadTakes, Zenon DEF Kept
      <4>2. hpc'[<<conn, s>>] = "start" /\ hpc[<<conn, s>>] = "none"
        BY <1>1, <3>1, <3>2, <4>1, ReadAt, Zenon DEF Kept
      <4> QED
        BY <1>0, <2>1, <3>1, <4>1, <4>2, Zenon DEF Kept, Framed
    <3>3. CASE ~(n = conn /\ Head(toServer[n]) = s)
      <4>1. (Has(toServer'[conn], {s}) <=> Has(toServer[conn], {s})) /\ Lone(toServer'[conn], {s})
        BY <1>0, <1>1, <3>1, <3>3, ReadTakes, Zenon DEF Kept
      <4>2. hpc'[<<conn, s>>] = hpc[<<conn, s>>]
        <5>1. \A m \in Conns, q \in Reqs :
                hpc'[<<m, q>>] = IF m = n /\ q = Head(toServer[n]) THEN "start" ELSE hpc[<<m, q>>]
          BY <1>1, ReadAt, Zenon
        <5>2. conn \in Conns /\ s \in Reqs
          BY <1>0, <3>1, Zenon
        <5> QED
          BY <3>3, <5>1, <5>2, Zenon
      <4> QED
        BY <1>0, <2>1, <3>1, <4>1, <4>2, Zenon DEF Kept, Framed
    <3> QED
      BY <3>2, <3>3, Zenon
  <2> QED
    BY <1>0, <2>1, <2>2, Zenon
<1>2. ASSUME NEW n \in Conns, SrvError(n) PROVE conn' \notin over' /\ \A s \in Subscribes : Kept(s)'
  <2>1. n # conn
    BY <1>0, <1>2, Zenon DEF SrvError
  <2>2. toServer'[conn] = toServer[conn] /\ UNCHANGED <<toClient, hpc, entry, tree>> /\ over' = over \cup {n}
    BY <1>0, <1>2, <2>1, Zenon DEF SrvError, routerVars, TypeOK
  <2> QED
    BY <1>0, <2>1, <2>2, Zenon DEF Kept, Framed
<1>3. ASSUME NEW n \in Conns, Cleanup(n) PROVE conn' \notin over' /\ \A s \in Subscribes : Kept(s)'
  <2>1. n # conn /\ UNCHANGED <<toServer, toClient, hpc, entry, over>>
    BY <1>0, <1>3, Zenon DEF Cleanup, netVars, serverVars
  <2>2. \A s \in Subscribes : <<conn, s>> \in tree => <<conn, s>> \in tree'
    BY <1>3, <2>1, Zenon DEF Cleanup
  <2> QED
    BY <1>0, <2>1, <2>2, Zenon DEF Kept, Framed
\* What a frame for r on connection n leaves of Framed, and of over.
<1>4. ASSUME NEW n \in Conns, NEW r \in Reqs, NEW cmd \in {"ok", "err", "sub", "result", "end"},
             NEW of \in Publishes \cup {"none"}, reply(n, r, cmd, of)
      PROVE  /\ conn' \notin over'
             /\ \A s \in Subscribes : Framed(s, "sub")' => Framed(s, "sub") \/ (n = conn /\ r = s /\ cmd = "sub")
             /\ \A s \in Subscribes : Framed(s, "end") => Framed(s, "end")'
             /\ n = conn /\ cmd = "end" => Framed(r, "end")'
  <2> DEFINE f == [req |-> r, cmd |-> cmd, of |-> of]
  <2>1. f \in Frames /\ f.req = r /\ f.cmd = cmd
    BY Zenon DEF Frames
  <2>2. over' \in {over, over \cup {n}} /\ (link[n] = "up" => over' = over)
    BY <1>4, ReplyAt, Zenon
  <2>3. conn' \notin over'
    BY <1>0, <2>2, Zenon
  <2>4. ASSUME NEW s \in Subscribes, Framed(s, "sub")' PROVE Framed(s, "sub") \/ (n = conn /\ r = s /\ cmd = "sub")
    <3>1. Has(toClient'[conn], As(s, "sub"))
      BY <1>0, <2>4, Zenon DEF Framed
    <3>2. CASE f \notin As(s, "sub")
      BY <1>4, <3>1, <3>2, ReplyOther, Zenon DEF Framed
    <3>3. CASE f \in As(s, "sub")
      <4>1. r = s /\ cmd = "sub"
        BY <2>1, <3>3, Zenon DEF As
      <4> QED
        BY <1>4, <3>1, <4>1, ReplyAdds, Zenon DEF Framed
    <3> QED
      BY <3>2, <3>3, Zenon
  <2>5. ASSUME NEW s \in Subscribes, Framed(s, "end") PROVE Framed(s, "end")'
    BY <1>0, <1>4, <2>5, ReplyAdds, Zenon DEF Framed
  <2>6. ASSUME n = conn, cmd = "end" PROVE Framed(r, "end")'
    <3>1. f \in As(r, "end")
      BY <2>1, <2>6, Zenon DEF As
    <3>2. Has(toClient'[conn], As(r, "end"))
      BY <1>0, <1>4, <2>6, <3>1, ReplyAdds, Zenon
    <3> QED
      BY <1>0, <3>2, Zenon DEF Framed
  <2> QED
    BY <2>3, <2>4, <2>5, <2>6, Zenon
<1>5. ASSUME NEW n \in Conns, NEW r \in Reqs, Handle(n, r) PROVE conn' \notin over' /\ \A s \in Subscribes : Kept(s)'
  <2>0. /\ hpc[<<n, r>>] # "none" /\ hpc'[<<n, r>>] \notin {"none", "start"}
        /\ \A m \in Conns, q \in Reqs : ~(m = n /\ q = r) => hpc'[<<m, q>>] = hpc[<<m, q>>]
        /\ UNCHANGED toServer
    BY <1>5, HandleGoes, Zenon
  <2>1. CASE Reports(n, r)
    <3>1. PICK cmd \in {"ok", "err", "sub", "result", "end"}, label \in {"act", "last", "done"} :
            Reporting(n, r, cmd, label) /\ reply(n, r, cmd, "none") /\ hpc'[<<n, r>>] = label
      BY <2>1, AnsweringAt, Zenon
    <3>2. UNCHANGED <<entry, tree>>
      BY <2>1, AnsweringKeeps, Zenon DEF routerVars
    <3>3. /\ conn' \notin over'
          /\ \A s \in Subscribes : Framed(s, "sub")' => Framed(s, "sub") \/ (n = conn /\ r = s)
          /\ \A s \in Subscribes : Framed(s, "end") => Framed(s, "end")'
      BY <1>4, <3>1, ZenonT(30)
    <3>4. ASSUME NEW s \in Subscribes PROVE Kept(s)'
      <4>1. Kept(s) /\ s \in Reqs
        BY <1>0, Zenon
      <4>2. CASE n = conn /\ r = s
        <5>1. hpc[<<conn, s>>] # "start" \/ s \in plan.mayFail
          BY <3>1, <4>2, Zenon DEF Reporting
        <5> QED
          BY <1>0, <2>0, <3>2, <3>3, <4>1, <4>2, <5>1, Zenon DEF Kept
      <4>3. CASE ~(n = conn /\ r = s)
        <5>1. hpc'[<<conn, s>>] = hpc[<<conn, s>>]
          BY <1>0, <2>0, <4>1, <4>3, Zenon
        <5> QED
          BY <1>0, <2>0, <3>2, <3>3, <4>1, <4>3, <5>1, Zenon DEF Kept
      <4> QED
        BY <4>2, <4>3, Zenon
    <3> QED
      BY <3>3, <3>4, Zenon
  <2>2. ASSUME UNCHANGED <<toClient, over>>, NEW s \in Subscribes,
               entry'[<<conn, s>>] = "none" => entry[<<conn, s>>] = "none" /\ hpc'[<<conn, s>>] = hpc[<<conn, s>>],
               entry'[<<conn, s>>] = "live" => <<conn, s>> \in tree',
               entry'[<<conn, s>>] = "ended" => entry[<<conn, s>>] = "ended",
               hpc'[<<conn, s>>] \in {"none", "start"} => hpc'[<<conn, s>>] = hpc[<<conn, s>>],
               hpc[<<conn, s>>] = "none" => hpc'[<<conn, s>>] = "none"
        PROVE  Kept(s)'
    <3>1. Kept(s) /\ (Framed(s, "sub")' <=> Framed(s, "sub")) /\ (Framed(s, "end")' <=> Framed(s, "end"))
      BY <1>0, <2>2, Zenon DEF Framed
    <3> QED
      BY <1>0, <2>0, <2>2, <3>1, Zenon DEF Kept
  <2>3. \A s \in Subscribes : /\ hpc'[<<conn, s>>] \in {"none", "start"} => hpc'[<<conn, s>>] = hpc[<<conn, s>>]
                              /\ hpc[<<conn, s>>] = "none" => hpc'[<<conn, s>>] = "none"
    BY <1>0, <2>0, Zenon
  <2>4. CASE HandlePublish(n, r)
    <3>1. r \notin Subscribes /\ UNCHANGED <<toClient, over, tree>>
      BY <2>4, PeersAssumption, Zenon DEF HandlePublish, netVars
    <3>2. ASSUME NEW s \in Subscribes PROVE Kept(s)'
      <4>1. \/ entry'[<<conn, s>>] = entry[<<conn, s>>]
            \/ entry[<<conn, s>>] = "live" /\ entry'[<<conn, s>>] = "cancelled"
        BY <1>0, <2>4, PublishAt, ZenonT(30)
      <4>2. hpc'[<<conn, s>>] = hpc[<<conn, s>>] /\ Kept(s)
        BY <1>0, <2>0, <3>1, Zenon
      <4> QED
        BY <2>2, <2>3, <3>1, <4>1, <4>2, Zenon DEF Kept
    <3> QED
      BY <1>0, <3>1, <3>2, Zenon
  <2>5. CASE HandleSubscribe(n, r)
    <3>1. UNCHANGED <<toClient, over>>
      BY <2>5, Zenon DEF HandleSubscribe, netVars
    <3>2. ASSUME NEW s \in Subscribes PROVE Kept(s)'
      <4>1. /\ entry'[<<conn, s>>] = IF conn = n /\ s = r THEN "live" ELSE entry[<<conn, s>>]
            /\ <<conn, s>> \in tree' <=> <<conn, s>> \in tree \/ (conn = n /\ s = r)
        BY <1>0, <2>5, SubscribeAt, ZenonT(30)
      <4>2. Kept(s) /\ (~(conn = n /\ s = r) => hpc'[<<conn, s>>] = hpc[<<conn, s>>])
        BY <1>0, <2>0, Zenon
      <4> QED
        BY <2>2, <2>3, <3>1, <4>1, <4>2, Zenon DEF Kept
    <3> QED
      BY <1>0, <3>1, <3>2, Zenon
  <2>6. CASE HandleUnsubscribe(n, r)
    <3>1. r \notin Subscribes /\ UNCHANGED <<toClient, over>>
      BY <2>6, PeersAssumption, Zenon DEF HandleUnsubscribe, netVars
    <3>2. ASSUME NEW s \in Subscribes PROVE Kept(s)'
      <4>1. /\ entry'[<<conn, s>>] =
                 IF s = subOf[r] /\ s \in rstree /\ <<conn, s>> \in tree /\ entry[<<conn, s>>] = "live"
                 THEN "cancelled" ELSE entry[<<conn, s>>]
            /\ <<conn, s>> \in tree' <=> <<conn, s>> \in tree /\ ~(s \in rstree /\ s = subOf[r])
        BY <1>0, <2>6, UnsubscribeAt, Zenon
      <4>2. hpc'[<<conn, s>>] = hpc[<<conn, s>>] /\ Kept(s)
        BY <1>0, <2>0, <3>1, Zenon
      <4> QED
        BY <2>2, <2>3, <3>1, <4>1, <4>2, Zenon DEF Kept
    <3> QED
      BY <1>0, <3>1, <3>2, Zenon
  <2> QED
    BY <1>5, <2>1, <2>4, <2>5, <2>6, Zenon DEF Handle, Reports
<1>6. ASSUME NEW n \in Conns, NEW t \in Subscribes, Entry(n, t)
      PROVE  conn' \notin over' /\ \A s \in Subscribes : Kept(s)'
  <2>0. UNCHANGED <<toServer, hpc>> /\ t \in Reqs
    BY <1>0, <1>6, ServerKeeps, Zenon
  <2>1. CASE Dispatch(n, t)
    <3>1. Head(queue[<<n, t>>]) \in Publishes \cup {"none"}
      BY <2>1, TailType, SMTT(30) DEF TypeOK, Dispatch
    <3>2. reply(n, t, "result", Head(queue[<<n, t>>])) /\ UNCHANGED <<entry, tree>>
      BY <2>1, Zenon DEF Dispatch
    <3>3. /\ conn' \notin over'
          /\ \A s \in Subscribes : Framed(s, "sub")' => Framed(s, "sub")
          /\ \A s \in Subscribes : Framed(s, "end") => Framed(s, "end")'
      BY <1>4, <2>0, <3>1, <3>2
    <3> QED
      BY <1>0, <2>0, <3>2, <3>3, ZenonT(30) DEF Kept
  <2>2. CASE DispatchDone(n, t)
    <3>1. UNCHANGED <<toClient, over>> /\ Remove(t)
      BY <2>2, Zenon DEF DispatchDone, netVars, serverVars
    <3>2. ASSUME NEW s \in Subscribes
          PROVE  /\ entry[<<conn, s>>] # "none" => entry'[<<conn, s>>] # "none"
                 /\ entry'[<<conn, s>>] = "live" => entry[<<conn, s>>] = "live" /\ (<<conn, s>> \in tree => <<conn, s>> \in tree')
                 /\ entry'[<<conn, s>>] = "ended" => entry[<<conn, s>>] = "ended"
      <4>1. entry'[<<conn, s>>] = "ending" \/ entry'[<<conn, s>>] = Unsubscribed(t)[<<conn, s>>]
        <5>1. \A m \in Conns, u \in Subscribes :
                entry'[<<m, u>>] = IF m = n /\ u = t THEN "ending" ELSE Unsubscribed(t)[<<m, u>>]
          BY <2>2, DoneAt, ZenonT(30)
        <5>2. conn \in Conns
          BY <1>0, Zenon
        <5> QED
          BY <5>1, <5>2, Zenon
      <4>2. /\ Unsubscribed(t)[<<conn, s>>] =
                 IF t \in rstree /\ <<conn, s>> \in tree /\ s = t /\ entry[<<conn, s>>] = "live"
                 THEN "cancelled" ELSE entry[<<conn, s>>]
            /\ <<conn, s>> \in tree' <=> <<conn, s>> \in tree /\ ~(t \in rstree /\ s = t)
        BY <1>0, <3>1, RemoveAt, ZenonT(30)
      <4> QED
        BY <4>1, <4>2, Zenon
    <3> QED
      BY <1>0, <2>0, <3>1, <3>2, Zenon DEF Kept, Framed
  <2>3. CASE DispatchEnd(n, t)
    <3>1. reply(n, t, "end", "none") /\ UNCHANGED tree
      BY <2>3, Zenon DEF DispatchEnd
    <3>2. /\ conn' \notin over'
          /\ \A s \in Subscribes : Framed(s, "sub")' => Framed(s, "sub")
          /\ \A s \in Subscribes : Framed(s, "end") => Framed(s, "end")'
          /\ n = conn => Framed(t, "end")'
      BY <1>4, <2>0, <3>1, Zenon
    <3>3. \A s \in Subscribes : entry'[<<conn, s>>] = IF conn = n /\ s = t THEN "ended" ELSE entry[<<conn, s>>]
      <4>1. \A m \in Conns, u \in Subscribes :
              entry'[<<m, u>>] = IF m = n /\ u = t THEN "ended" ELSE entry[<<m, u>>]
        BY <2>3, EndAt, ZenonT(30)
      <4>2. conn \in Conns
        BY <1>0, Zenon
      <4> QED
        BY <4>1, <4>2, Zenon
    <3> QED
      BY <1>0, <2>0, <3>1, <3>2, <3>3, ZenonT(30) DEF Kept
  <2> QED
    BY <1>6, <2>1, <2>2, <2>3, Zenon DEF Entry
<1> QED
  BY <1>1, <1>2, <1>3, <1>5, <1>6, ZenonT(30)

LEMMA InStepStep ==
  TypeOK /\ Links /\ Later /\ Labels /\ Uncalled /\ InStep /\ [Next]_vars => InStep'
<1> SUFFICES ASSUME TypeOK, Links, Later, Labels, Uncalled, InStep, [Next]_vars, Connected'
             PROVE  conn' \notin over' /\ \A s \in Subscribes : Kept(s)'
  BY Zenon DEF InStep
<1>1. CASE UNCHANGED vars
  BY <1>1, Zenon DEF InStep, Connected, Kept, Framed, vars, netVars, clientVars, serverVars, routerVars
<1> QED
  BY <1>1, InStepClient, InStepServer, Zenon DEF Next, Run

-----------------------------------------------------------------------------
(* The theorems *)

LEMMA InitIInv == Init => IInv
<1> SUFFICES ASSUME Init PROVE IInv
  OBVIOUS
<1>1. TypeOK
  BY InitType, Zenon
<1>2. Links
  BY PlanType, PeersAssumption, SMTT(30) DEF Init, Links, Conns
<1>3. Later /\ SubFrames /\ Labels
  BY PeersAssumption, SMTT(30) DEF Init, Later, Unmade, SubFrames, Labels, Conns
<1>4. Uncalled
  BY HasEmpty, Zenon DEF Init, Uncalled, Fresh
<1>5. Once
  BY HasEmpty, Zenon DEF Init, Once, OneCopy, Reqs
<1>0. /\ conn = 1 /\ 1 \in Conns /\ Publishes \subseteq Reqs
      /\ toServer[1] = <<>> /\ toClient[1] = <<>>
  BY PeersAssumption DEF Init, Conns, Reqs
<1>6. ASSUME NEW p \in Publishes PROVE Verdict(p)
  <2>1. replyCB[p] = "none" /\ nils[p]["filter"] = 0 /\ nils[p]["plain"] = 0 /\ answers[p] = <<>>
    BY <1>0, Zenon DEF Init
  <2>2. hpc[<<conn, p>>] = "none"
    BY <1>0, Zenon DEF Init
  <2> QED
    BY <1>0, <2>1, <2>2, HasEmpty, Zenon DEF Verdict
<1>7. ASSUME NEW s \in Subscribes, NEW p \in Publishes PROVE Place(s, p)
  <2>1. log[s] = <<>> /\ queue[<<conn, s>>] = <<>>
    BY <1>0, Zenon DEF Init
  <2> QED
    BY <1>0, <2>1, HasEmpty, Zenon DEF Place
<1>8. Ended
  BY DEF Init, Ended
<1>9. InStep
  <2>1. conn \notin over
    BY Zenon DEF Init
  <2>2. ASSUME NEW s \in Subscribes PROVE Kept(s)
    <3>1. s \notin activesubs /\ s \notin todo
      BY Zenon DEF Init
    <3>2. s \in Reqs
      BY Zenon DEF Reqs
    <3>3. hpc[<<conn, s>>] = "none" /\ entry[<<conn, s>>] = "none"
      BY <1>0, <3>2, Zenon DEF Init
    <3>4. ~Has(toServer[conn], {s}) /\ Lone(toServer[conn], {s}) /\ ~Framed(s, "sub")
      BY <1>0, HasEmpty, Zenon DEF Framed
    <3> QED
      BY <3>1, <3>3, <3>4, Zenon DEF Kept
  <2> QED
    BY <2>1, <2>2, Zenon DEF InStep
<1> QED
  BY <1>1, <1>2, <1>3, <1>4, <1>5, <1>6, <1>7, <1>8, <1>9, Zenon DEF IInv, Verdicts, Single

LEMMA StepIInv == IInv /\ [Next]_vars => IInv'
BY TypeStep, LinksStep, LaterStep, SubFramesStep, LabelsStep, UncalledStep, OnceStep, VerdictsStep, SingleStep,
   EndedStep, InStepStep, ZenonT(30) DEF IInv

\* What the four theorems below follow from.
THEOREM Invariant == Spec => []IInv
BY InitIInv, StepIInv, PTL DEF Spec

\* Every step of client, server and router keeps its state in its types: rxloop
\* looks up callbacks of requests only, and only subscriptions become active.
THEOREM TypeCorrect == Spec => []TypeOK
<1>1. IInv => TypeOK
  BY Zenon DEF IInv
<1> QED
  BY <1>1, Invariant, PTL

\* However often the connection breaks, the callback that Subscribe registers
\* gets a publication at most once, and nothing after the end: regenSubs makes a
\* subscription again on a connection whose queue and frames are empty, and
\* OnEnd takes the callback out.
THEOREM DeliveryIsSingle == Spec => []DeliveredOnce
<1>1. IInv => DeliveredOnce
  <2>1. ASSUME IInv, NEW s \in Subscribes, NEW i \in DOMAIN log[s], NEW j \in DOMAIN log[s],
               log[s][i] \in Publishes, log[s][i] = log[s][j]
        PROVE  i = j
    <3>1. Lone(log[s], {log[s][i]})
      BY <2>1, Zenon DEF IInv, Single, Place
    <3> QED
      BY <2>1, <3>1, Zenon DEF Lone
  <2>2. ASSUME IInv, NEW s \in Subscribes, NEW i \in DOMAIN log[s], log[s][i] = "end"
        PROVE  i = Len(log[s])
    BY <2>2, Zenon DEF IInv, Ended
  <2> QED
    BY <2>1, <2>2, Zenon DEF DeliveredOnce
<1> QED
  BY <1>1, Invariant, PTL

\* A publication is made at most once, and one that PublishPersist reported as
\* a success is made and not reported again, though transact, rxloop and the
\* server's frame may each answer it.
THEOREM VerdictIsSingle == Spec => []OneVerdict
<1>1. IInv => OneVerdict
  <2> SUFFICES ASSUME IInv, NEW p \in Publishes
               PROVE  /\ Under("ok", answers[p]) => Len(answers[p]) = 1 /\ MadeOrWill(p)
                      /\ published[p] <= 1
    BY Zenon DEF OneVerdict, MadeOrWill
  <2>1. Verdict(p) /\ OneCopy(p)
    BY Zenon DEF IInv, Verdicts, Once
  <2>2. published[p] <= 1
    <3>1. published[p] = 0 \/ published[p] = 1
      BY <2>1, Zenon DEF OneCopy
    <3> QED
      BY <3>1
  <2>3. Under("ok", answers[p]) => Len(answers[p]) = 1 /\ MadeOrWill(p)
    BY <2>1, Zenon DEF Verdict, Has, Under
  <2> QED
    BY <2>2, <2>3, Zenon
<1> QED
  BY <1>1, Invariant, PTL

\* While rxloop reads from a connection that holds, every subscription that the
\* client has in activesubs and the server does not refuse is subscribed there,
\* on its way there, or its end is on its way back, whatever the end of an older
\* session does to the ids it shares.
THEOREM LossIsReported == Spec => []NoSilentLoss
<1>1. IInv => NoSilentLoss
  <2> SUFFICES ASSUME IInv, ~panicked, rx = "read", link[conn] = "up", conn \notin closed,
                      NEW s \in activesubs \ plan.mayFail
               PROVE  \/ Under(s, toServer[conn]) \/ hpc[<<conn, s>>] = "start"
                      \/ entry[<<conn, s>>] = "live" /\ <<conn, s>> \in tree
                      \/ entry[<<conn, s>>] \in {"cancelled", "ending"}
                      \/ \E i \in DOMAIN toClient[conn] :
                           toClient[conn][i].req = s /\ toClient[conn][i].cmd = "end"
    BY Zenon DEF NoSilentLoss
  <2>1. s \in Subscribes /\ conn \in Conns /\ todo = {}
    BY Zenon DEF IInv, TypeOK, Links
  <2>2. Kept(s)
    BY <2>1, Zenon DEF IInv, InStep, Connected
  <2>3. entry[<<conn, s>>] \in {"none", "live", "cancelled", "ending", "ended"}
    BY <2>1, Zenon DEF IInv, TypeOK
  <2>4. Has(toServer[conn], {s}) => Under(s, toServer[conn])
    BY Zenon DEF Has, Under
  <2>5. Framed(s, "end") => \E i \in DOMAIN toClient[conn] :
                              toClient[conn][i].req = s /\ toClient[conn][i].cmd = "end"
    BY Zenon DEF Framed, Has, As
  <2>6. CASE Has(toServer[conn], {s}) \/ hpc[<<conn, s>>] = "start"
    BY <2>4, <2>6, Zenon
  <2>7. CASE hpc[<<conn, s>>] \notin {"none", "start"}
    <3>1. entry[<<conn, s>>] # "none"
      BY <2>2, <2>7, Zenon DEF Kept
    <3>2. entry[<<conn, s>>] = "live" => <<conn, s>> \in tree
      BY <2>2, Zenon DEF Kept
    <3>3. entry[<<conn, s>>] = "ended" => Framed(s, "end")
      BY <2>2, Zenon DEF Kept
    <3> QED
      BY <2>3, <2>5, <3>1, <3>2, <3>3, Zenon
  <2> QED
    BY <2>1, <2>2, <2>6, <2>7, Zenon DEF Kept
<1> QED
  BY <1>1, Invariant, PTL

=============================================================================
