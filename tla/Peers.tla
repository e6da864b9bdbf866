------------------------------- MODULE Peers --------------------------------
(***************************************************************************)
(* A PeerClient and the sessions of the router it talks to                 *)
(* (api/peerclient.go, api/peerserver.go): requests with sequence numbers, *)
(* reply callbacks, a connection that breaks and is dialled again, and the *)
(* subscriptions that are made again after that.                           *)
(*                                                                         *)
(* A request stands for its sequence number, which getSeqno never hands    *)
(* out twice.  Connection n is the n-th that reconnectPeer got through;    *)
(* TCP keeps the order of what it carries and loses what is under way when *)
(* it breaks.  The router behind the server is the part of Terminus that   *)
(* sessions use: a subscription is known by the id of its message, which   *)
(* is the same each time it is made.  Sessions are never shared, but the   *)
(* ids are, so the end of an old session reaches the new one's.            *)
(***************************************************************************)
EXTENDS Naturals, Sequences

CONSTANTS Publishes,     \* requests, by the call that makes them
          Subscribes,
          Unsubscribes,
          Queries,       \* List and Query
          subOf,         \* the subscription that an Unsubscribe names
          Plans,         \* what happens: the calls programs make, those the
                         \* server may refuse, how often a connection is made
          MaxConns       \* bound: the highest of these

Reqs == Publishes \cup Subscribes \cup Unsubscribes \cup Queries
Conns == 1 .. MaxConns
Frames == [req : Reqs, cmd : {"ok", "err", "sub", "result", "end"}, of : Publishes \cup {"none"}]

ASSUME PeersAssumption ==
  /\ subOf \in [Unsubscribes -> Subscribes]
  /\ Plans \subseteq [calls : SUBSET Reqs, mayFail : SUBSET Reqs, conns : Conns]
  /\ MaxConns \in Nat \ {0}
  /\ "end" \notin Publishes /\ "none" \notin Publishes
  /\ Publishes \cap (Subscribes \cup Unsubscribes \cup Queries) = {}
  /\ Subscribes \cap (Unsubscribes \cup Queries) = {} /\ Unsubscribes \cap Queries = {}

VARIABLES plan,        \* which of Plans this is
          link,        \* connections: not made, up, or cut
          toServer,    \* frames under way
          toClient,
          conn,        \* client: the connection in pc.conn
          closed,      \* client: connections it has closed
          replyCB,     \* client: what answers to a sequence number
          activesubs,  \* client: subscriptions to make again
          rx,          \* client: where rxloop is
          todo,        \* client: subscriptions regenSubs has yet to send
          nils,        \* client: goroutines about to call back with nil
          called,      \* client: requests made
          answers,     \* client: what actionCB was called with
          log,         \* client: what messageCB was called with
          panicked,    \* client: a nil frame or a nil callback was used
          over,        \* server: sessions whose context is cancelled
          reading,     \* server: sessions that still read
          hpc,         \* server: the goroutine of a request on a session
          entry,       \* router: the subscription of a session
          queue,       \* router: publications it has yet to hand over
          tree,        \* router: entries that Publish finds
          rstree,      \* router: ids that Unsubscribe finds
          cleaned,     \* router: sessions whose cleanup has run
          published    \* router: publications that were made

netVars == <<link, toServer, toClient>>
clientVars == <<conn, closed, replyCB, activesubs, rx, todo, nils, called, answers, log, panicked>>
routerVars == <<entry, queue, tree, rstree, cleaned, published>>
serverVars == <<over, reading, hpc>>
vars == <<plan, netVars, clientVars, serverVars, routerVars>>

TypeOK ==
  /\ plan \in Plans
  /\ link \in [Conns -> {"none", "up", "cut"}]
  /\ toServer \in [Conns -> Seq(Reqs)] /\ toClient \in [Conns -> Seq(Frames)]
  /\ conn \in Conns /\ closed \subseteq Conns
  /\ replyCB \in [Reqs -> {"none", "plain", "filter"}]
  /\ activesubs \subseteq Subscribes /\ todo \subseteq activesubs
  /\ rx \in {"read", "dial", "regen"}
  /\ nils \in [Reqs -> [{"plain", "filter"} -> Nat]]
  /\ called \subseteq Reqs
  /\ answers \in [Reqs -> Seq({"ok", "err"})]
  /\ log \in [Subscribes \cup Queries -> Seq(Publishes \cup {"none", "end"})]
  /\ panicked \in BOOLEAN
  /\ over \subseteq Conns /\ reading \subseteq Conns
  /\ hpc \in [Conns \X Reqs -> {"none", "start", "act", "ok", "err", "last", "done"}]
  /\ entry \in [Conns \X Subscribes -> {"none", "live", "cancelled", "ending", "ended"}]
  /\ queue \in [Conns \X Subscribes -> Seq(Publishes)]
  /\ tree \subseteq Conns \X Subscribes /\ rstree \subseteq Subscribes
  /\ cleaned \subseteq Conns /\ published \in [Publishes -> Nat]

\* ConnectToPeer has dialled the first connection and started rxloop.
Init ==
  /\ plan \in Plans
  /\ link = [n \in Conns |-> IF n = 1 THEN "up" ELSE "none"]
  /\ toServer = [n \in Conns |-> <<>>] /\ toClient = [n \in Conns |-> <<>>]
  /\ conn = 1 /\ closed = {}
  /\ replyCB = [r \in Reqs |-> "none"]
  /\ activesubs = {} /\ todo = {} /\ rx = "read"
  /\ nils = [r \in Reqs |-> [k \in {"plain", "filter"} |-> 0]]
  /\ called = {} /\ answers = [r \in Reqs |-> <<>>]
  /\ log = [r \in Subscribes \cup Queries |-> <<>>]
  /\ panicked = FALSE
  /\ over = {} /\ reading = {1}
  /\ hpc = [x \in Conns \X Reqs |-> "none"]
  /\ entry = [x \in Conns \X Subscribes |-> "none"]
  /\ queue = [x \in Conns \X Subscribes |-> <<>>]
  /\ tree = {} /\ rstree = {} /\ cleaned = {}
  /\ published = [p \in Publishes |-> 0]

-----------------------------------------------------------------------------
(* The connection *)

\* The last connection within the bound holds while the client does.
Break ==
  /\ link[conn] = "up" /\ conn < plan.conns
  /\ link' = [link EXCEPT ![conn] = "cut"]
  /\ UNCHANGED <<toServer, toClient, clientVars, serverVars, routerVars>>

-----------------------------------------------------------------------------
(* The client *)

Spawn(r, cb) == nils' = [nils EXCEPT ![r][cb] = @ + 1]

\* A write to a connection that broke may go into a buffer, or fail: then it
\* is closed and the callback gets nil from a goroutine of its own.
transact(r, cb) ==
  /\ replyCB' = [replyCB EXCEPT ![r] = cb]
  /\ \/ /\ link[conn] = "up" /\ conn \notin closed
        /\ toServer' = [toServer EXCEPT ![conn] = Append(@, r)]
        /\ UNCHANGED <<link, closed, nils>>
     \/ /\ link[conn] = "cut" /\ conn \notin closed
        /\ UNCHANGED <<link, toServer, closed, nils>>
     \/ /\ link[conn] = "cut" \/ conn \in closed
        /\ closed' = closed \cup {conn}
        /\ Spawn(r, cb)
        /\ UNCHANGED <<link, toServer>>

\* PublishPersist, Subscribe, Unsubscribe, List and Query; the id that an
\* Unsubscribe names is the answer to the Subscribe.
Call(r) ==
  /\ ~panicked /\ r \in plan.calls \ called
  /\ r \in Unsubscribes => answers[subOf[r]] # <<>> /\ Head(answers[subOf[r]]) = "ok"
  /\ called' = called \cup {r}
  /\ transact(r, "plain")
  /\ UNCHANGED <<toClient, conn, activesubs, rx, todo, answers, log, panicked, serverVars, routerVars>>

Answer(r, what) == answers' = [answers EXCEPT ![r] = Append(@, what)]
Hand(r, what) == log' = [log EXCEPT ![r] = Append(@, what)]
removeCB(r) == replyCB' = [replyCB EXCEPT ![r] = "none"]
Panic == panicked' = TRUE

\* bug: the callback stays registered
OnVerdictKept(r, f) == Answer(r, IF f.cmd = "ok" THEN "ok" ELSE "err") /\ UNCHANGED replyCB

\* The one answer to a PublishPersist or an Unsubscribe.
OnVerdict(r, f) == Answer(r, IF f.cmd = "ok" THEN "ok" ELSE "err") /\ removeCB(r)

\* bug: a subscription that ended stays active
OnEndKept(r) == Hand(r, "end") /\ UNCHANGED <<replyCB, activesubs>>

OnEnd(r) == activesubs' = activesubs \ {r} /\ Hand(r, "end") /\ removeCB(r)

\* What the callback of r does with a frame.  That of a subscription made
\* again lets only results and the end through.
OnFrame(r, f) ==
  \/ /\ replyCB[r] = "none" /\ Panic
     /\ UNCHANGED <<replyCB, activesubs, answers, log>>
  \/ /\ replyCB[r] # "none" /\ r \in Publishes \cup Unsubscribes
     /\ OnVerdict(r, f)
     /\ UNCHANGED <<activesubs, log, panicked>>
  \/ /\ replyCB[r] = "filter" /\ f.cmd \notin {"result", "end"}
     /\ UNCHANGED <<replyCB, activesubs, answers, log, panicked>>
  \/ /\ replyCB[r] = "plain" /\ r \in Subscribes \cup Queries /\ f.cmd \in {"ok", "err", "sub"}
     /\ Answer(r, IF f.cmd = "err" THEN "err" ELSE "ok")
     /\ activesubs' = IF f.cmd = "sub" THEN activesubs \cup {r} ELSE activesubs
     /\ UNCHANGED <<replyCB, log, panicked>>
  \/ /\ replyCB[r] # "none" /\ r \in Subscribes \cup Queries /\ f.cmd = "result"
     /\ Hand(r, f.of)
     /\ UNCHANGED <<replyCB, activesubs, answers, panicked>>
  \/ /\ replyCB[r] # "none" /\ r \in Subscribes \cup Queries /\ f.cmd = "end"
     /\ OnEnd(r)
     /\ UNCHANGED <<answers, panicked>>

\* rxloop reads a frame, looks its callback up and calls it.
RxFrame ==
  /\ ~panicked /\ rx = "read" /\ conn \notin closed /\ toClient[conn] # <<>>
  /\ LET f == Head(toClient[conn]) IN OnFrame(f.req, f)
  /\ toClient' = [toClient EXCEPT ![conn] = Tail(@)]
  /\ UNCHANGED <<link, toServer, conn, closed, rx, todo, nils, called, serverVars, routerVars>>

Broadcast(cbs) ==
  nils' = [r \in Reqs |-> [k \in {"plain", "filter"} |-> nils[r][k] + IF cbs[r] = k THEN 1 ELSE 0]]

\* bug: only the callbacks of subscriptions made again are told
LossSilent == Broadcast([r \in Reqs |-> IF replyCB[r] = "filter" THEN "filter" ELSE "none"])

Loss == Broadcast(replyCB)

\* The read fails, what was under way is lost, and every callback there is
\* gets nil.
RxError ==
  /\ ~panicked /\ rx = "read" /\ (link[conn] = "cut" \/ conn \in closed)
  /\ closed' = closed \cup {conn}
  /\ link' = [link EXCEPT ![conn] = "cut"]
  /\ Loss
  /\ toClient' = [toClient EXCEPT ![conn] = <<>>]
  /\ rx' = "dial"
  /\ UNCHANGED <<toServer, conn, replyCB, activesubs, todo, called, answers, log, panicked,
                 serverVars, routerVars>>

\* bug: every subscription with a callback is made again
ToRegenAll == {s \in Subscribes : replyCB[s] # "none"}

ToRegen == activesubs

\* reconnectPeer gets through, and Start begins a session for it.
RxDial ==
  /\ ~panicked /\ rx = "dial" /\ conn < plan.conns
  /\ conn' = conn + 1
  /\ link' = [link EXCEPT ![conn + 1] = "up"]
  /\ reading' = reading \cup {conn + 1}
  /\ rx' = "regen" /\ todo' = ToRegen
  /\ UNCHANGED <<toServer, toClient, closed, replyCB, activesubs, nils, called, answers, log, panicked,
                 over, hpc, routerVars>>

\* regenSubs sends what is active again, in the order of the map.
RxRegen ==
  /\ ~panicked /\ rx = "regen"
  /\ \/ \E s \in todo : transact(s, "filter") /\ todo' = todo \ {s} /\ UNCHANGED rx
     \/ todo = {} /\ rx' = "read" /\ UNCHANGED <<todo, link, toServer, closed, replyCB, nils>>
  /\ UNCHANGED <<toClient, conn, activesubs, called, answers, log, panicked, serverVars, routerVars>>

\* A callback that gets nil: only those of PublishPersist and Subscribe look.
NilCall(r, cb) ==
  /\ ~panicked /\ nils[r][cb] > 0
  /\ nils' = [nils EXCEPT ![r][cb] = @ - 1]
  /\ \/ r \in Publishes /\ Answer(r, "err") /\ removeCB(r) /\ UNCHANGED panicked
     \/ r \in Subscribes /\ cb = "plain" /\ UNCHANGED <<answers, replyCB, panicked>>
     \/ (r \in Unsubscribes \cup Queries \/ cb = "filter") /\ Panic /\ UNCHANGED <<answers, replyCB>>
  /\ UNCHANGED <<netVars, conn, closed, activesubs, rx, todo, called, log, serverVars, routerVars>>

-----------------------------------------------------------------------------
(* The server *)

\* reply: a frame for a connection that broke may go into a buffer, or the
\* write fails and the session's context is cancelled.
reply(n, r, cmd, of) ==
  \/ /\ link[n] = "up"
     /\ toClient' = [toClient EXCEPT ![n] = Append(@, [req |-> r, cmd |-> cmd, of |-> of])]
     /\ UNCHANGED over
  \/ /\ link[n] = "cut"
     /\ over' \in {over, over \cup {n}}
     /\ UNCHANGED toClient

SrvRead(n) ==
  /\ n \in reading /\ toServer[n] # <<>>
  /\ toServer' = [toServer EXCEPT ![n] = Tail(@)]
  /\ hpc' = [hpc EXCEPT ![<<n, Head(toServer[n])>>] = "start"]
  /\ UNCHANGED <<link, toClient, clientVars, over, reading, routerVars>>

SrvError(n) ==
  /\ n \in reading /\ link[n] = "cut"
  /\ reading' = reading \ {n}
  /\ over' = over \cup {n}
  /\ toServer' = [toServer EXCEPT ![n] = <<>>]
  /\ UNCHANGED <<link, toClient, clientVars, hpc, routerVars>>

Goto(n, r, label) == hpc' = [hpc EXCEPT ![<<n, r>>] = label]
Answering(n, r, cmd, of, label) ==
  /\ reply(n, r, cmd, of) /\ Goto(n, r, label)
  /\ UNCHANGED <<link, toServer, clientVars, reading, routerVars>>

\* A message that does not load, verify or belong here is refused.
HandleRefuse(n, r) ==
  hpc[<<n, r>>] = "start" /\ r \in plan.mayFail /\ Answering(n, r, "err", "none", "done")

\* Publications and queries are answered before they are carried out.
HandleStatus(n, r) ==
  /\ hpc[<<n, r>>] = "start" /\ r \in Publishes \cup Queries
  /\ Answering(n, r, "ok", "none", "act")

\* The queue of a subscription that has something in it may be full, which
\* cancels the subscription.
HandlePublish(n, p) ==
  /\ hpc[<<n, p>>] = "act" /\ p \in Publishes
  /\ Goto(n, p, "done")
  /\ published' = [published EXCEPT ![p] = @ + 1]
  /\ \E full \in SUBSET {x \in tree : queue[x] # <<>>} :
       /\ queue' = [x \in DOMAIN queue |-> IF x \in tree \ full THEN Append(queue[x], p) ELSE queue[x]]
       /\ entry' = [x \in DOMAIN entry |->
                      IF x \in full /\ entry[x] = "live" THEN "cancelled" ELSE entry[x]]
  /\ UNCHANGED <<netVars, clientVars, over, reading, tree, rstree, cleaned>>

HandleSubscribe(n, s) ==
  /\ hpc[<<n, s>>] = "start" /\ s \in Subscribes
  /\ Goto(n, s, "act")
  /\ entry' = [entry EXCEPT ![<<n, s>>] = "live"]
  /\ tree' = tree \cup {<<n, s>>} /\ rstree' = rstree \cup {s}
  /\ UNCHANGED <<netVars, clientVars, over, reading, queue, cleaned, published>>

HandleSubscribed(n, s) ==
  hpc[<<n, s>>] = "act" /\ s \in Subscribes /\ Answering(n, s, "sub", "none", "done")

HandleQuery(n, q) ==
  /\ q \in Queries
  /\ \/ hpc[<<n, q>>] = "act" /\ Answering(n, q, "result", "none", "last")
     \/ hpc[<<n, q>>] \in {"act", "last"} /\ Answering(n, q, "end", "none", "done")

\* Client.Unsubscribe takes out every entry with the id, whichever session
\* made it, and cancels it.
Unsubscribed(s) ==
  IF s \in rstree
  THEN [x \in DOMAIN entry |->
          IF x \in tree /\ x[2] = s /\ entry[x] = "live" THEN "cancelled" ELSE entry[x]]
  ELSE entry
Remove(s) ==
  /\ tree' = IF s \in rstree THEN {x \in tree : x[2] # s} ELSE tree
  /\ rstree' = rstree \ {s}

HandleUnsubscribe(n, u) ==
  /\ hpc[<<n, u>>] = "start" /\ u \in Unsubscribes
  /\ Goto(n, u, IF subOf[u] \in rstree THEN "ok" ELSE "err")
  /\ entry' = Unsubscribed(subOf[u])
  /\ Remove(subOf[u])
  /\ UNCHANGED <<netVars, clientVars, over, reading, queue, cleaned, published>>

HandleUnsubscribed(n, u) ==
  \E cmd \in {"ok", "err"} : hpc[<<n, u>>] = cmd /\ Answering(n, u, cmd, "none", "done")

\* The dispatch goroutine of a subscription hands over what is queued ...
Dispatch(n, s) ==
  /\ entry[<<n, s>>] = "live" /\ n \notin over /\ queue[<<n, s>>] # <<>>
  /\ queue' = [queue EXCEPT ![<<n, s>>] = Tail(@)]
  /\ reply(n, s, "result", Head(queue[<<n, s>>]))
  /\ UNCHANGED <<link, toServer, clientVars, reading, hpc, entry, tree, rstree, cleaned, published>>

\* bug: the entry goes and its owner is not told
EndingSilent(n, s) == [Unsubscribed(s) EXCEPT ![<<n, s>>] = "ended"]

Ending(n, s) == [Unsubscribed(s) EXCEPT ![<<n, s>>] = "ending"]

\* ... and when its context is done unsubscribes the id and sends the end.
DispatchDone(n, s) ==
  /\ entry[<<n, s>>] = "cancelled" \/ (entry[<<n, s>>] = "live" /\ n \in over)
  /\ entry' = Ending(n, s)
  /\ Remove(s)
  /\ UNCHANGED <<netVars, clientVars, serverVars, queue, cleaned, published>>

DispatchEnd(n, s) ==
  /\ entry[<<n, s>>] = "ending"
  /\ entry' = [entry EXCEPT ![<<n, s>>] = "ended"]
  /\ reply(n, s, "end", "none")
  /\ UNCHANGED <<link, toServer, clientVars, reading, hpc, queue, tree, rstree, cleaned, published>>

\* The cleanup goroutine drops the session's entries, and the ids of its
\* subscriptions even if a newer session has them by now.
Cleanup(n) ==
  /\ n \in over \ cleaned
  /\ cleaned' = cleaned \cup {n}
  /\ tree' = {x \in tree : ~(x[1] = n /\ x[2] \in rstree)}
  /\ rstree' = rstree \ {s \in Subscribes : entry[<<n, s>>] # "none"}
  /\ UNCHANGED <<netVars, clientVars, serverVars, entry, queue, published>>

-----------------------------------------------------------------------------

Handle(n, r) ==
  \/ HandleRefuse(n, r) \/ HandleStatus(n, r) \/ HandlePublish(n, r)
  \/ HandleSubscribe(n, r) \/ HandleSubscribed(n, r) \/ HandleQuery(n, r)
  \/ HandleUnsubscribe(n, r) \/ HandleUnsubscribed(n, r)

Rx == RxFrame \/ RxError \/ RxDial \/ RxRegen
Entry(n, s) == Dispatch(n, s) \/ DispatchDone(n, s) \/ DispatchEnd(n, s)

Run ==
  \/ Rx
  \/ \E r \in Reqs, cb \in {"plain", "filter"} : NilCall(r, cb)
  \/ \E n \in Conns : SrvRead(n) \/ SrvError(n) \/ Cleanup(n)
  \/ \E n \in Conns, r \in Reqs : Handle(n, r)
  \/ \E n \in Conns, s \in Subscribes : Entry(n, s)

Next == (Break \/ Run \/ \E r \in Reqs : Call(r)) /\ UNCHANGED plan

Spec == Init /\ [][Next]_vars

\* Some goroutine that can take a step does; calls and breaks need not happen.
FairSpec == Spec /\ WF_vars(Run /\ UNCHANGED plan)

-----------------------------------------------------------------------------
(* Properties *)

Under(s, q) == \E i \in DOMAIN q : q[i] = s

\* However often the connection breaks and a subscription is made again, its
\* handler (messageCB of Subscribe) gets a publication at most once, and
\* nothing after the end.
DeliveredOnce ==
  \A s \in Subscribes :
    /\ \A i, j \in DOMAIN log[s] : log[s][i] \in Publishes /\ log[s][i] = log[s][j] => i = j
    /\ \A i \in DOMAIN log[s] : log[s][i] = "end" => i = Len(log[s])

\* transact and rxloop may both report a lost connection to the callback of
\* PublishPersist, but a publication that was answered with success is not
\* answered again, and it is made, once, by the server's goroutine.
OneVerdict ==
  \A p \in Publishes :
    /\ Under("ok", answers[p]) => Len(answers[p]) = 1
    /\ Under("ok", answers[p]) => published[p] = 1 \/ \E n \in Conns : hpc[<<n, p>>] = "act"
    /\ published[p] <= 1

\* While rxloop reads from a connection that holds, each subscription in
\* activesubs that the server does not refuse is subscribed there, on its way
\* there, or its end is on its way back: none is lost without a word, though
\* the end of an old session cancels the ids of the new one.
NoSilentLoss ==
  ~panicked /\ rx = "read" /\ link[conn] = "up" /\ conn \notin closed =>
    \A s \in activesubs \ plan.mayFail :
      \/ Under(s, toServer[conn]) \/ hpc[<<conn, s>>] = "start"
      \/ entry[<<conn, s>>] = "live" /\ <<conn, s>> \in tree
      \/ entry[<<conn, s>>] \in {"cancelled", "ending"}
      \/ \E i \in DOMAIN toClient[conn] : toClient[conn][i].req = s /\ toClient[conn][i].cmd = "end"

\* A publication is answered whenever the connection breaks: by the frame, by
\* the failing write or by rxloop's nil.
PublishAnswered ==
  \A p \in Publishes : p \in called ~> (answers[p] # <<>> \/ panicked)

\* What the callback of Subscribe expects when it gets nil: "Peer error, on a
\* subscribe it will just get regenned".  A subscription whose answer was lost
\* with the connection would then be made again, and answered.
SubscribeRegenned ==
  \A s \in Subscribes : s \in called ~> (answers[s] # <<>> \/ panicked)
=============================================================================
