-------------------------- MODULE AffinityClients --------------------------
(***************************************************************************)
(* Calls of bc/builtin_affinity.go on the Affinity contract, each watched  *)
(* by GetTransactionDetailsInt of bc/api_new.go.  A call reads a nonce off *)
(* the head of the chain, signs and sends a transaction, waits until it is *)
(* confirmed or has timed out, and looks at the contract again before it   *)
(* answers its caller.  Meanwhile blocks arrive and are rolled back.       *)
(*                                                                         *)
(* The chain is external: a block holds at most one message to the         *)
(* contract, from one of Calls or from another program with the same keys, *)
(* and the storage of the contract after it.  A fork shows as a roll-back  *)
(* followed by the blocks of the other branch.                             *)
(***************************************************************************)
EXTENDS Affinity, Sequences

CONSTANTS Calls,          \* calls of the five client operations
          Scripts,        \* what the calls may ask for: functions from Calls
          Foreign,        \* messages other programs send
          None,           \* no transaction, no message
          Confirmations,  \* DefaultConfirmations
          Timeout,        \* DefaultTimeout, in blocks
          ForkDepth,      \* how far below the highest head a fork may start
          MaxBlock,       \* bound: length of the chain
          MaxRollbacks    \* bound: number of roll-backs

Request == [op : Ops, dr : DRs, ns : NSs, srv : SRVs]

ASSUME ClientsAssumption ==
  /\ Scripts \subseteq [Calls -> Request]
  /\ Foreign \subseteq Message
  /\ None \notin Calls /\ None \notin Message
  /\ {Confirmations, Timeout, ForkDepth, MaxBlock, MaxRollbacks} \subseteq Nat
  /\ ForkDepth <= Confirmations + 1

VARIABLES request,    \* what each call asks for
          chain,      \* the blocks: call, message and storage after it
          top,        \* the highest head so far
          rollbacks,  \* roll-backs so far
          sent,       \* calls whose transaction has been sent
          up,         \* FALSE once the process has panicked
          pc,         \* where a call is
          nonce,      \* the nonce it signed
          startblock, \* head when it began to watch
          curblock,   \* head when it last looked
          found,      \* block the transaction was first seen in
          resume,     \* where the watcher goes on after its callback
          confirmedAt,\* block reported as confirmed, 0 if none (history)
          answers     \* what confirmed() was called with

chainVars == <<chain, top, rollbacks>>
watchVars == <<startblock, curblock, found>>
vars == <<request, chain, top, rollbacks, sent, up, pc, nonce, startblock, curblock,
          found, resume, confirmedAt, answers>>

Phases == {"idle", "nonce", "send", "seek", "seekTx", "seekBlock", "wait", "waitTx",
           "waitBlock", "sleep", "tail", "check", "done"}

TypeOK ==
  /\ request \in [Calls -> Request]
  /\ chain \in Seq([tx : Calls \cup {None}, message : Message \cup {None}, storage : Storage])
  /\ 1 <= Len(chain) /\ Len(chain) <= top /\ top <= Len(chain) + ForkDepth
  /\ top \in Nat /\ rollbacks \in Nat
  /\ sent \subseteq Calls
  /\ up \in BOOLEAN
  /\ pc \in [Calls -> Phases]
  /\ nonce \in [Calls -> Nat]
  /\ startblock \in [Calls -> Nat] /\ curblock \in [Calls -> Nat] /\ found \in [Calls -> Nat]
  /\ resume \in [Calls -> {"tail", "done"}]
  /\ confirmedAt \in [Calls -> Nat]
  /\ answers \in [Calls -> Seq({"ok", "err"})]

Init ==
  /\ request \in Scripts
  /\ chain = <<[tx |-> None, message |-> None, storage |-> Deployed]>>
  /\ top = 1 /\ rollbacks = 0
  /\ sent = {} /\ up = TRUE
  /\ pc = [c \in Calls |-> "idle"]
  /\ nonce = [c \in Calls |-> 0]
  /\ startblock = [c \in Calls |-> 0]
  /\ curblock = [c \in Calls |-> 0]
  /\ found = [c \in Calls |-> 0]
  /\ resume = [c \in Calls |-> "done"]
  /\ confirmedAt = [c \in Calls |-> 0]
  /\ answers = [c \in Calls |-> <<>>]

(***************************************************************************)
(* The chain.                                                              *)
(***************************************************************************)
Latest == chain[Len(chain)].storage

Mined(c, b) == b \in DOMAIN chain /\ chain[b].tx = c

InChain(c) == \E b \in DOMAIN chain : Mined(c, b)

BlockOf(c) == CHOOSE b \in DOMAIN chain : Mined(c, b)

MessageOf(c) ==
  [op |-> request[c].op, dr |-> request[c].dr, ns |-> request[c].ns,
   srv |-> request[c].srv, nonce |-> nonce[c]]

Block(tx, m) ==
  [tx |-> tx, message |-> m, storage |-> IF m = None THEN Latest ELSE Execute(Latest, m)]

NewBlock ==
  /\ up /\ Len(chain) < MaxBlock
  /\ \/ \E m \in Foreign \cup {None} : chain' = Append(chain, Block(None, m))
     \/ \E c \in sent : ~InChain(c) /\ chain' = Append(chain, Block(c, MessageOf(c)))
  /\ top' = IF Len(chain) = top THEN top + 1 ELSE top
  /\ UNCHANGED <<request, rollbacks, sent, up, pc, nonce, watchVars, resume, confirmedAt, answers>>

Rollback ==
  /\ up /\ rollbacks < MaxRollbacks
  /\ \E n \in 1 .. Len(chain) - 1 :
       /\ top <= n + ForkDepth
       /\ chain' = SubSeq(chain, 1, n)
  /\ rollbacks' = rollbacks + 1
  /\ UNCHANGED <<request, top, sent, up, pc, nonce, watchVars, resume, confirmedAt, answers>>

(***************************************************************************)
(* Answers.  Callback(c, ok, next) is the call of onconfirmed: an error is *)
(* handed on, except by the two operations that overwrite it and look at   *)
(* the contract all the same.                                              *)
(***************************************************************************)
Answer(c, a) == answers' = [answers EXCEPT ![c] = Append(@, a)]

Goto(c, phase) == pc' = [pc EXCEPT ![c] = phase]

IgnoresError(c) == request[c].op \in {"OfferRouting", "RetractRoutingDR"}

Callback(c, ok, next) ==
  IF ok \/ IgnoresError(c)
  THEN /\ Goto(c, "check") /\ resume' = [resume EXCEPT ![c] = next]
       /\ UNCHANGED answers
  ELSE /\ Goto(c, next) /\ Answer(c, "err")
       /\ UNCHANGED resume

(***************************************************************************)
(* RetractRoutingAcceptance first asks whether the router is the current   *)
(* one.  If it is not it reports an error, and carries on.                 *)
(***************************************************************************)
CheckActive(c) ==
  /\ up /\ pc[c] = "idle" /\ request[c].op = "RetractRoutingNS"
  /\ \/ /\ Latest.DesignatedRouterFor[request[c].ns] = request[c].dr
        /\ Goto(c, "nonce") /\ UNCHANGED answers
     \/ /\ Latest.DesignatedRouterFor[request[c].ns] # request[c].dr
        /\ Goto(c, "nonce") /\ Answer(c, "err")
     \/ Goto(c, "done") /\ Answer(c, "err")
  /\ UNCHANGED <<request, chainVars, sent, up, nonce, watchVars, resume, confirmedAt>>

\* A failed read of the nonce panics.
ReadNonce(c) ==
  /\ up /\ pc[c] = IF request[c].op = "RetractRoutingNS" THEN "nonce" ELSE "idle"
  /\ \/ /\ nonce' = [nonce EXCEPT ![c] = LastNonce(Latest, request[c]) + 1]
        /\ Goto(c, "send") /\ UNCHANGED up
     \/ up' = FALSE /\ UNCHANGED <<pc, nonce>>
  /\ UNCHANGED <<request, chainVars, sent, watchVars, resume, confirmedAt, answers>>

\* The watch starts with the sending: a block between the two moves only its limit.
Send(c) ==
  /\ up /\ pc[c] = "send"
  /\ \/ /\ top + Timeout <= MaxBlock
        /\ sent' = sent \cup {c}
        /\ startblock' = [startblock EXCEPT ![c] = Len(chain)]
        /\ Goto(c, "seek") /\ UNCHANGED answers
     \/ Goto(c, "done") /\ Answer(c, "err") /\ UNCHANGED <<sent, startblock>>
  /\ UNCHANGED <<request, chainVars, up, nonce, curblock, found, resume, confirmedAt>>

(***************************************************************************)
(* The watcher.  A round reads the head, then the transaction, then the    *)
(* number of its block, and blocks and forks may come between the reads;   *)
(* the third fails if a fork has taken the transaction away.               *)
(***************************************************************************)
TimedOut(c) == curblock[c] >= startblock[c] + Timeout

Look(c) == curblock' = [curblock EXCEPT ![c] = Len(chain)]

SeekLook(c) ==
  /\ up /\ pc[c] = "seek"
  /\ Look(c) /\ Goto(c, "seekTx")
  /\ UNCHANGED <<request, chainVars, sent, up, nonce, startblock, found, resume, confirmedAt, answers>>

\* Between two rounds it waits for a block or five seconds, so for nothing here.
SeekTx(c) ==
  /\ up /\ pc[c] = "seekTx"
  /\ \/ InChain(c) /\ Goto(c, "seekBlock") /\ UNCHANGED <<resume, answers>>
     \/ ~InChain(c) /\ TimedOut(c) /\ Callback(c, FALSE, "done")
     \/ ~InChain(c) /\ ~TimedOut(c) /\ Goto(c, "seek") /\ UNCHANGED <<resume, answers>>
  /\ UNCHANGED <<request, chainVars, sent, up, nonce, watchVars, confirmedAt>>

SeekBlock(c) ==
  /\ up /\ pc[c] = "seekBlock"
  /\ \/ InChain(c) /\ found' = [found EXCEPT ![c] = BlockOf(c)] /\ Goto(c, "wait") /\ UNCHANGED up
     \/ ~InChain(c) /\ up' = FALSE /\ UNCHANGED <<pc, found>>
  /\ UNCHANGED <<request, chainVars, sent, nonce, startblock, curblock, resume, confirmedAt, answers>>

\* The context of the call may be done; nothing but the wait looks at it.
WaitCancelled(c) ==
  /\ up /\ pc[c] \in {"wait", "sleep"}
  /\ Callback(c, FALSE, "done")
  /\ UNCHANGED <<request, chainVars, sent, up, nonce, watchVars, confirmedAt>>

\* Every round but the first waits for a higher head.  The code counts from the
\* head at the moment it goes to sleep; here it may also wake for an earlier block.
AfterBlocks(c) == Len(chain) > curblock[c]

WaitLook(c) ==
  /\ up
  /\ pc[c] = "wait" \/ (pc[c] = "sleep" /\ AfterBlocks(c))
  /\ Look(c)
  /\ Goto(c, IF Len(chain) >= found[c] + Confirmations THEN "waitTx" ELSE "tail")
  /\ UNCHANGED <<request, chainVars, sent, up, nonce, startblock, found, resume, confirmedAt, answers>>

WaitTx(c) ==
  /\ up /\ pc[c] = "waitTx"
  /\ Goto(c, IF InChain(c) THEN "waitBlock" ELSE "tail")
  /\ UNCHANGED <<request, chainVars, sent, up, nonce, watchVars, resume, confirmedAt, answers>>

\* One block less than asked for.
DeepOrEqual(c) == BlockOf(c) + Confirmations <= curblock[c]

\* The transaction is deep enough below the head that was read before it.
Deep(c) == BlockOf(c) + Confirmations < curblock[c]

WaitBlock(c) ==
  /\ up /\ pc[c] = "waitBlock"
  /\ \/ /\ InChain(c) /\ Deep(c)
        /\ confirmedAt' = [confirmedAt EXCEPT ![c] = BlockOf(c)]
        /\ Callback(c, TRUE, "done")
     \/ /\ InChain(c) /\ ~Deep(c)
        /\ Goto(c, "tail") /\ UNCHANGED <<confirmedAt, resume, answers>>
     \/ /\ ~InChain(c)
        /\ Callback(c, FALSE, "tail") /\ UNCHANGED confirmedAt
  /\ UNCHANGED <<request, chainVars, sent, up, nonce, watchVars>>

\* A wait that forgets its limit.
WaitTailForever(c) ==
  /\ up /\ pc[c] = "tail" /\ Goto(c, "sleep")
  /\ UNCHANGED <<request, chainVars, sent, up, nonce, watchVars, confirmedAt,
                 resume, answers>>

WaitTail(c) ==
  /\ up /\ pc[c] = "tail"
  /\ \/ TimedOut(c) /\ Callback(c, FALSE, "done")
     \/ ~TimedOut(c) /\ Goto(c, "sleep") /\ UNCHANGED <<resume, answers>>
  /\ UNCHANGED <<request, chainVars, sent, up, nonce, watchVars, confirmedAt>>

(***************************************************************************)
(* The callback looks whether the contract says what the call wanted.      *)
(***************************************************************************)
TookSomeEffect(c) ==
  LET r == request[c] IN
  IF r.op = "OfferRouting" THEN Latest.AffinityOffers[<<r.dr, r.ns>>] # 0
  ELSE Latest.DesignatedRouterFor[r.ns] = r.dr

TookEffect(c) ==
  LET r == request[c] IN
  CASE r.op = "OfferRouting" -> Latest.AffinityOffers[<<r.dr, r.ns>>] = nonce[c]
    [] r.op = "RetractRoutingDR" -> Latest.AffinityOffers[<<r.dr, r.ns>>] = 0
    [] r.op = "AcceptRouting" -> Latest.DesignatedRouterFor[r.ns] = r.dr
    [] r.op = "RetractRoutingNS" -> Latest.DesignatedRouterFor[r.ns] # r.dr
    [] r.op = "SetDesignatedRouterSRV" -> Latest.DRSRV[r.dr] = r.srv

Check(c) ==
  /\ up /\ pc[c] = "check"
  /\ \/ TookEffect(c) /\ Answer(c, "ok")
     \/ Answer(c, "err")  \* it does not, or it could not be read
  /\ Goto(c, resume[c])
  /\ UNCHANGED <<request, chainVars, sent, up, nonce, watchVars, resume, confirmedAt>>

Step(c) ==
  \/ CheckActive(c) \/ ReadNonce(c) \/ Send(c)
  \/ SeekLook(c) \/ SeekTx(c) \/ SeekBlock(c)
  \/ WaitLook(c) \/ WaitTx(c) \/ WaitBlock(c) \/ WaitTail(c)
  \/ Check(c)

Next == NewBlock \/ Rollback \/ \E c \in Calls : Step(c) \/ WaitCancelled(c)

Spec == Init /\ [][Next]_vars

(***************************************************************************)
(* A call that has begun goes on, since its goroutine is scheduled, and    *)
(* the network goes on producing blocks.                                   *)
(***************************************************************************)
Fairness == WF_vars(NewBlock) /\ \A c \in Calls : WF_vars(pc[c] # "idle" /\ Step(c))

FairSpec == Spec /\ Fairness

-----------------------------------------------------------------------------
(***************************************************************************)
(* The designated router of a namespace has a standing offer for it, after *)
(* every block: RetractRoutingDR takes both away, and no order of offers,  *)
(* acceptances and retractions by the two parties leaves one alone.        *)
(***************************************************************************)
HasOffer(st) ==
  \A ns \in NSs : st.DesignatedRouterFor[ns] # NoRouter =>
                    st.AffinityOffers[<<st.DesignatedRouterFor[ns], ns>>] # 0

RouterHasOffer == \A b \in DOMAIN chain : HasOffer(chain[b].storage)

(***************************************************************************)
(* Messages that change the contract for one signer carry increasing       *)
(* nonces along the chain.  So of two calls in flight that read the same   *)
(* nonce (a retry after a timeout, say) at most one changes anything, and  *)
(* signed messages take effect in the order they were meant to.            *)
(***************************************************************************)
Effective(b) == b > 1 /\ chain[b].storage # chain[b-1].storage

SameSigner(m, n) ==
  \/ m.op \in NSOps /\ n.op \in NSOps /\ m.ns = n.ns
  \/ m.op \notin NSOps /\ n.op \notin NSOps /\ m.dr = n.dr

SignerOrder ==
  \A a, b \in DOMAIN chain :
    a < b /\ Effective(a) /\ Effective(b) =>
      LET m == chain[a].message
          n == chain[b].message
      IN SameSigner(m, n) => m.nonce < n.nonce

(***************************************************************************)
(* FindRoutingOffers and FindRoutingAffinities, which only ask about keys  *)
(* they find in events, miss no standing offer and no bound namespace.     *)
(***************************************************************************)
FindsAll(st) ==
  /\ \A ns \in NSs, dr \in DRs :
       st.AffinityOffers[<<dr, ns>>] # 0 => dr \in FindRoutingOffers(st, ns)
  /\ \A ns \in NSs, dr \in DRs :
       st.DesignatedRouterFor[ns] = dr => ns \in FindRoutingAffinities(st, dr)

FindMissesNothing == \A b \in DOMAIN chain : FindsAll(chain[b].storage)

(***************************************************************************)
(* A transaction that GetTransactionDetailsInt has reported as confirmed   *)
(* stays in the block it was reported in, through any fork that starts at  *)
(* most Confirmations + 1 blocks below the highest head.                   *)
(***************************************************************************)
ConfirmedStays == \A c \in Calls : confirmedAt[c] # 0 => Mined(c, confirmedAt[c])

(***************************************************************************)
(* CreateRoutingOffer reports success only while the chain holds a         *)
(* transaction that made this very offer, under the nonce it signed.       *)
(***************************************************************************)
OfferIsMine(c) ==
  \E b \in DOMAIN chain : Effective(b) /\ chain[b].message = MessageOf(c)

OfferAnswered(c) == answers'[c] # answers[c] /\ answers'[c][Len(answers'[c])] = "ok"

ConfirmedOfferIsMine ==
  [][\A c \in Calls : request[c].op = "OfferRouting" /\ OfferAnswered(c) => OfferIsMine(c)]_vars

(***************************************************************************)
(* The caller of an operation that was begun is answered, unless the       *)
(* process panics: neither a transaction that is never mined nor forks     *)
(* keep it waiting for ever, even if nobody cancels the context.           *)
(***************************************************************************)
EveryCallAnswered == \A c \in Calls : pc[c] # "idle" ~> (answers[c] # <<>> \/ ~up)
=============================================================================
