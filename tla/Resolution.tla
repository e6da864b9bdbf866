----------------------------- MODULE Resolution -----------------------------
(***************************************************************************)
(* The resolution cache of api/new_resolution.go over a block chain that   *)
(* holds the registry contract.  Threads resolve DOTs, registered chains   *)
(* and the grants of a namespace; each call of the registry client and     *)
(* each hold of the cache's lock is a step.  New blocks make               *)
(* checkChainChange replay recent events and flush what they concern;      *)
(* another goroutine flushes what has expired.                             *)
(*                                                                         *)
(* The node (go-ethereum) is external: blocks with at most one transaction *)
(* of the pool, forks that never undo a block that was Lag blocks deep,    *)
(* and reads of the state of any block or of the pending state.            *)
(***************************************************************************)
EXTENDS Registry, FiniteSets, Functions

CONSTANTS
  Threads, None,
  Plans,      \* the blocks at the start, the transactions sent later, the calls of
              \* the threads, and bounds: the last time, the last block, the forks
  Lag,        \* RegistryLag
  Replay,     \* BlockReplay
  Holdoff,    \* holdoffConstant
  MaxJump,    \* MaxCacheJumpBlocks
  Stall,      \* bound: blocks that may appear during one call of a thread
  Delay       \* bound: blocks that may appear before checkChainChange is done

\* A set in some order, sequences one after the other, and what q starts with:
\* three operators of the community's SequencesExt, whose other hundred
\* definitions would be part of every proof obligation about this module.
SetToSeq(S) == CHOOSE q \in Injection(1 .. Cardinality(S), S) : TRUE
FlattenSeq(seqs) ==
  LET flat[n \in 0 .. Len(seqs)] == IF n = 0 THEN <<>> ELSE flat[n - 1] \o seqs[n]
  IN flat[Len(seqs)]
IsPrefix(p, q) == Len(p) <= Len(q) /\ p = SubSeq(q, 1, Len(p))

\* The calls a thread makes: what is resolved, and of which object.
Calls == ({"dot"} \X DOTs) \cup ({"chain"} \X Chains) \cup ({"build"} \X Entities)

\* The replay outlasts two resolutions, the second with what the first cached
\* and two late checks did not flush in between, and what forks take back of
\* them; the holdoff outlasts the lag.  In the code: 30 blocks, a lag of 5, a
\* holdoff of 6.
ASSUME ResolutionAssumption ==
  /\ {Lag, Replay, Holdoff, MaxJump, Stall, Delay} \subseteq Nat
  /\ \A a \in {Stall, Lag - 1}, b \in {Delay, Lag - 1} : 2 * a + b + Delay + Lag <= Replay + 1
  /\ Lag < Holdoff
  /\ None \notin Validity

ASSUME PlansAssumption ==
  \A p \in Plans :
    /\ p.blocks \in Seq(Seq(Transaction)) /\ p.blocks # <<>> /\ p.txs \subseteq Transaction
    /\ p.scripts \in [Threads -> Seq(Calls)]
    /\ p.time \in Nat /\ p.last \in Nat /\ p.forks \in Nat

VARIABLES
  plan,
  chain,      \* blocks: [reg |-> storage after it, logs |-> its events]
  pool,       \* transactions sent and in no block
  sent,       \* history: transactions ever sent
  now,        \* the clock of the node, which also stamps blocks
  forks,      \* bound: forks still to come
  final,      \* history: the last block that was once Lag blocks deep
  entityCache, dotHashCache,            \* [-> Validity or None]
  dotFromInvCache, dotToInvCache,       \* [Entities -> SUBSET DOTs]
  dotFromCompleteCache, chaincache,     \* [Entities -> a set of DOTs, or None]
  holdoff,                              \* [Entities -> block, 0 for no entry]
  lastblock,
  todo,       \* events checkChainChange still has to handle
  dropping,   \* a dropAllCaches that has not run yet
  th,         \* the threads
  trusted,    \* history: DOTs some call of ResolveDOT returned as valid
  flushed     \* history: entities FlushEntity was called for

caches == <<entityCache, dotHashCache, dotFromInvCache, dotToInvCache, dotFromCompleteCache,
            chaincache, holdoff, flushed>>
chainVars == <<plan, chain, pool, sent, now, forks, final>>
checkVars == <<lastblock, todo, dropping>>
vars == <<chainVars, caches, checkVars, th, trusted>>

CurrentBlock == Len(chain)
HeadState == chain[CurrentBlock].reg

\* What executing a transaction makes of a block.
Executed(b, tx, time) == [reg |-> Exec(b.reg, tx, time), logs |-> b.logs \o Logs(b.reg, tx, time)]

\* A block that executes txs in order on top of reg, after each of them.
Blocks(reg, txs, time) ==
  LET after[n \in 0 .. Len(txs)] ==
        IF n = 0 THEN [reg |-> reg, logs |-> <<>>] ELSE Executed(after[n - 1], txs[n], time)
  IN after
Block(reg, txs, time) == Blocks(reg, txs, time)[Len(txs)]

Idle(ops) == [ops |-> ops, pc |-> "idle", kind |-> None, list |-> <<>>, got |-> {}, side |-> None,
              read |-> None, since |-> 0]

ClearCaches ==
  /\ entityCache' = [e \in Entities |-> None] /\ dotHashCache' = [d \in DOTs |-> None]
  /\ dotFromInvCache' = [e \in Entities |-> {}] /\ dotToInvCache' = [e \in Entities |-> {}]
  /\ dotFromCompleteCache' = [e \in Entities |-> None] /\ chaincache' = [e \in Entities |-> None]
  /\ holdoff' = [e \in Entities |-> 0]

\* The blocks of the plan.
Genesis(blocks) ==
  LET c[n \in 0 .. Len(blocks)] ==
        IF n = 0 THEN <<>> ELSE Append(c[n - 1], Block(IF n = 1 THEN Empty ELSE c[n - 1][n - 1].reg, blocks[n], 0))
  IN c[Len(blocks)]

\* The last block that is Lag deep on a chain of n blocks, or was before.
Deep(n, before) == IF n > before + Lag THEN n - Lag ELSE before

\* The node starts with blocks on its chain and nothing cached.
Init ==
  /\ plan \in Plans
  /\ chain = Genesis(plan.blocks)
  /\ pool = {} /\ sent = {} /\ now = 0 /\ forks = plan.forks /\ final = Deep(Len(chain), 1)
  /\ entityCache = [e \in Entities |-> None] /\ dotHashCache = [d \in DOTs |-> None]
  /\ dotFromInvCache = [e \in Entities |-> {}] /\ dotToInvCache = [e \in Entities |-> {}]
  /\ dotFromCompleteCache = [e \in Entities |-> None] /\ chaincache = [e \in Entities |-> None]
  /\ holdoff = [e \in Entities |-> 0]
  /\ lastblock = Len(chain) /\ todo = <<>> /\ dropping = FALSE
  /\ th = [t \in Threads |-> Idle(plan.scripts[t])]
  /\ trusted = {} /\ flushed = {}

-----------------------------------------------------------------------------
(***************************************************************************)
(* The chain                                                               *)
(***************************************************************************)
Send(tx) ==
  /\ tx \in plan.txs \ sent
  /\ sent' = sent \cup {tx} /\ pool' = pool \cup {tx}
  /\ UNCHANGED <<plan, chain, now, forks, final, caches, checkVars, th, trusted>>

\* No call is under way for more than Stall blocks, and the handling of new
\* blocks is not more than Delay blocks behind.
InTime ==
  /\ CurrentBlock < lastblock + Delay
  /\ \A t \in Threads : th[t].pc = "idle" \/ CurrentBlock < th[t].since + Stall

Mine(txs) ==
  /\ CurrentBlock < plan.last /\ InTime
  /\ chain' = Append(chain, Block(HeadState, txs, now)) /\ pool' = pool \ Range(txs)
  /\ final' = Deep(CurrentBlock + 1, final)
  /\ UNCHANGED <<plan, sent, now, forks, caches, checkVars, th, trusted>>

\* The last k blocks, none of which was ever Lag deep, give way to one other;
\* the transactions that logged an event in them are pending again.
Fork(k, txs) ==
  LET kept == SubSeq(chain, 1, CurrentBlock - k)
      lost == UNION {Range(chain[i].logs) : i \in CurrentBlock - k + 1 .. CurrentBlock}
  IN /\ forks > 0 /\ forks' = forks - 1 /\ CurrentBlock - k >= final
     /\ chain' = Append(kept, Block(chain[CurrentBlock - k].reg, txs, now))
     /\ pool' = (pool \cup lost) \ Range(txs)
     /\ UNCHANGED <<plan, sent, now, final, caches, checkVars, th, trusted>>

Tick ==
  /\ now < plan.time /\ now' = now + 1
  /\ UNCHANGED <<plan, chain, pool, sent, forks, final, caches, checkVars, th, trusted>>

ChainStep ==
  \/ \E tx \in Transaction : Send(tx)
  \/ \E txs \in {<<>>} \cup {<<tx>> : tx \in pool} : Mine(txs) \/ \E k \in 1 .. Lag : Fork(k, txs)
  \/ Tick

\* What the node answers (bc/builtin_registry.go): the pending state, and for
\* an object that is valid there, the state Lag blocks ago.
Pending == Block(HeadState, SetToSeq(pool), now).reg
Lagged == IF CurrentBlock > Lag THEN chain[CurrentBlock - Lag].reg ELSE Empty

\* bug: the lag is left out
StateOfNow(kind, x) == Pending[kind][x]

StateOf(kind, x) == IF Pending[kind][x] = "Valid" THEN Lagged[kind][x] ELSE Pending[kind][x]

-----------------------------------------------------------------------------
(***************************************************************************)
(* Calls.  A call resolves the DOTs of a list one after the other: one for *)
(* ResolveDOT, those of a registered chain for ResolveAccessDChain, and    *)
(* for "build" (Build of the chain builder) those a namespace granted or   *)
(* those of the chains cached for it.  Built chains have one DOT here.     *)
(***************************************************************************)
Set(t, new) == th' = [th EXCEPT ![t] = new]
Return(t) == th' = [th EXCEPT ![t] = Idle(Tail(@.ops))]
Subject(t) == th[t].ops[1][2]

Start(t, pc, kind, list) ==
  Set(t, [th[t] EXCEPT !.pc = pc, !.kind = kind, !.list = list, !.since = CurrentBlock])

\* Go on with the list, or end the call with the DOTs in got found valid.
Continue(t, list, got) ==
  IF list # <<>> THEN Set(t, [th[t] EXCEPT !.pc = "look", !.list = list, !.got = got])
  ELSE IF th[t].kind = "build" THEN Set(t, [th[t] EXCEPT !.pc = "built", !.got = got])
  ELSE Return(t)

Begin(t) ==
  /\ th[t].pc = "idle" /\ th[t].ops # <<>>
  /\ CASE th[t].ops[1][1] = "dot" ->
            IF dotHashCache[Subject(t)] = None THEN Start(t, "dot", "dot", <<Subject(t)>>) ELSE Return(t)
       [] th[t].ops[1][1] = "chain" ->
            IF StateOf("chain", Subject(t)) = "Valid" /\ dotsOf[Subject(t)] # <<>>
            THEN Start(t, "look", "chain", dotsOf[Subject(t)]) ELSE Return(t)
       [] th[t].ops[1][1] = "build" ->
            IF chaincache[Subject(t)] = None
            THEN Start(t, "granted", "build", <<>>)
            ELSE Start(t, "look", "cached", SetToSeq(chaincache[Subject(t)]))
  /\ trusted' = IF th[t].ops[1][1] = "dot" /\ dotHashCache[Subject(t)] = "Valid"
                THEN trusted \cup {Subject(t)} ELSE trusted
  /\ UNCHANGED <<chainVars, caches, checkVars>>

\* ResolveGrantedDOTs: the list of the cache, or that of the chain.
ResolveGranted(t) ==
  /\ th[t].pc = "granted"
  /\ IF dotFromCompleteCache[Subject(t)] # None
     THEN Continue(t, SetToSeq(dotFromCompleteCache[Subject(t)]), {})
     ELSE Set(t, [th[t] EXCEPT !.pc = "cacheGranted", !.list = Lagged.granted[Subject(t)]])
  /\ UNCHANGED <<chainVars, caches, checkVars, trusted>>

CacheGranted(t) ==
  /\ th[t].pc = "cacheGranted"
  /\ dotFromCompleteCache' = [dotFromCompleteCache EXCEPT ![Subject(t)] = Range(th[t].list)]
  /\ Continue(t, th[t].list, {})
  /\ UNCHANGED <<chainVars, entityCache, dotHashCache, dotFromInvCache, dotToInvCache, chaincache,
                 holdoff, flushed, checkVars, trusted>>

\* ResolveDOT returns s for the first DOT of the list.  A registered chain is
\* as good as its first DOT that is not valid.
Answer(t, s) ==
  LET d == Head(th[t].list) IN
  /\ trusted' = IF s = "Valid" THEN trusted \cup {d} ELSE trusted
  /\ IF s # "Valid" /\ th[t].kind = "chain" THEN Return(t)
     ELSE Continue(t, Tail(th[t].list), IF s = "Valid" THEN th[t].got \cup {d} ELSE th[t].got)

LookDOT(t) ==
  /\ th[t].pc = "look"
  /\ LET s == dotHashCache[Head(th[t].list)] IN
     IF s # None THEN Answer(t, s) ELSE Set(t, [th[t] EXCEPT !.pc = "dot"]) /\ UNCHANGED trusted
  /\ UNCHANGED <<chainVars, caches, checkVars>>

\* bug: a DOT that is not registered is cached as such
ReadDOTUnknown(t) ==
  /\ th[t].pc = "dot"
  /\ LET s == StateOf("dot", Head(th[t].list)) IN
     Set(t, IF s = "Valid" THEN [th[t] EXCEPT !.pc = "entity", !.side = "giver"]
            ELSE [th[t] EXCEPT !.pc = "cacheDOT", !.read = s])
  /\ UNCHANGED <<chainVars, caches, checkVars, trusted>>

\* resolveDOTFromBC: the DOT, then its two entities, then its expiry.
ReadDOT(t) ==
  /\ th[t].pc = "dot"
  /\ LET s == StateOf("dot", Head(th[t].list)) IN
     CASE s = "Unknown" -> Answer(t, s)
       [] s = "Valid"   -> Set(t, [th[t] EXCEPT !.pc = "entity", !.side = "giver"]) /\ UNCHANGED trusted
       [] OTHER         -> Set(t, [th[t] EXCEPT !.pc = "cacheDOT", !.read = s]) /\ UNCHANGED trusted
  /\ UNCHANGED <<chainVars, caches, checkVars>>

EntityOf(t) == IF th[t].side = "giver" THEN giver[Head(th[t].list)] ELSE receiver[Head(th[t].list)]

\* ResolveEntity has returned s.
EntityState(t, s) ==
  IF s # "Valid" THEN Set(t, [th[t] EXCEPT !.pc = "cacheDOT", !.read = s])
  ELSE IF th[t].side = "giver" THEN Set(t, [th[t] EXCEPT !.pc = "entity", !.side = "receiver"])
  ELSE Set(t, [th[t] EXCEPT !.pc = "cacheDOT",
                            !.read = IF Over(dotExpiry[Head(th[t].list)], now) THEN "Expired" ELSE "Valid"])

LookEntity(t) ==
  /\ th[t].pc = "entity"
  /\ LET s == entityCache[EntityOf(t)] IN
     IF s # None THEN EntityState(t, s) ELSE Set(t, [th[t] EXCEPT !.pc = "readEntity"])
  /\ UNCHANGED <<chainVars, caches, checkVars, trusted>>

\* What is unknown is not cached, neither the entity nor the DOT.
ReadEntity(t) ==
  /\ th[t].pc = "readEntity"
  /\ LET e == EntityOf(t)
         s == IF StateOf("entity", e) = "Valid" /\ Over(entityExpiry[e], now)
              THEN "Expired" ELSE StateOf("entity", e)
     IN IF s = "Unknown" THEN Answer(t, s)
        ELSE Set(t, [th[t] EXCEPT !.pc = "cacheEntity", !.read = s]) /\ UNCHANGED trusted
  /\ UNCHANGED <<chainVars, caches, checkVars>>

CacheEntity(t) ==
  /\ th[t].pc = "cacheEntity"
  /\ entityCache' = [entityCache EXCEPT ![EntityOf(t)] = th[t].read]
  /\ EntityState(t, th[t].read)
  /\ UNCHANGED <<chainVars, dotHashCache, dotFromInvCache, dotToInvCache, dotFromCompleteCache,
                 chaincache, holdoff, flushed, checkVars, trusted>>

\* bug: looks the DOT up in the other index
CacheDOTByReceiver(t) ==
  LET d == Head(th[t].list)
      add(index, e) == IF d \in dotToInvCache[receiver[d]] THEN index ELSE [index EXCEPT ![e] = @ \cup {d}]
  IN /\ th[t].pc = "cacheDOT"
     /\ dotHashCache' = [dotHashCache EXCEPT ![d] = th[t].read]
     /\ dotFromInvCache' = add(dotFromInvCache, giver[d])
     /\ dotToInvCache' = add(dotToInvCache, receiver[d])
     /\ Answer(t, th[t].read)
     /\ UNCHANGED <<chainVars, entityCache, dotFromCompleteCache, chaincache, holdoff, flushed, checkVars>>

\* The DOT enters both indexes, unless it is already in the first.
CacheDOT(t) ==
  LET d == Head(th[t].list)
      add(index, e) == IF d \in dotFromInvCache[giver[d]] THEN index ELSE [index EXCEPT ![e] = @ \cup {d}]
  IN /\ th[t].pc = "cacheDOT"
     /\ dotHashCache' = [dotHashCache EXCEPT ![d] = th[t].read]
     /\ dotFromInvCache' = add(dotFromInvCache, giver[d])
     /\ dotToInvCache' = add(dotToInvCache, receiver[d])
     /\ Answer(t, th[t].read)
     /\ UNCHANGED <<chainVars, entityCache, dotFromCompleteCache, chaincache, holdoff, flushed, checkVars>>

\* Nothing is cached for a namespace until its holdoff has passed.
CacheBuiltChains(t) ==
  LET ns == Subject(t)
      held == holdoff[ns] # 0 /\ CurrentBlock <= holdoff[ns]
  IN /\ th[t].pc = "built"
     /\ holdoff' = IF held THEN holdoff ELSE [holdoff EXCEPT ![ns] = 0]
     /\ chaincache' = IF held \/ th[t].got = {} THEN chaincache ELSE [chaincache EXCEPT ![ns] = th[t].got]
     /\ Return(t)
     /\ UNCHANGED <<chainVars, entityCache, dotHashCache, dotFromInvCache, dotToInvCache,
                    dotFromCompleteCache, flushed, checkVars, trusted>>

Call(t) ==
  \/ Begin(t) \/ ResolveGranted(t) \/ CacheGranted(t) \/ LookDOT(t) \/ ReadDOT(t)
  \/ LookEntity(t) \/ ReadEntity(t) \/ CacheEntity(t) \/ CacheDOT(t) \/ CacheBuiltChains(t)

-----------------------------------------------------------------------------
(***************************************************************************)
(* Flushes                                                                 *)
(***************************************************************************)
FlushDOTs(ds) == dotHashCache' = [d \in DOTs |-> IF d \in ds THEN None ELSE dotHashCache[d]]

\* bug: only the DOTs granted to the entity are flushed
FlushEntityTo(e) ==
  /\ entityCache' = [entityCache EXCEPT ![e] = None]
  /\ FlushDOTs(dotToInvCache[e])
  /\ dotToInvCache' = [dotToInvCache EXCEPT ![e] = {}]
  /\ flushed' = flushed \cup {e}
  /\ UNCHANGED <<dotFromInvCache, dotFromCompleteCache, chaincache, holdoff>>

FlushEntity(e) ==
  /\ entityCache' = [entityCache EXCEPT ![e] = None]
  /\ FlushDOTs(dotToInvCache[e] \cup dotFromInvCache[e])
  /\ dotToInvCache' = [dotToInvCache EXCEPT ![e] = {}]
  /\ dotFromInvCache' = [dotFromInvCache EXCEPT ![e] = {}]
  /\ flushed' = flushed \cup {e}
  /\ UNCHANGED <<dotFromCompleteCache, chaincache, holdoff>>

FlushDOT(d) ==
  /\ FlushDOTs({d})
  /\ UNCHANGED <<entityCache, dotFromInvCache, dotToInvCache, dotFromCompleteCache, chaincache, holdoff, flushed>>

\* FlushGrantedFromCache, FlushChainNSVK and FlushDOT.  A namespace here is the
\* giver of its DOTs.
FlushNewDOT(d) ==
  /\ FlushDOTs({d})
  /\ dotFromCompleteCache' = [dotFromCompleteCache EXCEPT ![giver[d]] = None]
  /\ chaincache' = [chaincache EXCEPT ![giver[d]] = None]
  /\ holdoff' = [holdoff EXCEPT ![giver[d]] = CurrentBlock + Holdoff]
  /\ UNCHANGED <<entityCache, dotFromInvCache, dotToInvCache, flushed>>

\* checkChainChange, under its own lock.  The events of the last Replay blocks
\* are handled again.  The difference of block numbers is unsigned, so a head
\* below lastblock is a jump too.
Jumped == CurrentBlock < lastblock \/ CurrentBlock - lastblock > MaxJump

\* bug: only the blocks since the last check are looked at, none after a fork
FirstNew == IF lastblock < CurrentBlock THEN lastblock + 1 ELSE CurrentBlock + 1

FirstReplayed == IF lastblock > Replay THEN lastblock - Replay ELSE 1

CheckChainChange ==
  /\ todo = <<>> /\ CurrentBlock # lastblock
  /\ dropping' = (dropping \/ Jumped)
  /\ todo' = FlattenSeq([i \in 1 .. CurrentBlock - FirstReplayed + 1 |-> chain[FirstReplayed + i - 1].logs])
  /\ lastblock' = CurrentBlock
  /\ UNCHANGED <<chainVars, caches, th, trusted>>

HandleLog ==
  /\ todo # <<>> /\ todo' = Tail(todo)
  /\ CASE todo[1][1] = "AddDOT"    -> FlushNewDOT(todo[1][2])
       [] todo[1][1] = "RevokeDOT" -> FlushDOT(todo[1][2])
       [] OTHER                    -> FlushEntity(todo[1][2])
  /\ UNCHANGED <<chainVars, lastblock, dropping, th, trusted>>

DropAllCaches ==
  /\ dropping /\ dropping' = FALSE
  /\ ClearCaches
  /\ UNCHANGED <<chainVars, flushed, lastblock, todo, th, trusted>>

\* bug: only entities are looked at
FlushExpiredEntity(x) ==
  /\ x \in Entities /\ entityCache[x] # None /\ Over(entityExpiry[x], now) /\ FlushEntity(x)
  /\ UNCHANGED <<chainVars, checkVars, th, trusted>>

\* checkExpiryInv finds an expired object in the cache and has it flushed.
FlushExpired(x) ==
  /\ \/ x \in Entities /\ entityCache[x] # None /\ Over(entityExpiry[x], now) /\ FlushEntity(x)
     \/ x \in DOTs /\ dotHashCache[x] # None /\ Over(dotExpiry[x], now) /\ FlushDOT(x)
  /\ UNCHANGED <<chainVars, checkVars, th, trusted>>

Finished ==
  /\ \A t \in Threads : th[t].pc = "idle" /\ th[t].ops = <<>>
  /\ UNCHANGED vars

Expiring == {x \in Entities : entityExpiry[x] # 0} \cup {x \in DOTs : dotExpiry[x] # 0}

Next ==
  \/ ChainStep \/ CheckChainChange \/ HandleLog \/ DropAllCaches \/ Finished
  \/ \E t \in Threads : Call(t)
  \/ \E x \in Expiring : FlushExpired(x)

\* The goroutine of checkExpiryInv runs for ever, at least once an hour.
Spec == Init /\ [][Next]_vars /\ \A x \in Expiring : WF_vars(FlushExpired(x))

-----------------------------------------------------------------------------
(***************************************************************************)
(* Properties                                                              *)
(***************************************************************************)
TypeOK ==
  /\ HeadState \in Storage /\ Range(chain[CurrentBlock].logs) \subseteq Transaction
  /\ entityCache \in [Entities -> {"Valid", "Expired", "Revoked", None}]
  /\ dotHashCache \in [DOTs -> {"Valid", "Expired", "Revoked", None}]
  /\ dotFromInvCache \in [Entities -> SUBSET DOTs] /\ dotToInvCache \in [Entities -> SUBSET DOTs]
  /\ dotFromCompleteCache \in [Entities -> (SUBSET DOTs) \cup {None}]
  /\ chaincache \in [Entities -> ((SUBSET DOTs) \ {{}}) \cup {None}]
  /\ Range(todo) \subseteq Transaction /\ lastblock \in Nat /\ dropping \in BOOLEAN

\* The event of tx is still to be handled, or is recent enough that the next
\* check handles it again.
Covered(tx) ==
  \/ tx \in Range(todo)
  \/ \E i \in FirstReplayed .. CurrentBlock : tx \in Range(chain[i].logs)

\* A cached validity that a revocation has overtaken is not there to stay: a
\* resolver that read the chain before the revocation, or another's stale
\* entity, may write it after the flush, but never so late that the replay of
\* checkChainChange does not flush it again.  A DOT that dotToInvCache does not
\* list is not promised to follow its receiver.
StaleCovered ==
  /\ \A e \in Entities :
       entityCache[e] = "Valid" /\ HeadState.entity[e] = "Revoked" => Covered(<<"RevokeEntity", e>>)
  /\ \A d \in DOTs : dotHashCache[d] = "Valid" =>
       /\ HeadState.dot[d] = "Revoked" => Covered(<<"RevokeDOT", d>>)
       /\ HeadState.entity[giver[d]] = "Revoked" => Covered(<<"RevokeEntity", giver[d]>>)
       /\ HeadState.entity[receiver[d]] = "Revoked" /\ d \in dotToInvCache[receiver[d]]
            => Covered(<<"RevokeEntity", receiver[d]>>)

\* FlushEntity finds the cached DOTs of an entity through two indexes, and says
\* of them that they "are complete (cover all cached dots)".  The index by
\* giver is; the index by receiver is up to the first flush of the receiver,
\* after which cacheDOT does not enter the DOT again.
CachedIsIndexed ==
  \A d \in DOTs : dotHashCache[d] # None =>
    /\ d \in dotFromInvCache[giver[d]]
    /\ d \in dotToInvCache[receiver[d]] \/ receiver[d] \in flushed

\* "if a VK has an entry here, all of the DOTs that VK has granted will be
\* here": a list of grants, or of built chains, that lacks a DOT which resolves
\* as valid is flushed by the next replay, although lists are read Lag blocks
\* behind the event that flushes them.
NewGrantCovered ==
  \A d \in DOTs :
    /\ Lagged.dot[d] = "Valid"
    /\ sent \cap {<<"RevokeDOT", d>>, <<"RevokeEntity", giver[d]>>, <<"RevokeEntity", receiver[d]>>} = {}
    /\ now = 0
    => \A list \in {dotFromCompleteCache[giver[d]], chaincache[giver[d]]} :
         list # None /\ d \notin list => Covered(<<"AddDOT", d>>)

\* A DOT that was returned as valid, from the chain or from a cache, is and
\* stays registered, with its entities, whatever fork of at most Lag blocks
\* follows: the lag of ResolveDOT and ResolveEntity is there for this.
ValidIsDeep ==
  \A d \in trusted :
    "Unknown" \notin {HeadState.dot[d], HeadState.entity[giver[d]], HeadState.entity[receiver[d]]}

\* No sequence of transactions makes a revoked or expired object valid again,
\* or grants a DOT twice: from block to block the registry only adds to
\* DOTFromVK, and what is not valid any more stays as it is.
NeverRevived ==
  LET old == chain[CurrentBlock - 1].reg
      new == HeadState
  IN CurrentBlock > 1 =>
       /\ \A e \in Entities : /\ old.entity[e] \in {"Expired", "Revoked"} => new.entity[e] = old.entity[e]
                              /\ IsPrefix(old.granted[e], new.granted[e]) /\ IsInjective(new.granted[e])
       /\ \A d \in DOTs : old.dot[d] \in {"Expired", "Revoked"} => new.dot[d] = old.dot[d]

\* An expired DOT does not stay in the cache as valid, even if a resolver that
\* looked at its expiry before writes it back.
ExpiredLeaves ==
  \A d \in DOTs \cap Expiring : [](Over(dotExpiry[d], now) => <>[](dotHashCache[d] # "Valid"))
=============================================================================
