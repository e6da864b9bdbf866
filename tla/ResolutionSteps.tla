-------------------------- MODULE ResolutionSteps ---------------------------
(***************************************************************************)
(* The resolution cache, for any number of threads, objects and blocks,    *)
(* any plan and any bounds that satisfy the assumptions: what each step    *)
(* does to the chain, to a thread and to what is cached.                   *)
(***************************************************************************)
EXTENDS RegistryProofs

-----------------------------------------------------------------------------
(* Types, and what the invariants of ResolutionProofs are about *)

\* The chain, and what is pending.
ChainInv ==
  /\ plan \in Plans
  /\ ChainOf(chain) /\ Len(chain) >= 1
  /\ final \in 1 .. Len(chain) /\ Len(chain) <= final + Lag
  /\ pool \subseteq Transaction /\ IsFiniteSet(pool)

Result == {"Valid", "Expired", "Revoked"}

\* The caches and the check for new blocks.
CacheTypes ==
  /\ entityCache \in [Entities -> Result \cup {None}] /\ dotHashCache \in [DOTs -> Result \cup {None}]
  /\ dotFromInvCache \in [Entities -> SUBSET DOTs] /\ dotToInvCache \in [Entities -> SUBSET DOTs]
  /\ dotFromCompleteCache \in [Entities -> (SUBSET DOTs) \cup {None}]
  /\ chaincache \in [Entities -> ((SUBSET DOTs) \ {{}}) \cup {None}]
  /\ \A e \in Entities :
       /\ dotFromCompleteCache[e] # None => IsFiniteSet(dotFromCompleteCache[e])
       /\ chaincache[e] # None => IsFiniteSet(chaincache[e])
  /\ todo \in Seq(Event) /\ lastblock \in Nat /\ dropping \in BOOLEAN
  /\ trusted \subseteq DOTs

Pcs == {"idle", "granted", "cacheGranted", "look", "dot", "entity", "readEntity", "cacheEntity", "cacheDOT", "built"}

\* Where a thread has a DOT to resolve.
Resolving == {"look", "dot", "entity", "readEntity", "cacheEntity", "cacheDOT"}

ThreadTypes(x) ==
  /\ x \in [ops : Seq(Calls), pc : Pcs, kind : {"dot", "chain", "build", "cached", None}, list : Seq(DOTs),
            got : SUBSET DOTs, side : {"giver", "receiver", None}, read : Result \cup {None}, since : Nat]
  /\ IsFiniteSet(x.got)
  /\ x.pc # "idle" => x.ops # <<>>
  /\ x.pc \in Resolving => x.list # <<>>
  /\ x.pc # "idle" /\ x.kind = "build" => x.ops[1][1] = "build"
  /\ x.pc \in {"granted", "cacheGranted", "built"} => x.kind = "build"
  /\ x.pc \in {"cacheEntity", "cacheDOT"} => x.read \in Result

Types == CacheTypes /\ DOMAIN th = Threads /\ \A t \in Threads : ThreadTypes(th[t])

\* What is registered in the last block that no fork undoes.
EntityKnown(e) == chain[final].reg.entity[e] # "Unknown"
DOTKnown(d) == chain[final].reg.dot[d] # "Unknown"

EntityIn(x) == IF x.side = "giver" THEN giver[Head(x.list)] ELSE receiver[Head(x.list)]

\* How late a thread and a check may be, as blocks and as forks have it.
Late == IF Stall >= Lag - 1 THEN Stall ELSE Lag - 1
Behind == IF Delay >= Lag - 1 THEN Delay ELSE Lag - 1

\* What no block up to the n-th revokes.
EntityLives(c, e, n) == \A i \in 1 .. Len(c) : i <= n => c[i].reg.entity[e] # "Revoked"
DOTLives(c, d, n) == \A i \in 1 .. Len(c) : i <= n => c[i].reg.dot[d] # "Revoked"
EntityAlive(e, n) == EntityLives(chain, e, n)
DOTAlive(d, n) == DOTLives(chain, d, n)

-----------------------------------------------------------------------------
(* The chain *)

LEMMA Bounds ==
  /\ Lag \in Nat /\ Replay \in Nat /\ Stall \in Nat /\ Delay \in Nat /\ Holdoff \in Nat
  /\ Late \in Nat /\ Late >= Stall /\ Late >= Lag - 1
  /\ Behind \in Nat /\ Behind >= Delay /\ Behind >= Lag - 1
  /\ 2 * Late + Behind + Delay + Lag <= Replay + 1
<1>1. /\ Lag \in Nat /\ Replay \in Nat /\ Stall \in Nat /\ Delay \in Nat /\ Holdoff \in Nat
      /\ \A a \in {Stall, Lag - 1}, b \in {Delay, Lag - 1} : 2 * a + b + Delay + Lag <= Replay + 1
  BY ResolutionAssumption, Zenon
<1>2. Late \in {Stall, Lag - 1} /\ Behind \in {Delay, Lag - 1}
  BY Zenon DEF Late, Behind
<1>3. 2 * Late + Behind + Delay + Lag <= Replay + 1
  BY <1>1, <1>2, Zenon
<1>4. Late \in Nat /\ Late >= Stall /\ Late >= Lag - 1
  BY <1>1 DEF Late
<1>5. Behind \in Nat /\ Behind >= Delay /\ Behind >= Lag - 1
  BY <1>1 DEF Behind
<1> QED
  BY <1>1, <1>3, <1>4, <1>5, Zenon

LEMMA ChainFacts ==
  ASSUME ChainInv
  PROVE  /\ CurrentBlock \in Nat /\ CurrentBlock >= 1 /\ CurrentBlock = Len(chain) /\ chain \in Seq(BlockType)
         /\ HeadState = After(chain, CurrentBlock) /\ HeadState \in Storage
         /\ \A i \in 1 .. CurrentBlock :
              chain[i] \in BlockType /\ chain[i].reg = After(chain, i) /\ chain[i].logs \in Seq(Event)
         /\ final \in Nat /\ final >= 1 /\ final <= CurrentBlock /\ CurrentBlock <= final + Lag
<1>1. chain \in Seq(BlockType) /\ Len(chain) >= 1 /\ ChainOf(chain) /\ final \in 1 .. Len(chain)
      /\ Len(chain) <= final + Lag
  BY Zenon DEF ChainInv, ChainOf
<1>2. Len(chain) \in Nat
  BY <1>1
<1>3. ASSUME NEW i \in 1 .. Len(chain)
      PROVE chain[i] \in BlockType /\ chain[i].reg = After(chain, i) /\ chain[i].logs \in Seq(Event)
  <2>1. chain[i] \in BlockType /\ i # 0
    BY <1>1, <1>2
  <2> QED
    BY <2>1, Zenon DEF BlockType, After
<1>4. After(chain, Len(chain)) \in Storage
  BY <1>1, <1>2, AfterIs
<1> QED
  BY <1>1, <1>2, <1>3, <1>4 DEF CurrentBlock, HeadState

LEMMA InitChain == Init => ChainInv
<1> SUFFICES ASSUME Init PROVE ChainInv
  OBVIOUS
<1>1. plan \in Plans /\ chain = Genesis(plan.blocks) /\ pool = {} /\ final = Deep(Len(chain), 1)
  BY Zenon DEF Init
<1>2. plan.blocks \in Seq(Seq(Transaction)) /\ plan.blocks # <<>>
  BY <1>1, PlansAssumption, Zenon
<1>3. Len(plan.blocks) \in Nat /\ Len(plan.blocks) >= 1
  BY <1>2
<1>4. ChainOf(chain) /\ Len(chain) = Len(plan.blocks)
  BY <1>1, <1>2, GenesisIs, Zenon
<1>5. final \in 1 .. Len(chain) /\ Len(chain) <= final + Lag
  BY <1>1, <1>3, <1>4, Bounds DEF Deep
<1>6. pool \subseteq Transaction /\ IsFiniteSet(pool)
  BY <1>1, FS_EmptySet, Zenon
<1> QED
  BY <1>1, <1>3, <1>4, <1>5, <1>6, ZenonT(30) DEF ChainInv

\* The blocks that are final stay, and so does what they say.
SameDeep ==
  /\ final \in 1 .. Len(chain') /\ final <= final'
  /\ \A i \in 1 .. final : chain'[i] = chain[i]

LEMMA OneBlock ==
  ASSUME NEW c, ChainOf(c), Len(c) >= 1, NEW txs \in {<<>>} \cup {<<tx>> : tx \in pool}, pool \subseteq Transaction, NEW time
  PROVE  LET b == Block(c[Len(c)].reg, txs, time) IN
         /\ ChainOf(Append(c, b)) /\ Len(Append(c, b)) = Len(c) + 1
         /\ \A n \in 1 .. Len(c) : Append(c, b)[n] = c[n]
<1>1. txs \in Seq(Transaction)
  <2>1. CASE txs = <<>>
    BY <2>1
  <2>2. ASSUME NEW tx \in pool, txs = <<tx>> PROVE txs \in Seq(Transaction)
    BY <2>2
  <2> QED
    BY <2>1, <2>2, Zenon
<1>2. Len(c) \in Nat /\ c[Len(c)].reg = After(c, Len(c)) /\ After(c, Len(c)) \in Storage
  <2>1. Len(c) \in Nat
    BY DEF ChainOf
  <2> QED
    BY <2>1, AfterIs DEF After
<1> DEFINE b == Block(c[Len(c)].reg, txs, time)
<1>3. Built(After(c, Len(c)), b)
  BY <1>1, <1>2, BlockKeeps, Zenon
<1> HIDE DEF b
<1> QED
  BY <1>3, ChainAppend, Zenon DEF b

LEMMA MineChain ==
  ASSUME ChainInv, NEW txs \in {<<>>} \cup {<<tx>> : tx \in pool}, Mine(txs)
  PROVE  ChainInv' /\ SameDeep /\ Len(chain') = CurrentBlock + 1
<1>1. /\ CurrentBlock \in Nat /\ CurrentBlock >= 1 /\ CurrentBlock = Len(chain)
      /\ final \in Nat /\ final >= 1 /\ final <= CurrentBlock /\ CurrentBlock <= final + Lag
  BY ChainFacts, Zenon
<1>2. plan \in Plans /\ ChainOf(chain) /\ pool \subseteq Transaction /\ IsFiniteSet(pool)
  BY Zenon DEF ChainInv
<1> DEFINE b == Block(chain[Len(chain)].reg, txs, now)
<1>3. chain' = Append(chain, b)
  BY Zenon DEF Mine, HeadState, CurrentBlock
<1>4. plan' = plan /\ pool' = pool \ Range(txs) /\ final' = Deep(CurrentBlock + 1, final)
  BY Zenon DEF Mine
<1>5. /\ ChainOf(Append(chain, b)) /\ Len(Append(chain, b)) = Len(chain) + 1
      /\ \A n \in 1 .. Len(chain) : Append(chain, b)[n] = chain[n]
  BY <1>1, <1>2, OneBlock, Zenon
<1> HIDE DEF b
<1>6. Len(chain') = CurrentBlock + 1 /\ ChainOf(chain') /\ \A n \in 1 .. CurrentBlock : chain'[n] = chain[n]
  BY <1>1, <1>3, <1>5, Zenon
<1>7. final' \in 1 .. Len(chain') /\ Len(chain') <= final' + Lag /\ final <= final'
  BY <1>1, <1>4, <1>6, Bounds DEF Deep
<1>8. pool' \subseteq Transaction /\ IsFiniteSet(pool')
  BY <1>2, <1>4, FS_Difference, Zenon
<1>9. ChainInv'
  BY <1>1, <1>2, <1>4, <1>6, <1>7, <1>8 DEF ChainInv
<1>10. SameDeep
  BY <1>1, <1>6, <1>7 DEF SameDeep
<1> QED
  BY <1>6, <1>9, <1>10, Zenon

LEMMA LostIs ==
  ASSUME ChainInv, NEW k \in Nat
  PROVE  LET lost == UNION {Range(chain[i].logs) : i \in CurrentBlock - k + 1 .. CurrentBlock}
         IN CurrentBlock - k >= final => lost \subseteq Event /\ IsFiniteSet(lost)
<1> DEFINE I == CurrentBlock - k + 1 .. CurrentBlock
           sets == {Range(chain[i].logs) : i \in I}
<1> SUFFICES ASSUME CurrentBlock - k >= final PROVE UNION sets \subseteq Event /\ IsFiniteSet(UNION sets)
  OBVIOUS
<1>1. /\ CurrentBlock \in Nat /\ final \in Nat /\ final >= 1
      /\ \A i \in 1 .. CurrentBlock : chain[i].logs \in Seq(Event)
  BY ChainFacts, Zenon
<1>2. \A i \in I : i \in 1 .. CurrentBlock
  BY <1>1
<1>3. IsFiniteSet(I)
  BY <1>1, FS_Interval
<1> HIDE DEF I
<1>4. \A T \in sets : T \subseteq Event /\ IsFiniteSet(T)
  BY <1>1, <1>2, RangeIs, Zenon
<1>5. IsFiniteSet(sets)
  <2> DEFINE f == [i \in I |-> Range(chain[i].logs)]
  <2>1. f \in Surjection(I, sets)
    BY Zenon DEF Surjection
  <2> HIDE DEF f, sets
  <2> QED
    BY <1>3, <2>1, FS_Surjection, Zenon
<1> HIDE DEF sets
<1> QED
  BY <1>4, <1>5, FS_UNION, Zenon

LEMMA ForkChain ==
  ASSUME ChainInv, NEW txs \in {<<>>} \cup {<<tx>> : tx \in pool}, NEW k \in 1 .. Lag, Fork(k, txs)
  PROVE  ChainInv' /\ SameDeep /\ Len(chain') = CurrentBlock - k + 1
<1>1. /\ CurrentBlock \in Nat /\ CurrentBlock >= 1 /\ CurrentBlock = Len(chain)
      /\ final \in Nat /\ final >= 1 /\ final <= CurrentBlock /\ CurrentBlock <= final + Lag
  BY ChainFacts, Zenon
<1>2. plan \in Plans /\ ChainOf(chain) /\ pool \subseteq Transaction /\ IsFiniteSet(pool) /\ k \in Nat /\ k >= 1
  BY Bounds DEF ChainInv
<1> DEFINE m == CurrentBlock - k
           kept == SubSeq(chain, 1, m)
           lost == UNION {Range(chain[i].logs) : i \in CurrentBlock - k + 1 .. CurrentBlock}
           b == Block(chain[m].reg, txs, now)
<1>3. plan' = plan /\ final' = final /\ m >= final /\ pool' = (pool \cup lost) \ Range(txs) /\ chain' = Append(kept, b)
  BY Zenon DEF Fork
<1>4. m \in 1 .. Len(chain) /\ m < CurrentBlock
  BY <1>1, <1>2, <1>3
<1>5. ChainOf(kept) /\ Len(kept) = m /\ \A n \in 1 .. m : kept[n] = chain[n]
  BY <1>2, <1>4, ChainPrefix, Zenon
<1> HIDE DEF kept
<1>6. /\ ChainOf(Append(kept, b)) /\ Len(Append(kept, b)) = m + 1
      /\ \A n \in 1 .. m : Append(kept, b)[n] = kept[n]
  <2>1. Len(kept) >= 1
    BY <1>1, <1>4, <1>5
  <2>2. b = Block(kept[Len(kept)].reg, txs, now)
    BY <1>4, <1>5
  <2> HIDE DEF b
  <2>3. /\ ChainOf(Append(kept, b)) /\ Len(Append(kept, b)) = Len(kept) + 1
        /\ \A n \in 1 .. Len(kept) : Append(kept, b)[n] = kept[n]
    BY <1>2, <1>5, <2>1, <2>2, OneBlock, ZenonT(30)
  <2> QED
    BY <1>5, <2>3, Zenon
<1> HIDE DEF b
<1>7. ChainOf(chain') /\ Len(chain') = m + 1 /\ \A n \in 1 .. m : chain'[n] = chain[n]
  BY <1>3, <1>5, <1>6, Zenon
<1>8. lost \subseteq Event /\ IsFiniteSet(lost)
  BY <1>2, <1>3, LostIs, Zenon
<1>9. pool' \subseteq Transaction /\ IsFiniteSet(pool')
  <2>1. Event \subseteq Transaction
    BY Zenon DEF Event, Transaction
  <2> HIDE DEF lost
  <2>2. IsFiniteSet(pool \cup lost)
    BY <1>2, <1>8, FS_Union, Zenon
  <2> QED
    BY <1>2, <1>3, <1>8, <2>1, <2>2, FS_Difference, ZenonT(30)
<1>10. final' \in 1 .. Len(chain') /\ Len(chain') <= final' + Lag /\ Len(chain') >= 1
  <2>1. m \in Nat /\ m + 1 <= CurrentBlock /\ m >= final
    BY <1>1, <1>3, <1>4
  <2>2. Len(chain') = m + 1 /\ final' = final
    BY <1>3, <1>7, Zenon
  <2> HIDE DEF m
  <2> QED
    BY <1>1, <2>1, <2>2, Bounds
<1>11. ChainInv'
  BY <1>2, <1>3, <1>7, <1>9, <1>10, Zenon DEF ChainInv
<1>12. SameDeep
  BY <1>1, <1>3, <1>4, <1>7, <1>10 DEF SameDeep
<1> QED
  BY <1>7, <1>11, <1>12, Zenon

LEMMA NotChain ==
  ASSUME [Next]_vars, ~ChainStep
  PROVE  UNCHANGED chainVars
<1>1. ASSUME NEW t, Call(t) PROVE UNCHANGED chainVars
  BY <1>1, Zenon DEF Call, Begin, ResolveGranted, CacheGranted, LookDOT, ReadDOT, LookEntity, ReadEntity, CacheEntity,
              CacheDOT, CacheBuiltChains
<1>2. CASE CheckChainChange \/ HandleLog \/ DropAllCaches \/ Finished \/ UNCHANGED vars
  BY <1>2, Zenon DEF CheckChainChange, HandleLog, DropAllCaches, Finished, vars
<1>3. ASSUME NEW x, FlushExpired(x) PROVE UNCHANGED chainVars
  BY <1>3, Zenon DEF FlushExpired
<1> QED
  BY <1>1, <1>2, <1>3, Zenon DEF Next

LEMMA SameChain ==
  ASSUME ChainInv, UNCHANGED <<plan, chain, final>>, pool' \subseteq Transaction, IsFiniteSet(pool')
  PROVE  ChainInv' /\ SameDeep
<1>1. ChainInv'
  BY Zenon DEF ChainInv
<1>2. SameDeep
  BY ChainFacts DEF SameDeep
<1> QED
  BY <1>1, <1>2, Zenon

\* Every step keeps the chain a chain, and the blocks that are final.
LEMMA StepChain == ChainInv /\ [Next]_vars => ChainInv' /\ SameDeep
<1> SUFFICES ASSUME ChainInv, [Next]_vars PROVE ChainInv' /\ SameDeep
  OBVIOUS
<1>0. pool \subseteq Transaction /\ IsFiniteSet(pool)
  BY Zenon DEF ChainInv
<1>1. CASE ~ChainStep
  <2>1. UNCHANGED <<plan, chain, final, pool>>
    BY <1>1, NotChain, Zenon DEF chainVars
  <2> QED
    BY <1>0, <2>1, SameChain, Zenon
<1>2. ASSUME NEW tx \in Transaction, Send(tx) PROVE ChainInv' /\ SameDeep
  <2>1. UNCHANGED <<plan, chain, final>> /\ pool' = pool \cup {tx}
    BY <1>2, Zenon DEF Send
  <2>2. pool' \subseteq Transaction /\ IsFiniteSet(pool')
    BY <1>0, <2>1, FS_AddElement, Zenon
  <2> QED
    BY <2>1, <2>2, SameChain, Zenon
<1>3. ASSUME NEW txs \in {<<>>} \cup {<<tx>> : tx \in pool}, Mine(txs) \/ \E k \in 1 .. Lag : Fork(k, txs)
      PROVE  ChainInv' /\ SameDeep
  BY <1>3, MineChain, ForkChain, Zenon
<1>4. CASE Tick
  <2>1. UNCHANGED <<plan, chain, final, pool>>
    BY <1>4, Zenon DEF Tick
  <2> QED
    BY <1>0, <2>1, SameChain, Zenon
<1> QED
  BY <1>1, <1>2, <1>3, <1>4, Zenon DEF ChainStep

LEMMA ChainAlways == Spec => []ChainInv
<1>1. ChainInv /\ [Next]_vars => ChainInv'
  BY StepChain, Zenon
<1> QED
  BY <1>1, InitChain, PTL DEF Spec

LEMMA ExtendsIsPrefix ==
  ASSUME NEW q \in Seq(DOTs), NEW r \in Seq(DOTs), Extends(q, r)
  PROVE  IsPrefix(q, r)
<1>1. Len(q) \in Nat /\ Len(r) \in Nat /\ Len(q) <= Len(r) /\ \A i \in 1 .. Len(q) : r[i] = q[i]
  BY DEF Extends
<1>2. q = [i \in 1 .. Len(q) |-> q[i]]
  OBVIOUS
<1>3. SubSeq(r, 1, Len(q)) = [i \in 1 .. Len(q) |-> r[i]]
  BY <1>1
<1>4. [i \in 1 .. Len(q) |-> q[i]] = [i \in 1 .. Len(q) |-> r[i]]
  BY <1>1, Zenon
<1> QED
  BY <1>1, <1>2, <1>3, <1>4, Zenon DEF IsPrefix

\* The contract never makes a revoked or expired object valid again and never
\* lists a DOT twice in DOTFromVK, whatever transactions blocks execute, in
\* whatever order and at whatever times, and whatever forks there are.
THEOREM RegistryOnlyAdds == Spec => []NeverRevived
<1>1. ChainInv => NeverRevived
  <2> SUFFICES ASSUME ChainInv, CurrentBlock > 1
               PROVE  LET old == chain[CurrentBlock - 1].reg
                          new == HeadState
                      IN /\ \A e \in Entities :
                              /\ old.entity[e] \in {"Expired", "Revoked"} => new.entity[e] = old.entity[e]
                              /\ IsPrefix(old.granted[e], new.granted[e]) /\ IsInjective(new.granted[e])
                         /\ \A d \in DOTs : old.dot[d] \in {"Expired", "Revoked"} => new.dot[d] = old.dot[d]
    BY Zenon DEF NeverRevived
  <2> DEFINE old == After(chain, CurrentBlock - 1)
             new == After(chain, CurrentBlock)
  <2>1. CurrentBlock \in Nat /\ CurrentBlock = Len(chain) /\ HeadState = new
    BY ChainFacts, Zenon
  <2>2. chain[CurrentBlock - 1].reg = old
    BY <2>1 DEF After
  <2>3. ChainOf(chain)
    BY Zenon DEF ChainInv
  <2>4. Step(old, new)
    <3>1. CurrentBlock - 1 \in 0 .. Len(chain) /\ CurrentBlock \in CurrentBlock - 1 .. Len(chain)
      BY <2>1
    <3> QED
      BY <2>3, <3>1, ChainGrows, Zenon
  <2>5. Listed(new)
    <3>1. Step(After(chain, 0), new)
      <4>1. 0 \in 0 .. Len(chain) /\ CurrentBlock \in 0 .. Len(chain)
        BY <2>1
      <4> QED
        BY <2>3, <4>1, ChainGrows, Zenon
    <3>2. After(chain, 0) = Empty
      BY Zenon DEF After
    <3> HIDE DEF new
    <3> QED
      BY <3>1, <3>2, EmptyIs, Zenon DEF Step
  <2>6. old \in Storage /\ new \in Storage
    BY <2>1, <2>3, AfterIs
  <2> HIDE DEF old, new
  <2>7. ASSUME NEW e \in Entities PROVE IsPrefix(old.granted[e], new.granted[e])
    <3>1. Extends(old.granted[e], new.granted[e])
      BY <2>4, Zenon DEF Step, Grows
    <3>2. old.granted[e] \in Seq(DOTs) /\ new.granted[e] \in Seq(DOTs)
      BY <2>6, StorageIs, Zenon
    <3> QED
      BY <3>1, <3>2, ExtendsIsPrefix, Zenon
  <2>8. \A e \in Entities : old.entity[e] \in {"Expired", "Revoked"} => new.entity[e] = old.entity[e]
    BY <2>4, Zenon DEF Step, Grows, Ages
  <2>9. \A d \in DOTs : old.dot[d] \in {"Expired", "Revoked"} => new.dot[d] = old.dot[d]
    BY <2>4, Zenon DEF Step, Grows, Ages
  <2>10. \A e \in Entities : IsInjective(new.granted[e])
    BY <2>5, Zenon DEF Listed
  <2> QED
    BY <2>1, <2>2, <2>7, <2>8, <2>9, <2>10, Zenon
<1> QED
  BY <1>1, ChainAlways, PTL

-----------------------------------------------------------------------------
(* What the node answers *)

LEMMA PendingIs ==
  ASSUME ChainInv
  PROVE  Pending \in Storage /\ Step(HeadState, Pending)
<1>1. SetToSeq(pool) \in Seq(Transaction)
  <2>1. SetToSeq(pool) \in Seq(pool) /\ pool \subseteq Transaction
    BY SetToSeqIs, Zenon DEF ChainInv
  <2> QED
    BY <2>1
<1>2. Built(HeadState, Block(HeadState, SetToSeq(pool), now))
  BY <1>1, ChainFacts, BlockKeeps, Zenon
<1> QED
  BY <1>2, Zenon DEF Built, Pending, BlockType

LEMMA LaggedIs ==
  ASSUME ChainInv
  PROVE  Lagged \in Storage
<1>1. CASE CurrentBlock > Lag
  <2>1. CurrentBlock - Lag \in 1 .. CurrentBlock
    BY <1>1, ChainFacts, Bounds
  <2> QED
    BY <1>1, <2>1, ChainFacts, Zenon DEF Lagged, BlockType
<1>2. CASE ~(CurrentBlock > Lag)
  BY <1>2, EmptyIs, Zenon DEF Lagged
<1> QED
  BY <1>1, <1>2, Zenon

LEMMA StateOfIs ==
  ASSUME ChainInv
  PROVE  /\ \A e \in Entities : StateOf("entity", e) \in Validity
         /\ \A d \in DOTs : StateOf("dot", d) \in Validity
<1>1. Pending \in Storage /\ Lagged \in Storage
  BY PendingIs, LaggedIs, Zenon
<1>2. /\ \A e \in Entities : Pending.entity[e] \in Validity /\ Lagged.entity[e] \in Validity
      /\ \A d \in DOTs : Pending.dot[d] \in Validity /\ Lagged.dot[d] \in Validity
  BY <1>1, StorageIs, Zenon
<1> QED
  BY <1>2, Zenon DEF StateOf

\* What the node says is valid is registered in the last final block and was
\* not revoked on the chain.
LEMMA ValidIs ==
  ASSUME ChainInv
  PROVE  /\ \A e \in Entities : StateOf("entity", e) = "Valid" => EntityKnown(e) /\ EntityAlive(e, CurrentBlock)
         /\ \A d \in DOTs : StateOf("dot", d) = "Valid" => DOTKnown(d) /\ DOTAlive(d, CurrentBlock)
<1>1. /\ CurrentBlock \in Nat /\ CurrentBlock = Len(chain) /\ HeadState = After(chain, CurrentBlock)
      /\ \A i \in 1 .. CurrentBlock : chain[i].reg = After(chain, i)
      /\ final \in Nat /\ final >= 1 /\ final <= CurrentBlock /\ CurrentBlock <= final + Lag
  BY ChainFacts, Zenon
<1>2. ChainOf(chain)
  BY Zenon DEF ChainInv
<1>3. Grows(HeadState, Pending)
  BY PendingIs, Zenon DEF Step
<1>4. ASSUME NEW i \in 1 .. CurrentBlock PROVE Grows(chain[i].reg, HeadState)
  <2>1. i \in 0 .. Len(chain) /\ CurrentBlock \in i .. Len(chain)
    BY <1>1
  <2>2. Step(After(chain, i), After(chain, CurrentBlock))
    BY <1>2, <2>1, ChainGrows, Zenon
  <2> QED
    BY <1>1, <2>2, Zenon DEF Step
<1>5. Grows(Lagged, chain[final].reg)
  <2>1. CASE CurrentBlock > Lag
    <3>1. CurrentBlock - Lag \in 0 .. Len(chain) /\ final \in CurrentBlock - Lag .. Len(chain)
          /\ CurrentBlock - Lag \in 1 .. CurrentBlock /\ final \in 1 .. CurrentBlock
      BY <1>1, <2>1, Bounds
    <3>2. Step(After(chain, CurrentBlock - Lag), After(chain, final))
      BY <1>2, <3>1, ChainGrows, Zenon
    <3> QED
      BY <1>1, <2>1, <3>1, <3>2, Zenon DEF Step, Lagged
  <2>2. CASE ~(CurrentBlock > Lag)
    <3>1. 0 \in 0 .. Len(chain) /\ final \in 0 .. Len(chain) /\ final \in 1 .. CurrentBlock
      BY <1>1
    <3>2. Step(After(chain, 0), After(chain, final)) /\ After(chain, 0) = Empty
      BY <1>2, <3>1, ChainGrows, Zenon DEF After
    <3> QED
      BY <1>1, <2>2, <3>1, <3>2, Zenon DEF Step, Lagged
  <2> QED
    BY <2>1, <2>2, Zenon
<1>6. ASSUME NEW e \in Entities, StateOf("entity", e) = "Valid" PROVE EntityKnown(e) /\ EntityAlive(e, CurrentBlock)
  <2>1. Pending.entity[e] = "Valid" /\ Lagged.entity[e] = "Valid"
    BY <1>6, Zenon DEF StateOf
  <2>2. HeadState.entity[e] # "Revoked" /\ chain[final].reg.entity[e] # "Unknown"
    BY <1>3, <1>5, <2>1, Zenon DEF Grows, Ages
  <2>3. \A i \in 1 .. CurrentBlock : chain[i].reg.entity[e] # "Revoked"
    BY <1>4, <2>2, Zenon DEF Grows, Ages
  <2> QED
    BY <1>1, <2>2, <2>3, Zenon DEF EntityKnown, EntityAlive, EntityLives
<1>7. ASSUME NEW d \in DOTs, StateOf("dot", d) = "Valid" PROVE DOTKnown(d) /\ DOTAlive(d, CurrentBlock)
  <2>1. Pending.dot[d] = "Valid" /\ Lagged.dot[d] = "Valid"
    BY <1>7, Zenon DEF StateOf
  <2>2. HeadState.dot[d] # "Revoked" /\ chain[final].reg.dot[d] # "Unknown"
    BY <1>3, <1>5, <2>1, Zenon DEF Grows, Ages
  <2>3. \A i \in 1 .. CurrentBlock : chain[i].reg.dot[d] # "Revoked"
    BY <1>4, <2>2, Zenon DEF Grows, Ages
  <2> QED
    BY <1>1, <2>2, <2>3, Zenon DEF DOTKnown, DOTAlive, DOTLives
<1> QED
  BY <1>6, <1>7, Zenon

-----------------------------------------------------------------------------
(* Threads *)

\* A step of thread t that makes it x.
Moved(t, x) == DOMAIN th' = Threads /\ th'[t] = x /\ \A u \in Threads \ {t} : th'[u] = th[u]

LEMMA Sets ==
  ASSUME DOMAIN th = Threads, NEW t \in Threads, NEW x, Set(t, x)
  PROVE  Moved(t, x)
BY Zenon DEF Set, Moved

LEMMA ThreadIs ==
  ASSUME NEW x, ThreadTypes(x)
  PROVE  /\ x.ops \in Seq(Calls) /\ x.pc \in Pcs /\ x.kind \in {"dot", "chain", "build", "cached", None}
         /\ x.list \in Seq(DOTs) /\ x.got \in SUBSET DOTs /\ x.side \in {"giver", "receiver", None}
         /\ x.read \in Result \cup {None} /\ x.since \in Nat
         /\ x.pc # "idle" => x.ops # <<>> /\ x.ops[1] \in Calls /\ Tail(x.ops) \in Seq(Calls)
         /\ x.pc \in Resolving => /\ x.list # <<>> /\ Head(x.list) \in DOTs /\ Tail(x.list) \in Seq(DOTs)
                                  /\ EntityIn(x) \in Entities
<1>1. /\ x.ops \in Seq(Calls) /\ x.pc \in Pcs /\ x.kind \in {"dot", "chain", "build", "cached", None}
      /\ x.list \in Seq(DOTs) /\ x.got \in SUBSET DOTs /\ x.side \in {"giver", "receiver", None}
      /\ x.read \in Result \cup {None} /\ x.since \in Nat
  BY Zenon DEF ThreadTypes
<1>2. (x.pc # "idle" => x.ops # <<>>) /\ (x.pc \in Resolving => x.list # <<>>)
  BY Zenon DEF ThreadTypes
<1>3. x.ops # <<>> => x.ops[1] \in Calls /\ Tail(x.ops) \in Seq(Calls)
  BY <1>1
<1>4. x.list # <<>> => Head(x.list) \in DOTs /\ Tail(x.list) \in Seq(DOTs)
  BY <1>1
<1>5. x.list # <<>> => EntityIn(x) \in Entities
  BY <1>4, RegistryAssumption, Zenon DEF EntityIn
<1> QED
  BY <1>1, <1>2, <1>3, <1>4, <1>5, Zenon

LEMMA IdleTypes ==
  ASSUME NEW ops \in Seq(Calls)
  PROVE  ThreadTypes(Idle(ops)) /\ Idle(ops).pc = "idle"
<1>1. <<>> \in Seq(DOTs) /\ IsFiniteSet({})
  BY FS_EmptySet
<1> QED
  BY <1>1, Zenon DEF ThreadTypes, Idle, Pcs, Resolving

LEMMA Returns ==
  ASSUME Types, NEW t \in Threads, th[t].ops # <<>>, Return(t)
  PROVE  \E x : Moved(t, x) /\ ThreadTypes(x) /\ x.pc = "idle"
<1> DEFINE x == Idle(Tail(th[t].ops))
<1>1. Moved(t, x)
  BY Zenon DEF Return, Moved, Types
<1>2. Tail(th[t].ops) \in Seq(Calls)
  <2>1. th[t].ops \in Seq(Calls)
    BY ThreadIs, Zenon DEF Types
  <2> QED
    BY <2>1
<1>3. ThreadTypes(x) /\ x.pc = "idle"
  BY <1>2, IdleTypes, Zenon
<1> HIDE DEF x
<1> QED
  BY <1>1, <1>3, Zenon

\* A thread between two DOTs, or after the last one.
Between(old, x, list, got) ==
  \/ x.pc = "idle"
  \/ x.pc = "look" /\ x = [old EXCEPT !.pc = "look", !.list = list, !.got = got]
  \/ x.pc = "built" /\ x = [old EXCEPT !.pc = "built", !.got = got] /\ list = <<>>

LEMMA Continues ==
  ASSUME Types, NEW t \in Threads, th[t].pc # "idle", NEW list \in Seq(DOTs), NEW got \in SUBSET DOTs,
         IsFiniteSet(got), Continue(t, list, got)
  PROVE  \E x : Moved(t, x) /\ ThreadTypes(x) /\ Between(th[t], x, list, got)
<1>0. DOMAIN th = Threads /\ ThreadTypes(th[t]) /\ th[t].ops # <<>>
  BY Zenon DEF Types, ThreadTypes
<1>1. CASE list # <<>>
  <2> DEFINE x == [th[t] EXCEPT !.pc = "look", !.list = list, !.got = got]
  <2>1. Moved(t, x)
    BY <1>0, <1>1, Sets, Zenon DEF Continue
  <2>2. ThreadTypes(x) /\ x.pc = "look"
    BY <1>0, <1>1, Zenon DEF ThreadTypes, Pcs, Resolving
  <2> QED
    BY <2>1, <2>2, Zenon DEF Between
<1>2. CASE list = <<>> /\ th[t].kind = "build"
  <2> DEFINE x == [th[t] EXCEPT !.pc = "built", !.got = got]
  <2>1. Moved(t, x)
    BY <1>0, <1>2, Sets, Zenon DEF Continue
  <2>2. ThreadTypes(x) /\ x.pc = "built"
    BY <1>0, <1>2, Zenon DEF ThreadTypes, Pcs, Resolving
  <2> QED
    BY <1>2, <2>1, <2>2, Zenon DEF Between
<1>3. CASE list = <<>> /\ th[t].kind # "build"
  <2>1. Return(t)
    BY <1>3, Zenon DEF Continue
  <2> QED
    BY <1>0, <2>1, Returns, Zenon DEF Between
<1> QED
  BY <1>1, <1>2, <1>3, Zenon

LEMMA Answers ==
  ASSUME Types, NEW t \in Threads, th[t].pc \in Resolving, NEW s, Answer(t, s)
  PROVE  LET d == Head(th[t].list) IN
         /\ trusted' = IF s = "Valid" THEN trusted \cup {d} ELSE trusted
         /\ \E x : /\ Moved(t, x) /\ ThreadTypes(x)
                   /\ Between(th[t], x, Tail(th[t].list), IF s = "Valid" THEN th[t].got \cup {d} ELSE th[t].got)
<1> DEFINE d == Head(th[t].list)
           got == IF s = "Valid" THEN th[t].got \cup {d} ELSE th[t].got
<1>0. ThreadTypes(th[t])
  BY Zenon DEF Types
<1>1. /\ th[t].pc # "idle" /\ th[t].ops # <<>> /\ th[t].got \in SUBSET DOTs /\ IsFiniteSet(th[t].got)
      /\ d \in DOTs /\ Tail(th[t].list) \in Seq(DOTs)
  BY <1>0, ThreadIs, Zenon DEF ThreadTypes, Resolving
<1>2. got \in SUBSET DOTs /\ IsFiniteSet(got)
  BY <1>1, FS_AddElement, Zenon
<1>3. trusted' = IF s = "Valid" THEN trusted \cup {d} ELSE trusted
  BY Zenon DEF Answer
<1>4. Return(t) \/ Continue(t, Tail(th[t].list), got)
  BY Zenon DEF Answer
<1> HIDE DEF got
<1>5. \E x : Moved(t, x) /\ ThreadTypes(x) /\ Between(th[t], x, Tail(th[t].list), got)
  <2>1. CASE Return(t)
    BY <1>1, <2>1, Returns, Zenon DEF Between
  <2>2. CASE Continue(t, Tail(th[t].list), got)
    BY <1>1, <1>2, <2>2, Continues, Zenon
  <2> QED
    BY <1>4, <2>1, <2>2, Zenon
<1> QED
  BY <1>3, <1>5, Zenon DEF got

-----------------------------------------------------------------------------
(* Types *)

LEMMA MovedTypes ==
  ASSUME Types, NEW t \in Threads, CacheTypes', \E x : Moved(t, x) /\ ThreadTypes(x)
  PROVE  Types'
BY Zenon DEF Types, Moved

LEMMA SameCaches ==
  ASSUME CacheTypes, UNCHANGED <<caches, checkVars>>, trusted' \subseteq DOTs
  PROVE  CacheTypes'
BY Zenon DEF CacheTypes, caches, checkVars

LEMMA CachedSets ==
  ASSUME CacheTypes, NEW e \in Entities
  PROVE  /\ dotFromCompleteCache[e] # None =>
              dotFromCompleteCache[e] \in SUBSET DOTs /\ IsFiniteSet(dotFromCompleteCache[e])
         /\ chaincache[e] # None => chaincache[e] \in SUBSET DOTs /\ chaincache[e] # {} /\ IsFiniteSet(chaincache[e])
<1>1. dotFromCompleteCache[e] \in (SUBSET DOTs) \cup {None} /\ chaincache[e] \in ((SUBSET DOTs) \ {{}}) \cup {None}
  BY Zenon DEF CacheTypes
<1>2. /\ dotFromCompleteCache[e] # None => IsFiniteSet(dotFromCompleteCache[e])
      /\ chaincache[e] # None => IsFiniteSet(chaincache[e])
  BY Zenon DEF CacheTypes
<1> QED
  BY <1>1, <1>2, Zenon

LEMMA BeginTypes ==
  ASSUME ChainInv, Types, NEW t \in Threads, Begin(t)
  PROVE  Types'
<1> DEFINE y == th[t]
<1>1. DOMAIN th = Threads /\ ThreadTypes(y) /\ CacheTypes /\ y.pc = "idle" /\ y.ops # <<>>
  BY Zenon DEF Types, Begin
<1>2. y.ops \in Seq(Calls) /\ y.ops[1] \in Calls /\ Subject(t) = y.ops[1][2]
  <2>1. y.ops \in Seq(Calls)
    BY <1>1, ThreadIs, Zenon
  <2> QED
    BY <1>1, <2>1 DEF Subject
<1>3. CurrentBlock \in Nat
  BY ChainFacts, Zenon
<1>4. CacheTypes'
  <2>1. trusted' \subseteq DOTs
    <3>1. trusted \subseteq DOTs /\ (y.ops[1][1] = "dot" => Subject(t) \in DOTs)
      BY <1>1, <1>2, Zenon DEF CacheTypes, Calls
    <3> QED
      BY <3>1, Zenon DEF Begin
  <2> QED
    BY <1>1, <2>1, SameCaches, Zenon DEF Begin
<1>5. ASSUME NEW pc \in Pcs \ {"idle", "cacheEntity", "cacheDOT", "cacheGranted", "built"},
             NEW kind \in {"dot", "chain", "build", "cached"},
             NEW list \in Seq(DOTs), pc \in Resolving => list # <<>>, pc = "granted" => kind = "build",
             kind = "build" => y.ops[1][1] = "build", Start(t, pc, kind, list)
      PROVE  \E x : Moved(t, x) /\ ThreadTypes(x)
  <2> DEFINE x == [y EXCEPT !.pc = pc, !.kind = kind, !.list = list, !.since = CurrentBlock]
  <2>1. Moved(t, x)
    BY <1>1, <1>5, Sets, Zenon DEF Start
  <2>2. ThreadTypes(x)
    <3> HIDE DEF y
    <3> QED
      BY <1>1, <1>3, <1>5, ZenonT(30) DEF ThreadTypes, Pcs, Resolving
  <2> HIDE DEF x
  <2> QED
    BY <2>1, <2>2, Zenon
<1>6. CASE Return(t)
  BY <1>1, <1>4, <1>6, Returns, MovedTypes, Zenon
<1>7. CASE y.ops[1][1] = "dot" /\ Start(t, "dot", "dot", <<Subject(t)>>)
  <2>1. <<Subject(t)>> \in Seq(DOTs) /\ <<Subject(t)>> # <<>>
    BY <1>2, <1>7 DEF Calls
  <2>2. \E x : Moved(t, x) /\ ThreadTypes(x)
    BY <1>5, <1>7, <2>1, Zenon DEF Pcs
  <2> QED
    BY <1>4, <2>2, MovedTypes, Zenon
<1>8. CASE y.ops[1][1] = "chain" /\ dotsOf[Subject(t)] # <<>> /\ Start(t, "look", "chain", dotsOf[Subject(t)])
  <2>1. dotsOf[Subject(t)] \in Seq(DOTs)
    BY <1>2, <1>8, RegistryAssumption, Zenon DEF Calls
  <2>2. \E x : Moved(t, x) /\ ThreadTypes(x)
    BY <1>5, <1>8, <2>1, Zenon DEF Pcs
  <2> QED
    BY <1>4, <2>2, MovedTypes, Zenon
<1>9. CASE y.ops[1][1] = "build" /\ Start(t, "granted", "build", <<>>)
  <2>1. <<>> \in Seq(DOTs)
    OBVIOUS
  <2>2. \E x : Moved(t, x) /\ ThreadTypes(x)
    BY <1>5, <1>9, <2>1, ZenonT(30) DEF Pcs, Resolving
  <2> QED
    BY <1>4, <2>2, MovedTypes, Zenon
<1>10. CASE /\ y.ops[1][1] = "build" /\ chaincache[Subject(t)] # None
            /\ Start(t, "look", "cached", SetToSeq(chaincache[Subject(t)]))
  <2> DEFINE S == chaincache[Subject(t)]
  <2>1. Subject(t) \in Entities
    BY <1>2, <1>10, Zenon DEF Calls
  <2>2. S \in SUBSET DOTs /\ S # {} /\ IsFiniteSet(S)
    BY <1>1, <1>10, <2>1, CachedSets, Zenon
  <2> HIDE DEF S
  <2>3. SetToSeq(S) \in Seq(S) /\ Range(SetToSeq(S)) = S
    BY <2>2, SetToSeqIs, Zenon
  <2>4. SetToSeq(S) \in Seq(DOTs)
    BY <2>2, <2>3
  <2>5. SetToSeq(S) # <<>>
    <3>1. Range(<<>>) = {}
      BY DEF Range
    <3> QED
      BY <2>2, <2>3, <3>1, ZenonT(30)
  <2>6. \E x : Moved(t, x) /\ ThreadTypes(x)
    BY <1>5, <1>10, <2>4, <2>5, ZenonT(30) DEF Pcs, S
  <2> QED
    BY <1>4, <2>6, MovedTypes, Zenon
<1> QED
  BY <1>2, <1>6, <1>7, <1>8, <1>9, <1>10, ZenonT(30) DEF Begin, Calls

LEMMA GrantedTypes ==
  ASSUME ChainInv, Types, NEW t \in Threads, ResolveGranted(t) \/ CacheGranted(t)
  PROVE  Types'
<1> DEFINE y == th[t]
<1>1. DOMAIN th = Threads /\ ThreadTypes(y) /\ CacheTypes /\ y.pc \in {"granted", "cacheGranted"}
  BY Zenon DEF Types, ResolveGranted, CacheGranted
<1>2. y.pc # "idle" /\ y.kind = "build" /\ y.ops[1][1] = "build" /\ y.list \in Seq(DOTs)
  BY <1>1, ThreadIs, Zenon DEF ThreadTypes
<1>3. Subject(t) \in Entities
  <2>1. y.ops[1] \in Calls
    BY <1>1, <1>2, ThreadIs, ZenonT(30)
  <2> QED
    BY <1>2, <2>1, Zenon DEF Subject, Calls
<1>4. {} \in SUBSET DOTs /\ IsFiniteSet({})
  BY FS_EmptySet, Zenon
<1>5. CASE ResolveGranted(t)
  <2>1. CacheTypes'
    BY <1>1, <1>5, SameCaches, Zenon DEF ResolveGranted, CacheTypes
  <2> DEFINE S == dotFromCompleteCache[Subject(t)]
  <2>2. CASE S # None
    <3>1. S \in SUBSET DOTs /\ IsFiniteSet(S)
      BY <1>1, <1>3, <2>2, CachedSets, ZenonT(30)
    <3>2. Continue(t, SetToSeq(S), {})
      BY <1>5, <2>2, Zenon DEF ResolveGranted
    <3> HIDE DEF S
    <3>3. SetToSeq(S) \in Seq(DOTs)
      <4>1. SetToSeq(S) \in Seq(S)
        BY <3>1, SetToSeqIs, Zenon
      <4> QED
        BY <3>1, <4>1
    <3>4. \E x : Moved(t, x) /\ ThreadTypes(x)
      BY <1>2, <1>4, <3>2, <3>3, Continues, ZenonT(30)
    <3> QED
      BY <2>1, <3>4, MovedTypes, Zenon
  <2>3. CASE S = None
    <3> DEFINE x == [y EXCEPT !.pc = "cacheGranted", !.list = Lagged.granted[Subject(t)]]
    <3>1. Moved(t, x)
      BY <1>1, <1>5, <2>3, Sets, Zenon DEF ResolveGranted
    <3>2. Lagged.granted[Subject(t)] \in Seq(DOTs)
      BY <1>3, LaggedIs, StorageIs, Zenon
    <3>3. ThreadTypes(x)
      <4> HIDE DEF y
      <4> QED
        BY <1>1, <1>2, <3>2, ZenonT(30) DEF ThreadTypes, Pcs, Resolving
    <3> HIDE DEF x
    <3> QED
      BY <2>1, <3>1, <3>3, MovedTypes, ZenonT(30)
  <2> QED
    BY <2>2, <2>3, Zenon
<1>6. CASE CacheGranted(t)
  <2>1. Range(y.list) \subseteq DOTs /\ IsFiniteSet(Range(y.list))
    BY <1>2, RangeIs, Zenon
  <2>2. CacheTypes'
    <3>1. /\ dotFromCompleteCache' = [dotFromCompleteCache EXCEPT ![Subject(t)] = Range(y.list)]
          /\ UNCHANGED <<entityCache, dotHashCache, dotFromInvCache, dotToInvCache, chaincache, todo, lastblock,
                         dropping, trusted>>
      BY <1>6, Zenon DEF CacheGranted, checkVars
    <3>2. dotFromCompleteCache' \in [Entities -> (SUBSET DOTs) \cup {None}]
      BY <1>1, <2>1, <3>1, Zenon DEF CacheTypes
    <3>3. \A e \in Entities : dotFromCompleteCache'[e] # None => IsFiniteSet(dotFromCompleteCache'[e])
      BY <1>1, <2>1, <3>1, Zenon DEF CacheTypes
    <3> QED
      BY <1>1, <3>1, <3>2, <3>3, Zenon DEF CacheTypes
  <2>3. Continue(t, y.list, {})
    BY <1>6, Zenon DEF CacheGranted
  <2>4. \E x : Moved(t, x) /\ ThreadTypes(x)
    BY <1>2, <1>4, <2>3, Continues, ZenonT(30)
  <2> QED
    BY <2>2, <2>4, MovedTypes, Zenon
<1> QED
  BY <1>5, <1>6, Zenon

LEMMA LookTypes ==
  ASSUME ChainInv, Types, NEW t \in Threads, LookDOT(t) \/ ReadDOT(t)
  PROVE  Types'
<1> DEFINE y == th[t]
           d == Head(y.list)
<1>1. DOMAIN th = Threads /\ ThreadTypes(y) /\ CacheTypes /\ y.pc \in {"look", "dot"} /\ y.pc \in Resolving
  BY Zenon DEF Types, LookDOT, ReadDOT, Resolving
<1>2. d \in DOTs /\ UNCHANGED <<caches, checkVars>>
  BY <1>1, ThreadIs, Zenon DEF LookDOT, ReadDOT
<1>3. trusted \subseteq DOTs
  BY <1>1, Zenon DEF CacheTypes
<1>4. ASSUME NEW s, Answer(t, s) PROVE Types'
  <2>1. trusted' \subseteq DOTs /\ \E x : Moved(t, x) /\ ThreadTypes(x)
    BY <1>1, <1>2, <1>3, <1>4, Answers, ZenonT(30)
  <2> QED
    BY <1>1, <1>2, <2>1, SameCaches, MovedTypes, ZenonT(30)
<1>5. ASSUME UNCHANGED trusted, \E x : Set(t, x) /\ ThreadTypes(x) PROVE Types'
  <2>1. \E x : Moved(t, x) /\ ThreadTypes(x)
    BY <1>1, <1>5, Sets, Zenon
  <2> QED
    BY <1>1, <1>2, <1>3, <1>5, <2>1, SameCaches, MovedTypes, ZenonT(30)
<1>6. CASE LookDOT(t)
  <2>1. ThreadTypes([y EXCEPT !.pc = "dot"])
    <3> HIDE DEF y
    <3> QED
      BY <1>1, Zenon DEF ThreadTypes, Pcs, Resolving
  <2> QED
    BY <1>4, <1>5, <1>6, <2>1, Zenon DEF LookDOT
<1>7. CASE ReadDOT(t)
  <2> DEFINE s == StateOf("dot", d)
  <2>1. s \in Validity
    BY <1>2, StateOfIs, Zenon
  <2>2. ThreadTypes([y EXCEPT !.pc = "entity", !.side = "giver"])
    <3> HIDE DEF y
    <3> QED
      BY <1>1, Zenon DEF ThreadTypes, Pcs, Resolving
  <2>3. ASSUME s # "Unknown" PROVE ThreadTypes([y EXCEPT !.pc = "cacheDOT", !.read = s])
    <3>1. s \in Result
      BY <2>1, <2>3, Zenon DEF Validity, Result
    <3> HIDE DEF y, s
    <3> QED
      BY <1>1, <3>1, Zenon DEF ThreadTypes, Pcs, Resolving
  <2>4. CASE Answer(t, s)
    BY <1>4, <2>4, Zenon
  <2>5. CASE Set(t, [y EXCEPT !.pc = "entity", !.side = "giver"]) /\ UNCHANGED trusted
    BY <1>5, <2>2, <2>5, Zenon
  <2>6. CASE s # "Unknown" /\ Set(t, [y EXCEPT !.pc = "cacheDOT", !.read = s]) /\ UNCHANGED trusted
    BY <1>5, <2>3, <2>6, Zenon
  <2> QED
    BY <1>7, <2>4, <2>5, <2>6, Zenon DEF ReadDOT
<1> QED
  BY <1>6, <1>7, Zenon

\* What becomes of a thread when ResolveEntity returns s to it.
LEMMA EntityStates ==
  ASSUME Types, NEW t \in Threads, th[t].pc \in {"entity", "cacheEntity"}, NEW s \in Result, EntityState(t, s)
  PROVE  \E x : Moved(t, x) /\ ThreadTypes(x) /\
           \/ s # "Valid" /\ x = [th[t] EXCEPT !.pc = "cacheDOT", !.read = s]
           \/ s = "Valid" /\ th[t].side = "giver" /\ x = [th[t] EXCEPT !.pc = "entity", !.side = "receiver"]
           \/ \E r \in {"Expired", "Valid"} :
                s = "Valid" /\ th[t].side # "giver" /\ x = [th[t] EXCEPT !.pc = "cacheDOT", !.read = r]
<1> DEFINE y == th[t]
<1>1. DOMAIN th = Threads /\ ThreadTypes(y) /\ y.pc \in Resolving
  BY Zenon DEF Types, Resolving
<1>2. ASSUME NEW r \in Result PROVE ThreadTypes([y EXCEPT !.pc = "cacheDOT", !.read = r])
  <2> HIDE DEF y
  <2> QED
    BY <1>1, Zenon DEF ThreadTypes, Pcs, Resolving
<1>3. ThreadTypes([y EXCEPT !.pc = "entity", !.side = "receiver"])
  <2> HIDE DEF y
  <2> QED
    BY <1>1, Zenon DEF ThreadTypes, Pcs, Resolving
<1>4. CASE s # "Valid"
  <2>1. Moved(t, [y EXCEPT !.pc = "cacheDOT", !.read = s])
    BY <1>1, <1>4, Sets, Zenon DEF EntityState
  <2> QED
    BY <1>2, <1>4, <2>1, Zenon
<1>5. CASE s = "Valid" /\ y.side = "giver"
  <2>1. Moved(t, [y EXCEPT !.pc = "entity", !.side = "receiver"])
    BY <1>1, <1>5, Sets, Zenon DEF EntityState
  <2> QED
    BY <1>3, <1>5, <2>1, Zenon
<1>6. CASE s = "Valid" /\ y.side # "giver"
  <2> DEFINE r == IF Over(dotExpiry[Head(y.list)], now) THEN "Expired" ELSE "Valid"
  <2>1. Moved(t, [y EXCEPT !.pc = "cacheDOT", !.read = r])
    BY <1>1, <1>6, Sets, ZenonT(30) DEF EntityState
  <2>2. r \in {"Expired", "Valid"} /\ r \in Result
    BY Zenon DEF Result
  <2> HIDE DEF r
  <2> QED
    BY <1>2, <1>6, <2>1, <2>2, Zenon
<1> QED
  BY <1>4, <1>5, <1>6, Zenon

LEMMA EntityTypes ==
  ASSUME ChainInv, Types, NEW t \in Threads, LookEntity(t) \/ ReadEntity(t) \/ CacheEntity(t)
  PROVE  Types'
<1> DEFINE y == th[t]
           e == EntityOf(t)
<1>1. /\ DOMAIN th = Threads /\ ThreadTypes(y) /\ CacheTypes
      /\ y.pc \in {"entity", "readEntity", "cacheEntity"} /\ y.pc \in Resolving
  BY Zenon DEF Types, LookEntity, ReadEntity, CacheEntity, Resolving
<1>2. e \in Entities
  <2>1. e = EntityIn(y)
    BY Zenon DEF EntityOf, EntityIn
  <2> QED
    BY <1>1, <2>1, ThreadIs, Zenon
<1>3. trusted \subseteq DOTs /\ entityCache \in [Entities -> Result \cup {None}]
  BY <1>1, Zenon DEF CacheTypes
<1>4. CASE LookEntity(t)
  <2>1. CacheTypes'
    BY <1>1, <1>3, <1>4, SameCaches, Zenon DEF LookEntity
  <2>2. CASE entityCache[e] # None
    <3>1. entityCache[e] \in Result /\ y.pc = "entity" /\ EntityState(t, entityCache[e])
      BY <1>2, <1>3, <1>4, <2>2, Zenon DEF LookEntity
    <3>2. \E x : Moved(t, x) /\ ThreadTypes(x)
      BY <3>1, EntityStates, Zenon
    <3> QED
      BY <2>1, <3>2, MovedTypes, Zenon
  <2>3. CASE entityCache[e] = None
    <3>1. Moved(t, [y EXCEPT !.pc = "readEntity"])
      BY <1>1, <1>4, <2>3, Sets, Zenon DEF LookEntity
    <3>2. ThreadTypes([y EXCEPT !.pc = "readEntity"])
      <4> HIDE DEF y
      <4> QED
        BY <1>1, Zenon DEF ThreadTypes, Pcs, Resolving
    <3> QED
      BY <2>1, <3>1, <3>2, MovedTypes, Zenon
  <2> QED
    BY <2>2, <2>3, Zenon
<1>5. CASE ReadEntity(t)
  <2> DEFINE s == IF StateOf("entity", e) = "Valid" /\ Over(entityExpiry[e], now)
                  THEN "Expired" ELSE StateOf("entity", e)
  <2>1. s \in Validity
    BY <1>2, StateOfIs, Zenon DEF Validity
  <2>2. UNCHANGED <<caches, checkVars>>
    BY <1>5, Zenon DEF ReadEntity
  <2>3. Answer(t, s) \/ (s # "Unknown" /\ Set(t, [y EXCEPT !.pc = "cacheEntity", !.read = s]) /\ UNCHANGED trusted)
    BY <1>5, Zenon DEF ReadEntity
  <2> HIDE DEF s
  <2>4. CASE Answer(t, s)
    <3>1. Head(y.list) \in DOTs
      BY <1>1, ThreadIs, Zenon
    <3>2. trusted' \subseteq DOTs /\ \E x : Moved(t, x) /\ ThreadTypes(x)
      BY <1>1, <1>3, <2>4, <3>1, Answers, ZenonT(30)
    <3> QED
      BY <1>1, <2>2, <3>2, SameCaches, MovedTypes, ZenonT(30)
  <2>5. CASE s # "Unknown" /\ Set(t, [y EXCEPT !.pc = "cacheEntity", !.read = s]) /\ UNCHANGED trusted
    <3>1. Moved(t, [y EXCEPT !.pc = "cacheEntity", !.read = s])
      BY <1>1, <2>5, Sets, Zenon
    <3>2. ThreadTypes([y EXCEPT !.pc = "cacheEntity", !.read = s])
      <4>1. s \in Result
        BY <2>1, <2>5, Zenon DEF Validity, Result
      <4> HIDE DEF y
      <4> QED
        BY <1>1, <4>1, Zenon DEF ThreadTypes, Pcs, Resolving
    <3>3. CacheTypes'
      BY <1>1, <1>3, <2>2, <2>5, SameCaches, ZenonT(30)
    <3> QED
      BY <3>1, <3>2, <3>3, MovedTypes, Zenon
  <2> QED
    BY <2>3, <2>4, <2>5, Zenon
<1>6. CASE CacheEntity(t)
  <2>1. y.read \in Result /\ y.pc = "cacheEntity"
    BY <1>1, <1>6, Zenon DEF ThreadTypes, CacheEntity
  <2>2. CacheTypes'
    <3>1. /\ entityCache' = [entityCache EXCEPT ![e] = y.read]
          /\ UNCHANGED <<dotFromCompleteCache, dotHashCache, dotFromInvCache, dotToInvCache, chaincache, todo,
                         lastblock, dropping, trusted>>
      BY <1>6, Zenon DEF CacheEntity, checkVars
    <3>2. entityCache' \in [Entities -> Result \cup {None}]
      BY <1>2, <1>3, <2>1, <3>1, Zenon
    <3> QED
      BY <1>1, <3>1, <3>2, Zenon DEF CacheTypes
  <2>3. \E x : Moved(t, x) /\ ThreadTypes(x)
    BY <1>6, <2>1, EntityStates, Zenon DEF CacheEntity
  <2> QED
    BY <2>2, <2>3, MovedTypes, Zenon
<1> QED
  BY <1>4, <1>5, <1>6, Zenon

LEMMA CacheDOTTypes ==
  ASSUME ChainInv, Types, NEW t \in Threads, CacheDOT(t)
  PROVE  Types'
<1> DEFINE y == th[t]
           d == Head(y.list)
<1>1. ThreadTypes(y) /\ CacheTypes /\ y.pc = "cacheDOT" /\ y.pc \in Resolving
  BY Zenon DEF Types, CacheDOT, Resolving
<1>2. d \in DOTs /\ y.read \in Result /\ giver[d] \in Entities /\ receiver[d] \in Entities
  BY <1>1, ThreadIs, RegistryAssumption, Zenon DEF ThreadTypes
<1>3. Answer(t, y.read)
  BY Zenon DEF CacheDOT
<1>4. trusted' \subseteq DOTs /\ \E x : Moved(t, x) /\ ThreadTypes(x)
  <2>1. trusted \subseteq DOTs
    BY <1>1, Zenon DEF CacheTypes
  <2> QED
    BY <1>1, <1>2, <1>3, <2>1, Answers, Zenon
<1>5. CacheTypes'
  <2>1. UNCHANGED <<entityCache, dotFromCompleteCache, chaincache, todo, lastblock, dropping>>
    BY Zenon DEF CacheDOT, checkVars
  <2>2. dotHashCache' \in [DOTs -> Result \cup {None}]
    BY <1>1, <1>2, Zenon DEF CacheTypes, CacheDOT
  <2>3. dotFromInvCache' \in [Entities -> SUBSET DOTs]
    BY <1>1, <1>2, Zenon DEF CacheTypes, CacheDOT
  <2>4. dotToInvCache' \in [Entities -> SUBSET DOTs]
    BY <1>1, <1>2, ZenonT(30) DEF CacheTypes, CacheDOT
  <2> QED
    BY <1>1, <1>4, <2>1, <2>2, <2>3, <2>4, ZenonT(30) DEF CacheTypes
<1> QED
  BY <1>4, <1>5, MovedTypes, Zenon

LEMMA BuiltTypes ==
  ASSUME ChainInv, Types, NEW t \in Threads, CacheBuiltChains(t)
  PROVE  Types'
<1> DEFINE y == th[t]
<1>1. ThreadTypes(y) /\ CacheTypes /\ y.pc = "built"
  BY Zenon DEF Types, CacheBuiltChains
<1>2. y.got \in SUBSET DOTs /\ IsFiniteSet(y.got) /\ y.ops # <<>>
  BY <1>1, ThreadIs, Zenon DEF ThreadTypes
<1>3. \E x : Moved(t, x) /\ ThreadTypes(x)
  BY <1>2, Returns, Zenon DEF CacheBuiltChains
<1>4. CacheTypes'
  <2>1. /\ UNCHANGED <<entityCache, dotHashCache, dotFromInvCache, dotToInvCache, dotFromCompleteCache, todo,
                       lastblock, dropping, trusted>>
        /\ chaincache' = chaincache \/ (y.got # {} /\ chaincache' = [chaincache EXCEPT ![Subject(t)] = y.got])
    BY Zenon DEF CacheBuiltChains, checkVars
  <2>2. chaincache' \in [Entities -> ((SUBSET DOTs) \ {{}}) \cup {None}]
    BY <1>1, <1>2, <2>1, Zenon DEF CacheTypes
  <2>3. \A e \in Entities : chaincache'[e] # None => IsFiniteSet(chaincache'[e])
    BY <1>1, <1>2, <2>1, ZenonT(30) DEF CacheTypes
  <2> QED
    BY <1>1, <2>1, <2>2, <2>3, Zenon DEF CacheTypes
<1> QED
  BY <1>3, <1>4, MovedTypes, Zenon

LEMMA FlushTypes ==
  ASSUME CacheTypes, NEW e \in Entities, NEW d \in DOTs, FlushEntity(e) \/ FlushDOT(d) \/ FlushNewDOT(d),
         todo' \in Seq(Event), UNCHANGED <<lastblock, dropping, trusted>>
  PROVE  CacheTypes'
<1>1. /\ entityCache \in [Entities -> Result \cup {None}] /\ dotHashCache \in [DOTs -> Result \cup {None}]
      /\ dotFromInvCache \in [Entities -> SUBSET DOTs] /\ dotToInvCache \in [Entities -> SUBSET DOTs]
  BY Zenon DEF CacheTypes
<1>2. /\ entityCache' \in [Entities -> Result \cup {None}] /\ dotHashCache' \in [DOTs -> Result \cup {None}]
      /\ dotFromInvCache' \in [Entities -> SUBSET DOTs] /\ dotToInvCache' \in [Entities -> SUBSET DOTs]
  <2>1. entityCache' \in [Entities -> Result \cup {None}]
    BY <1>1, Zenon DEF FlushEntity, FlushDOT, FlushNewDOT
  <2>2. dotHashCache' \in [DOTs -> Result \cup {None}]
    <3>1. \E ds : FlushDOTs(ds)
      BY Zenon DEF FlushEntity, FlushDOT, FlushNewDOT
    <3> QED
      BY <1>1, <3>1, Zenon DEF FlushDOTs
  <2>3. dotFromInvCache' \in [Entities -> SUBSET DOTs] /\ dotToInvCache' \in [Entities -> SUBSET DOTs]
    BY <1>1, Zenon DEF FlushEntity, FlushDOT, FlushNewDOT
  <2> QED
    BY <2>1, <2>2, <2>3, Zenon
<1>3. CASE UNCHANGED <<dotFromCompleteCache, chaincache>>
  BY <1>2, <1>3, Zenon DEF CacheTypes
<1>4. CASE FlushNewDOT(d)
  <2>1. /\ dotFromCompleteCache' = [dotFromCompleteCache EXCEPT ![giver[d]] = None]
        /\ chaincache' = [chaincache EXCEPT ![giver[d]] = None]
    BY <1>4, Zenon DEF FlushNewDOT
  <2>2. /\ dotFromCompleteCache \in [Entities -> (SUBSET DOTs) \cup {None}]
        /\ chaincache \in [Entities -> ((SUBSET DOTs) \ {{}}) \cup {None}]
    BY Zenon DEF CacheTypes
  <2>3. /\ dotFromCompleteCache' \in [Entities -> (SUBSET DOTs) \cup {None}]
        /\ chaincache' \in [Entities -> ((SUBSET DOTs) \ {{}}) \cup {None}]
    BY <2>1, <2>2, Zenon
  <2>4. ASSUME NEW x \in Entities
        PROVE  /\ dotFromCompleteCache'[x] \in {dotFromCompleteCache[x], None}
               /\ chaincache'[x] \in {chaincache[x], None}
    BY <2>1, <2>2, Zenon
  <2>5. \A x \in Entities : /\ dotFromCompleteCache'[x] # None => IsFiniteSet(dotFromCompleteCache'[x])
                            /\ chaincache'[x] # None => IsFiniteSet(chaincache'[x])
    BY <2>4, CachedSets, Zenon
  <2> QED
    BY <1>2, <2>3, <2>5, Zenon DEF CacheTypes
<1> QED
  BY <1>3, <1>4, Zenon DEF FlushEntity, FlushDOT

LEMMA HandleLogIs ==
  ASSUME CacheTypes, HandleLog
  PROVE  /\ todo # <<>> /\ todo[1] \in Event /\ todo' = Tail(todo) /\ todo' \in Seq(Event)
         /\ \A x \in Range(todo) : x = todo[1] \/ x \in Range(todo')
         /\ \/ \E d \in DOTs : todo[1] = <<"AddDOT", d>> /\ FlushNewDOT(d)
            \/ \E d \in DOTs : todo[1] = <<"RevokeDOT", d>> /\ FlushDOT(d)
            \/ \E e \in Entities : todo[1] \in {<<"AddEntity", e>>, <<"RevokeEntity", e>>} /\ FlushEntity(e)
<1>1. todo \in Seq(Event) /\ todo # <<>> /\ todo' = Tail(todo)
  BY Zenon DEF CacheTypes, HandleLog
<1>2. todo[1] \in Event /\ Tail(todo) \in Seq(Event)
  BY <1>1
<1>3. ASSUME NEW x \in Range(todo) PROVE x = todo[1] \/ x \in Range(Tail(todo))
  <2>1. PICK i \in 1 .. Len(todo) : x = todo[i]
    BY <1>1, <1>3 DEF Range
  <2>2. CASE i = 1
    BY <2>1, <2>2, Zenon
  <2>3. CASE i # 1
    <3>1. i - 1 \in DOMAIN Tail(todo) /\ Tail(todo)[i - 1] = todo[i]
      BY <1>1, <2>3
    <3> QED
      BY <2>1, <3>1, Zenon DEF Range
  <2> QED
    BY <2>2, <2>3, Zenon
<1>4. CASE todo[1][1] = "AddDOT"
  <2>1. todo[1] = <<"AddDOT", todo[1][2]>> /\ todo[1][2] \in DOTs /\ FlushNewDOT(todo[1][2])
    BY <1>2, <1>4 DEF Event, HandleLog
  <2> QED
    BY <1>1, <1>2, <1>3, <2>1, Zenon
<1>5. CASE todo[1][1] = "RevokeDOT"
  <2>1. todo[1] = <<"RevokeDOT", todo[1][2]>> /\ todo[1][2] \in DOTs /\ FlushDOT(todo[1][2])
    BY <1>2, <1>5 DEF Event, HandleLog
  <2> QED
    BY <1>1, <1>2, <1>3, <2>1, Zenon
<1>6. CASE todo[1][1] \in {"AddEntity", "RevokeEntity"}
  <2>1. /\ todo[1] \in {<<"AddEntity", todo[1][2]>>, <<"RevokeEntity", todo[1][2]>>} /\ todo[1][2] \in Entities
        /\ FlushEntity(todo[1][2])
    BY <1>2, <1>6 DEF Event, HandleLog
  <2> QED
    BY <1>1, <1>2, <1>3, <2>1, ZenonT(30)
<1> QED
  BY <1>2, <1>4, <1>5, <1>6, Zenon DEF Event

LEMMA CheckIs ==
  ASSUME ChainInv, CacheTypes, CheckChainChange
  PROVE  /\ todo = <<>> /\ lastblock' = CurrentBlock /\ todo' \in Seq(Event)
         /\ \A i \in FirstReplayed .. CurrentBlock : Range(chain[i].logs) \subseteq Range(todo')
<1> DEFINE N == CurrentBlock - FirstReplayed + 1
           seqs == [i \in 1 .. N |-> chain[FirstReplayed + i - 1].logs]
<1>1. /\ CurrentBlock \in Nat /\ CurrentBlock >= 1 /\ lastblock \in Nat
      /\ \A i \in 1 .. CurrentBlock : chain[i].logs \in Seq(Event)
  BY ChainFacts, Zenon DEF CacheTypes
<1>2. FirstReplayed \in Nat /\ FirstReplayed >= 1
  BY <1>1, Bounds DEF FirstReplayed
<1>3. todo' = FlattenSeq(seqs) /\ todo = <<>> /\ lastblock' = CurrentBlock
  BY Zenon DEF CheckChainChange
<1>4. \A i \in 1 .. N : FirstReplayed + i - 1 \in 1 .. CurrentBlock
  BY <1>1, <1>2
<1>5. seqs \in Seq(Seq(Event)) /\ \A i \in 1 .. N : i \in 1 .. Len(seqs) /\ seqs[i] = chain[FirstReplayed + i - 1].logs
  <2>1. CASE N \in Nat
    <3> HIDE DEF N
    <3>1. \A i \in 1 .. N : chain[FirstReplayed + i - 1].logs \in Seq(Event)
      BY <1>1, <1>4, Zenon
    <3> QED
      BY <2>1, <3>1
  <2>2. CASE N \notin Nat
    <3>1. 1 .. N = {}
      BY <1>1, <1>2, <2>2
    <3>2. seqs = <<>>
      BY <3>1
    <3>3. <<>> \in Seq(Seq(Event))
      OBVIOUS
    <3> QED
      BY <3>1, <3>2, <3>3, Zenon
  <2> QED
    BY <2>1, <2>2, Zenon
<1> HIDE DEF seqs
<1>6. FlattenSeq(seqs) \in Seq(Event) /\ \A i \in 1 .. Len(seqs) : Range(seqs[i]) \subseteq Range(FlattenSeq(seqs))
  BY <1>5, FlattenIs, Zenon
<1>7. ASSUME NEW i \in FirstReplayed .. CurrentBlock PROVE Range(chain[i].logs) \subseteq Range(todo')
  <2>1. i - FirstReplayed + 1 \in 1 .. N /\ FirstReplayed + (i - FirstReplayed + 1) - 1 = i
    BY <1>1, <1>2
  <2>2. seqs[i - FirstReplayed + 1] = chain[i].logs /\ i - FirstReplayed + 1 \in 1 .. Len(seqs)
    BY <1>5, <2>1, Zenon
  <2> QED
    BY <1>3, <1>6, <2>2, Zenon
<1> QED
  BY <1>3, <1>6, <1>7, Zenon

LEMMA InitTypes == Init => Types
<1> SUFFICES ASSUME Init PROVE Types
  OBVIOUS
<1>1. CacheTypes
  <2>1. Len(chain) \in Nat
    BY InitChain, ChainFacts, Zenon
  <2>2. <<>> \in Seq(Event)
    OBVIOUS
  <2> QED
    BY <2>1, <2>2, Zenon DEF Init, CacheTypes
<1>2. ASSUME NEW t \in Threads PROVE ThreadTypes(th[t])
  <2>1. plan.scripts \in [Threads -> Seq(Calls)] /\ th[t] = Idle(plan.scripts[t])
    BY PlansAssumption, Zenon DEF Init
  <2> QED
    BY <2>1, IdleTypes, Zenon
<1> QED
  BY <1>1, <1>2, Zenon DEF Types, Init

LEMMA StepTypes == ChainInv /\ Types /\ [Next]_vars => Types'
<1> SUFFICES ASSUME ChainInv, Types, [Next]_vars PROVE Types'
  OBVIOUS
<1>0. CacheTypes /\ trusted \subseteq DOTs
  BY Zenon DEF Types, CacheTypes
<1>1. CASE ChainStep \/ Finished \/ UNCHANGED vars
  <2>1. UNCHANGED <<caches, checkVars, th, trusted>>
    BY <1>1, Zenon DEF ChainStep, Send, Mine, Fork, Tick, Finished, vars
  <2>2. CacheTypes'
    BY <1>0, <2>1, SameCaches, Zenon
  <2> QED
    BY <2>1, <2>2, Zenon DEF Types
<1>2. CASE CheckChainChange
  <2>1. CacheTypes'
    <3>1. todo' \in Seq(Event) /\ lastblock' = CurrentBlock /\ CurrentBlock \in Nat
      BY <1>0, <1>2, CheckIs, ChainFacts, ZenonT(30)
    <3>2. UNCHANGED caches /\ trusted' = trusted /\ dropping' \in BOOLEAN
      BY <1>2, Zenon DEF CheckChainChange
    <3> QED
      BY <1>0, <3>1, <3>2, ZenonT(30) DEF CacheTypes, caches
  <2> QED
    BY <1>2, <2>1, Zenon DEF Types, CheckChainChange
<1>3. CASE HandleLog
  <2>1. todo' \in Seq(Event) /\ UNCHANGED <<lastblock, dropping, trusted, th>>
    BY <1>0, <1>3, HandleLogIs, ZenonT(30) DEF HandleLog
  <2>2. ASSUME NEW d \in DOTs, FlushNewDOT(d) \/ FlushDOT(d) PROVE CacheTypes'
    BY <1>0, <2>1, <2>2, FlushTypes, RegistryAssumption, ZenonT(30)
  <2>3. ASSUME NEW e \in Entities, FlushEntity(e) PROVE CacheTypes'
    <3>1. CASE DOTs # {}
      BY <1>0, <2>1, <2>3, <3>1, FlushTypes, ZenonT(30)
    <3>2. CASE DOTs = {}
      BY <1>0, <2>1, <2>3, <3>2, ZenonT(30) DEF CacheTypes, FlushEntity, FlushDOTs
    <3> QED
      BY <3>1, <3>2, Zenon
  <2>4. CacheTypes'
    BY <1>0, <1>3, <2>2, <2>3, HandleLogIs, ZenonT(30)
  <2> QED
    BY <2>1, <2>4, Zenon DEF Types
<1>4. CASE DropAllCaches
  <2>1. CacheTypes'
    BY <1>0, <1>4, Zenon DEF CacheTypes, DropAllCaches, ClearCaches
  <2> QED
    BY <1>4, <2>1, Zenon DEF Types, DropAllCaches
<1>5. ASSUME NEW t \in Threads, Call(t) PROVE Types'
  BY <1>5, BeginTypes, GrantedTypes, LookTypes, EntityTypes, CacheDOTTypes, BuiltTypes, ZenonT(30) DEF Call
<1>6. ASSUME NEW x \in Expiring, FlushExpired(x) PROVE Types'
  <2>1. UNCHANGED <<todo, lastblock, dropping, trusted, th>> /\ todo \in Seq(Event)
    BY <1>0, <1>6, Zenon DEF FlushExpired, checkVars, CacheTypes
  <2>2. CASE x \in DOTs /\ FlushDOT(x)
    BY <1>0, <2>1, <2>2, FlushTypes, RegistryAssumption, ZenonT(30) DEF Types
  <2>3. CASE x \in Entities /\ FlushEntity(x)
    <3>1. CASE DOTs # {}
      BY <1>0, <2>1, <2>3, <3>1, FlushTypes, ZenonT(30) DEF Types
    <3>2. CASE DOTs = {}
      BY <1>0, <2>1, <2>3, <3>2, ZenonT(30) DEF Types, CacheTypes, FlushEntity, FlushDOTs
    <3> QED
      BY <3>1, <3>2, Zenon
  <2> QED
    BY <1>6, <2>2, <2>3, ZenonT(30) DEF FlushExpired
<1> QED
  BY <1>1, <1>2, <1>3, <1>4, <1>5, <1>6, ZenonT(30) DEF Next

LEMMA TypesAlways == Spec => [](ChainInv /\ Types)
<1>1. Init => ChainInv /\ Types
  BY InitChain, InitTypes, Zenon
<1>2. ChainInv /\ Types /\ [Next]_vars => (ChainInv /\ Types)'
  BY StepChain, StepTypes, Zenon
<1> QED
  BY <1>1, <1>2, PTL DEF Spec

\* The caches hold what their declarations say and the registry stays well
\* formed: no validity that is unknown is cached, no list of built chains is
\* empty, and every event is about an object of its kind.
THEOREM TypeCorrect == Spec => []TypeOK
<1>1. ChainInv /\ Types => TypeOK
  <2> SUFFICES ASSUME ChainInv, Types PROVE TypeOK
    OBVIOUS
  <2>1. HeadState \in Storage /\ CurrentBlock \in 1 .. CurrentBlock /\ CurrentBlock \in Nat
    BY ChainFacts
  <2>2. chain[CurrentBlock].logs \in Seq(Event)
    BY <2>1, ChainFacts, Zenon
  <2>3. CacheTypes
    BY Zenon DEF Types
  <2>4. Range(chain[CurrentBlock].logs) \subseteq Event /\ Range(todo) \subseteq Event
    BY <2>2, <2>3, RangeIs, ZenonT(30) DEF CacheTypes
  <2>5. Event \subseteq Transaction
    BY Zenon DEF Event, Transaction
  <2> QED
    BY <2>1, <2>3, <2>4, <2>5, ZenonT(30) DEF CacheTypes, TypeOK, Result
<1> QED
  BY <1>1, TypesAlways, PTL

-----------------------------------------------------------------------------
(* What a call does *)

\* A thread that has found nothing valid about the DOT it resolves.
Quiet(x) == x.pc \notin {"entity", "readEntity", "cacheEntity"} /\ ~(x.pc = "cacheDOT" /\ x.read = "Valid")

\* The caches hold nothing valid that they did not hold before.
NothingNew ==
  /\ \A e \in Entities : entityCache'[e] = "Valid" => entityCache[e] = "Valid"
  /\ \A d \in DOTs : dotHashCache'[d] = "Valid" =>
       /\ dotHashCache[d] = "Valid"
       /\ d \in dotToInvCache'[receiver[d]] => d \in dotToInvCache[receiver[d]]

\* ResolveEntity has returned "Valid".
Passed(y, x) ==
  \/ y.side = "giver" /\ x = [y EXCEPT !.pc = "entity", !.side = "receiver"]
  \/ y.side # "giver" /\ \E r \in {"Expired", "Valid"} : x = [y EXCEPT !.pc = "cacheDOT", !.read = r]

Rests(t) == Quiet(th'[t]) /\ NothingNew /\ \A d \in trusted' : d \in trusted \/ dotHashCache[d] = "Valid"

FindsDOT(t) ==
  /\ th[t].pc = "dot" /\ StateOf("dot", Head(th[t].list)) = "Valid"
  /\ th'[t] = [th[t] EXCEPT !.pc = "entity", !.side = "giver"]
  /\ NothingNew /\ trusted' = trusted

LooksForEntity(t) ==
  /\ th[t].pc = "entity" /\ th'[t] = [th[t] EXCEPT !.pc = "readEntity"]
  /\ NothingNew /\ trusted' = trusted

FindsEntity(t) ==
  /\ th[t].pc = "readEntity"
  /\ \E s \in Result : /\ th'[t] = [th[t] EXCEPT !.pc = "cacheEntity", !.read = s]
                       /\ s = "Valid" => StateOf("entity", EntityIn(th[t])) = "Valid"
  /\ NothingNew /\ trusted' = trusted

HasCached(t) ==
  /\ th[t].pc = "entity" /\ entityCache[EntityIn(th[t])] = "Valid" /\ Passed(th[t], th'[t])
  /\ NothingNew /\ trusted' = trusted

WritesEntity(t) ==
  /\ th[t].pc = "cacheEntity" /\ th[t].read = "Valid" /\ Passed(th[t], th'[t])
  /\ entityCache' = [entityCache EXCEPT ![EntityIn(th[t])] = "Valid"]
  /\ UNCHANGED <<dotHashCache, dotToInvCache, trusted>>

WritesDOT(t) ==
  LET d == Head(th[t].list) IN
  /\ th[t].pc = "cacheDOT" /\ th[t].read = "Valid" /\ Quiet(th'[t])
  /\ UNCHANGED entityCache /\ trusted' = trusted \cup {d}
  /\ \A c \in DOTs \ {d} : /\ dotHashCache'[c] = dotHashCache[c]
                           /\ c \in dotToInvCache'[receiver[c]] => c \in dotToInvCache[receiver[c]]

Called(t) ==
  /\ Moved(t, th'[t]) /\ UNCHANGED <<chainVars, checkVars>>
  /\ th'[t].pc # "idle" => th'[t].since = IF th[t].pc = "idle" THEN CurrentBlock ELSE th[t].since
  /\ \/ Rests(t) \/ FindsDOT(t) \/ LooksForEntity(t) \/ FindsEntity(t) \/ HasCached(t) \/ WritesEntity(t)
     \/ WritesDOT(t)

LEMMA BetweenIs ==
  ASSUME NEW y, ThreadTypes(y), NEW x, NEW list, NEW got, Between(y, x, list, got)
  PROVE  Quiet(x) /\ (x.pc # "idle" => x.since = y.since)
<1>1. y \in [ops : Seq(Calls), pc : Pcs, kind : {"dot", "chain", "build", "cached", None}, list : Seq(DOTs),
             got : SUBSET DOTs, side : {"giver", "receiver", None}, read : Result \cup {None}, since : Nat]
  BY Zenon DEF ThreadTypes
<1>2. Quiet(x)
  BY Zenon DEF Between, Quiet
<1>3. CASE x = [y EXCEPT !.pc = "look", !.list = list, !.got = got]
  BY <1>1, <1>2, <1>3, ZenonT(30)
<1>4. CASE x = [y EXCEPT !.pc = "built", !.got = got]
  BY <1>1, <1>2, <1>4, Zenon
<1> QED
  BY <1>2, <1>3, <1>4, Zenon DEF Between

LEMMA BeginIs ==
  ASSUME ChainInv, Types, NEW t \in Threads, Begin(t)
  PROVE  Called(t)
<1>1. DOMAIN th = Threads /\ ThreadTypes(th[t]) /\ CacheTypes /\ th[t].pc = "idle" /\ th[t].ops # <<>>
  BY Zenon DEF Types, Begin
<1>2. UNCHANGED <<chainVars, checkVars>> /\ NothingNew
  BY Zenon DEF Begin, NothingNew, caches
<1>3. \A d \in trusted' : d \in trusted \/ dotHashCache[d] = "Valid"
  BY Zenon DEF Begin
<1>4. ASSUME Return(t) PROVE Called(t)
  <2>1. PICK x : Moved(t, x) /\ ThreadTypes(x) /\ x.pc = "idle"
    BY <1>1, <1>4, Returns, Zenon
  <2>2. th'[t] = x
    BY <2>1, Zenon DEF Moved
  <2> QED
    BY <1>2, <1>3, <2>1, <2>2, ZenonT(30) DEF Called, Rests, Quiet
<1>5. ASSUME NEW pc \in {"dot", "look", "granted"}, NEW kind, NEW list, Start(t, pc, kind, list) PROVE Called(t)
  <2> DEFINE x == [th[t] EXCEPT !.pc = pc, !.kind = kind, !.list = list, !.since = CurrentBlock]
  <2>1. Moved(t, x)
    BY <1>1, <1>5, Sets, Zenon DEF Start
  <2>2. th'[t] = x
    BY <2>1, Zenon DEF Moved
  <2>3. x.pc = pc /\ x.since = CurrentBlock
    BY <1>1, Zenon DEF ThreadTypes
  <2> HIDE DEF x
  <2>4. Quiet(th'[t])
    BY <2>2, <2>3, Zenon DEF Quiet
  <2> QED
    BY <1>1, <1>2, <1>3, <2>1, <2>2, <2>3, <2>4, ZenonT(30) DEF Called, Rests
<1>6. \/ Return(t) \/ \E pc \in {"dot", "look", "granted"} : \E kind, list : Start(t, pc, kind, list)
  <2>1. th[t].ops[1] \in Calls
    <3>1. th[t].ops \in Seq(Calls)
      BY <1>1, ThreadIs, Zenon
    <3> QED
      BY <1>1, <3>1
  <2> QED
    BY <2>1, Zenon DEF Begin, Calls
<1> QED
  BY <1>4, <1>5, <1>6, Zenon

LEMMA GrantedIs ==
  ASSUME ChainInv, Types, NEW t \in Threads, ResolveGranted(t) \/ CacheGranted(t)
  PROVE  Called(t)
<1>1. DOMAIN th = Threads /\ ThreadTypes(th[t]) /\ CacheTypes /\ th[t].pc \in {"granted", "cacheGranted"}
  BY Zenon DEF Types, ResolveGranted, CacheGranted
<1>2. UNCHANGED <<chainVars, checkVars, trusted>> /\ NothingNew
  BY Zenon DEF ResolveGranted, CacheGranted, NothingNew, caches
<1>3. ThreadTypes(th'[t]) /\ DOMAIN th' = Threads
  BY GrantedTypes, Zenon DEF Types
<1>4. ASSUME NEW list, Continue(t, list, {}) PROVE Called(t)
  <2>1. \/ Set(t, [th[t] EXCEPT !.pc = "look", !.list = list, !.got = {}])
        \/ Set(t, [th[t] EXCEPT !.pc = "built", !.got = {}]) \/ Return(t)
    BY <1>4, Zenon DEF Continue
  <2>2. \E x : Moved(t, x) /\ Quiet(x) /\ (x.pc # "idle" => x.since = th[t].since)
    <3>1. CASE Set(t, [th[t] EXCEPT !.pc = "look", !.list = list, !.got = {}])
      <4> DEFINE x == [th[t] EXCEPT !.pc = "look", !.list = list, !.got = {}]
      <4>1. Moved(t, x) /\ x.pc = "look" /\ x.since = th[t].since
        BY <1>1, <3>1, Sets, Zenon DEF ThreadTypes
      <4> QED
        BY <4>1, Zenon DEF Quiet
    <3>2. CASE Set(t, [th[t] EXCEPT !.pc = "built", !.got = {}])
      <4> DEFINE x == [th[t] EXCEPT !.pc = "built", !.got = {}]
      <4>1. Moved(t, x) /\ x.pc = "built" /\ x.since = th[t].since
        BY <1>1, <3>2, Sets, Zenon DEF ThreadTypes
      <4> QED
        BY <4>1, Zenon DEF Quiet
    <3>3. CASE Return(t)
      <4>1. th[t].ops # <<>>
        BY <1>1, Zenon DEF ThreadTypes
      <4> QED
        BY <3>3, <4>1, Returns, Zenon DEF Quiet
    <3> QED
      BY <2>1, <3>1, <3>2, <3>3, ZenonT(30)
  <2>3. PICK x : Moved(t, x) /\ Quiet(x) /\ (x.pc # "idle" => x.since = th[t].since)
    BY <2>2, Zenon
  <2>4. th'[t] = x
    BY <2>3, Zenon DEF Moved
  <2> QED
    BY <1>1, <1>2, <2>3, <2>4, ZenonT(30) DEF Called, Rests
<1>5. ASSUME NEW list, Set(t, [th[t] EXCEPT !.pc = "cacheGranted", !.list = list]) PROVE Called(t)
  <2> DEFINE x == [th[t] EXCEPT !.pc = "cacheGranted", !.list = list]
  <2>1. Moved(t, x) /\ x.pc = "cacheGranted" /\ x.since = th[t].since
    BY <1>1, <1>5, Sets, Zenon DEF ThreadTypes
  <2> HIDE DEF x
  <2>2. th'[t] = x
    BY <2>1, Zenon DEF Moved
  <2> QED
    BY <1>1, <1>2, <2>1, <2>2, Zenon DEF Called, Rests, Quiet
<1> QED
  BY <1>4, <1>5, Zenon DEF ResolveGranted, CacheGranted

LEMMA AnswerIs ==
  ASSUME Types, NEW t \in Threads, th[t].pc \in Resolving, NEW s, Answer(t, s)
  PROVE  /\ Moved(t, th'[t]) /\ Quiet(th'[t]) /\ (th'[t].pc # "idle" => th'[t].since = th[t].since)
         /\ trusted' = IF s = "Valid" THEN trusted \cup {Head(th[t].list)} ELSE trusted
<1> DEFINE got == IF s = "Valid" THEN th[t].got \cup {Head(th[t].list)} ELSE th[t].got
<1>1. /\ trusted' = IF s = "Valid" THEN trusted \cup {Head(th[t].list)} ELSE trusted
      /\ \E x : Moved(t, x) /\ ThreadTypes(x) /\ Between(th[t], x, Tail(th[t].list), got)
  BY Answers, Zenon
<1> HIDE DEF got
<1>2. PICK x : Moved(t, x) /\ ThreadTypes(x) /\ Between(th[t], x, Tail(th[t].list), got)
  BY <1>1, Zenon
<1>3. th'[t] = x /\ ThreadTypes(th[t])
  BY <1>2, Zenon DEF Moved, Types
<1>4. Quiet(x) /\ (x.pc # "idle" => x.since = th[t].since)
  BY <1>2, <1>3, BetweenIs, Zenon
<1> QED
  BY <1>1, <1>2, <1>3, <1>4, Zenon

LEMMA LookIs ==
  ASSUME ChainInv, Types, NEW t \in Threads, LookDOT(t) \/ ReadDOT(t)
  PROVE  Called(t)
<1> DEFINE y == th[t]
           d == Head(y.list)
<1>1. DOMAIN th = Threads /\ ThreadTypes(y) /\ y.pc \in {"look", "dot"} /\ y.pc \in Resolving
  BY Zenon DEF Types, LookDOT, ReadDOT, Resolving
<1>2. UNCHANGED <<chainVars, checkVars>> /\ NothingNew
  BY Zenon DEF LookDOT, ReadDOT, NothingNew, caches
<1>3. ASSUME NEW s, Answer(t, s), s = "Valid" => dotHashCache[d] = "Valid" PROVE Called(t)
  <2>1. /\ Moved(t, th'[t]) /\ Quiet(th'[t]) /\ (th'[t].pc # "idle" => th'[t].since = y.since)
        /\ trusted' = IF s = "Valid" THEN trusted \cup {d} ELSE trusted
    BY <1>1, <1>3, AnswerIs, Zenon
  <2> QED
    BY <1>1, <1>2, <1>3, <2>1, Zenon DEF Called, Rests
<1>4. ASSUME NEW x, Set(t, x), x.since = y.since, UNCHANGED trusted, Quiet(x) \/ (th'[t] = x => FindsDOT(t))
      PROVE  Called(t)
  <2>1. Moved(t, x)
    BY <1>1, <1>4, Sets, Zenon
  <2>2. th'[t] = x
    BY <2>1, Zenon DEF Moved
  <2> QED
    BY <1>1, <1>2, <1>4, <2>1, <2>2, ZenonT(30) DEF Called, Rests
<1>5. CASE LookDOT(t)
  <2>1. [y EXCEPT !.pc = "dot"].since = y.since /\ Quiet([y EXCEPT !.pc = "dot"])
    BY <1>1, Zenon DEF ThreadTypes, Quiet
  <2> QED
    BY <1>3, <1>4, <1>5, <2>1, ZenonT(30) DEF LookDOT
<1>6. CASE ReadDOT(t)
  <2> DEFINE s == StateOf("dot", d)
  <2>1. CASE s = "Unknown"
    BY <1>3, <1>6, <2>1, ZenonT(30) DEF ReadDOT
  <2>2. CASE s = "Valid"
    <3> DEFINE x == [y EXCEPT !.pc = "entity", !.side = "giver"]
    <3>1. Set(t, x) /\ UNCHANGED trusted /\ y.pc = "dot"
      BY <1>6, <2>2, Zenon DEF ReadDOT
    <3>2. x.since = y.since
      BY <1>1, Zenon DEF ThreadTypes
    <3>3. th'[t] = x => FindsDOT(t)
      BY <1>2, <2>2, <3>1, ZenonT(30) DEF FindsDOT
    <3> QED
      BY <1>4, <3>1, <3>2, <3>3, ZenonT(30)
  <2>3. CASE s \notin {"Unknown", "Valid"}
    <3> DEFINE x == [y EXCEPT !.pc = "cacheDOT", !.read = s]
    <3>1. Set(t, x) /\ UNCHANGED trusted
      BY <1>6, <2>3, Zenon DEF ReadDOT
    <3>2. x.since = y.since /\ x.read = s /\ x.pc = "cacheDOT"
      BY <1>1, Zenon DEF ThreadTypes
    <3> HIDE DEF x
    <3>3. Quiet(x)
      BY <2>3, <3>2, Zenon DEF Quiet
    <3> QED
      BY <1>4, <3>1, <3>2, <3>3, ZenonT(30)
  <2> QED
    BY <2>1, <2>2, <2>3, ZenonT(30)
<1> QED
  BY <1>5, <1>6, Zenon

\* How a thread goes on when ResolveEntity has returned s.
LEMMA EntityStateIs ==
  ASSUME Types, NEW t \in Threads, th[t].pc \in {"entity", "cacheEntity"}, NEW s \in Result, EntityState(t, s)
  PROVE  /\ Moved(t, th'[t]) /\ th'[t].since = th[t].since
         /\ s # "Valid" => Quiet(th'[t])
         /\ s = "Valid" => Passed(th[t], th'[t])
<1>0. ThreadTypes(th[t])
  BY Zenon DEF Types
<1>1. PICK x : Moved(t, x) /\ ThreadTypes(x) /\
           \/ s # "Valid" /\ x = [th[t] EXCEPT !.pc = "cacheDOT", !.read = s]
           \/ s = "Valid" /\ th[t].side = "giver" /\ x = [th[t] EXCEPT !.pc = "entity", !.side = "receiver"]
           \/ \E r \in {"Expired", "Valid"} :
                s = "Valid" /\ th[t].side # "giver" /\ x = [th[t] EXCEPT !.pc = "cacheDOT", !.read = r]
  BY EntityStates, Zenon
<1>2. th'[t] = x
  BY <1>1, Zenon DEF Moved
<1>3. s = "Valid" => Passed(th[t], x)
  BY <1>1, Zenon DEF Passed
<1>4. x.since = th[t].since /\ (s # "Valid" => x.pc = "cacheDOT" /\ x.read = s)
  BY <1>0, <1>1, Zenon DEF ThreadTypes
<1>5. s # "Valid" => Quiet(x)
  BY <1>4, Zenon DEF Quiet
<1> QED
  BY <1>1, <1>2, <1>3, <1>4, <1>5, ZenonT(30)

LEMMA EntityIs ==
  ASSUME ChainInv, Types, NEW t \in Threads, LookEntity(t) \/ ReadEntity(t) \/ CacheEntity(t)
  PROVE  Called(t)
<1> DEFINE y == th[t]
           e == EntityIn(y)
<1>1. /\ DOMAIN th = Threads /\ ThreadTypes(y) /\ CacheTypes
      /\ y.pc \in {"entity", "readEntity", "cacheEntity"} /\ y.pc \in Resolving
  BY Zenon DEF Types, LookEntity, ReadEntity, CacheEntity, Resolving
<1>2. e \in Entities /\ EntityOf(t) = e
  <2>1. EntityOf(t) = e
    BY Zenon DEF EntityOf, EntityIn
  <2> QED
    BY <1>1, <2>1, ThreadIs, Zenon
<1>3. entityCache \in [Entities -> Result \cup {None}]
  BY <1>1, Zenon DEF CacheTypes
<1>4. UNCHANGED <<chainVars, checkVars>>
  BY Zenon DEF LookEntity, ReadEntity, CacheEntity
<1> HIDE DEF e
<1>5. CASE LookEntity(t)
  <2>1. NothingNew /\ trusted' = trusted /\ y.pc = "entity"
    BY <1>5, Zenon DEF LookEntity, NothingNew, caches
  <2>2. CASE entityCache[e] # None
    <3>1. entityCache[e] \in Result /\ EntityState(t, entityCache[e])
      BY <1>2, <1>3, <1>5, <2>2, ZenonT(30) DEF LookEntity
    <3>2. /\ Moved(t, th'[t]) /\ th'[t].since = y.since
          /\ entityCache[e] # "Valid" => Quiet(th'[t])
          /\ entityCache[e] = "Valid" => Passed(y, th'[t])
      BY <2>1, <3>1, EntityStateIs, Zenon
    <3>3. Rests(t) \/ HasCached(t)
      BY <2>1, <3>2, Zenon DEF Rests, HasCached, e
    <3> QED
      BY <1>4, <2>1, <3>2, <3>3, ZenonT(30) DEF Called
  <2>3. CASE entityCache[e] = None
    <3> DEFINE x == [y EXCEPT !.pc = "readEntity"]
    <3>1. Moved(t, x)
      BY <1>1, <1>2, <1>5, <2>3, Sets, ZenonT(30) DEF LookEntity
    <3>2. th'[t] = x /\ x.since = y.since
      BY <1>1, <3>1, Zenon DEF Moved, ThreadTypes
    <3>3. LooksForEntity(t)
      BY <2>1, <3>2, Zenon DEF LooksForEntity
    <3> HIDE DEF x
    <3> QED
      BY <1>4, <2>1, <3>1, <3>2, <3>3, ZenonT(30) DEF Called
  <2> QED
    BY <2>2, <2>3, Zenon
<1>6. CASE ReadEntity(t)
  <2> DEFINE s == IF StateOf("entity", e) = "Valid" /\ Over(entityExpiry[e], now)
                  THEN "Expired" ELSE StateOf("entity", e)
  <2>1. NothingNew /\ y.pc = "readEntity"
    BY <1>6, Zenon DEF ReadEntity, NothingNew, caches
  <2>2. (Answer(t, s) /\ s # "Valid") \/ (Set(t, [y EXCEPT !.pc = "cacheEntity", !.read = s]) /\ UNCHANGED trusted)
    BY <1>2, <1>6, Zenon DEF ReadEntity
  <2>3. s = "Valid" => StateOf("entity", e) = "Valid"
    OBVIOUS
  <2> HIDE DEF s
  <2>4. CASE Answer(t, s) /\ s # "Valid"
    <3>1. /\ Moved(t, th'[t]) /\ Quiet(th'[t]) /\ (th'[t].pc # "idle" => th'[t].since = y.since)
          /\ trusted' = trusted
      BY <1>1, <2>4, AnswerIs, Zenon
    <3> QED
      BY <1>1, <1>4, <2>1, <3>1, ZenonT(30) DEF Called, Rests
  <2>5. CASE Set(t, [y EXCEPT !.pc = "cacheEntity", !.read = s]) /\ UNCHANGED trusted
    <3> DEFINE x == [y EXCEPT !.pc = "cacheEntity", !.read = s]
    <3>1. Moved(t, x)
      BY <1>1, <2>5, Sets, Zenon
    <3>2. th'[t] = x /\ x.since = y.since /\ x.pc = "cacheEntity" /\ x.read = s
      BY <1>1, <3>1, Zenon DEF Moved, ThreadTypes
    <3>3. s \in Result
      <4>1. Types'
        BY <1>6, EntityTypes, Zenon
      <4> QED
        BY <3>2, <4>1 DEF Types, ThreadTypes
    <3>4. FindsEntity(t)
      BY <2>1, <2>3, <2>5, <3>2, <3>3, Zenon DEF FindsEntity, e
    <3> HIDE DEF x
    <3> QED
      BY <1>4, <2>1, <3>1, <3>2, <3>4, ZenonT(30) DEF Called
  <2> QED
    BY <2>2, <2>4, <2>5, Zenon
<1>7. CASE CacheEntity(t)
  <2>1. y.pc = "cacheEntity" /\ y.read \in Result /\ EntityState(t, y.read)
    BY <1>1, <1>7, Zenon DEF CacheEntity, ThreadTypes
  <2>2. /\ entityCache' = [entityCache EXCEPT ![e] = y.read]
        /\ UNCHANGED <<dotHashCache, dotToInvCache, trusted>>
    BY <1>2, <1>7, Zenon DEF CacheEntity
  <2>3. /\ Moved(t, th'[t]) /\ th'[t].since = y.since
        /\ y.read # "Valid" => Quiet(th'[t])
        /\ y.read = "Valid" => Passed(y, th'[t])
    BY <2>1, EntityStateIs, Zenon
  <2>4. CASE y.read = "Valid"
    <3>1. WritesEntity(t)
      BY <2>1, <2>2, <2>3, <2>4, ZenonT(30) DEF WritesEntity, e
    <3> QED
      BY <1>4, <2>1, <2>3, <3>1, Zenon DEF Called
  <2>5. CASE y.read # "Valid"
    <3>1. NothingNew
      BY <1>3, <2>2, <2>5, Zenon DEF NothingNew
    <3> QED
      BY <1>4, <2>1, <2>2, <2>3, <2>5, <3>1, ZenonT(30) DEF Called, Rests
  <2> QED
    BY <2>4, <2>5, Zenon
<1> QED
  BY <1>5, <1>6, <1>7, ZenonT(30)

LEMMA CacheDOTIs ==
  ASSUME ChainInv, Types, NEW t \in Threads, CacheDOT(t)
  PROVE  Called(t)
<1> DEFINE y == th[t]
           d == Head(y.list)
<1>1. /\ ThreadTypes(y) /\ CacheTypes /\ y.pc = "cacheDOT" /\ y.pc \in Resolving
  BY Zenon DEF Types, CacheDOT, Resolving
<1>2. UNCHANGED <<chainVars, checkVars, entityCache>> /\ Answer(t, y.read)
  BY Zenon DEF CacheDOT
<1>3. /\ Moved(t, th'[t]) /\ Quiet(th'[t]) /\ (th'[t].pc # "idle" => th'[t].since = y.since)
      /\ trusted' = IF y.read = "Valid" THEN trusted \cup {d} ELSE trusted
  BY <1>1, <1>2, AnswerIs, ZenonT(30)
<1>4. d \in DOTs /\ dotHashCache \in [DOTs -> Result \cup {None}] /\ dotToInvCache \in [Entities -> SUBSET DOTs]
  BY <1>1, ThreadIs, Zenon DEF CacheTypes
<1>5. /\ dotHashCache' = [dotHashCache EXCEPT ![d] = y.read]
      /\ \/ dotToInvCache' = dotToInvCache
         \/ dotToInvCache' = [dotToInvCache EXCEPT ![receiver[d]] = @ \cup {d}]
  BY Zenon DEF CacheDOT
<1>6. \A c \in DOTs \ {d} : /\ dotHashCache'[c] = dotHashCache[c]
                            /\ c \in dotToInvCache'[receiver[c]] => c \in dotToInvCache[receiver[c]]
  BY <1>4, <1>5, RegistryAssumption, ZenonT(30)
<1> HIDE DEF d
<1>7. CASE y.read = "Valid"
  <2>1. WritesDOT(t)
    <3>1. y.pc = "cacheDOT" /\ Quiet(th'[t]) /\ entityCache' = entityCache /\ trusted' = trusted \cup {d}
      BY <1>1, <1>2, <1>3, <1>7, ZenonT(30)
    <3> QED
      BY <1>6, <1>7, <3>1, Zenon DEF WritesDOT, d
  <2> QED
    BY <1>1, <1>2, <1>3, <2>1, ZenonT(30) DEF Called
<1>8. CASE y.read # "Valid"
  <2>1. dotHashCache'[d] # "Valid"
    BY <1>4, <1>5, <1>8, Zenon
  <2>2. ASSUME NEW c \in DOTs, dotHashCache'[c] = "Valid"
        PROVE  dotHashCache[c] = "Valid" /\ (c \in dotToInvCache'[receiver[c]] => c \in dotToInvCache[receiver[c]])
    <3>1. c \in DOTs \ {d}
      BY <2>1, <2>2, Zenon
    <3> QED
      BY <1>6, <2>2, <3>1, Zenon
  <2>3. NothingNew
    BY <1>2, <2>2, Zenon DEF NothingNew
  <2> QED
    BY <1>1, <1>2, <1>3, <1>8, <2>3, ZenonT(30) DEF Called, Rests
<1> QED
  BY <1>7, <1>8, Zenon

\* Each step of a call is one of seven.
LEMMA CallIs ==
  ASSUME ChainInv, Types, NEW t \in Threads, Call(t)
  PROVE  Called(t)
<1>1. CASE CacheBuiltChains(t)
  <2>1. th[t].pc = "built" /\ ThreadTypes(th[t])
    BY <1>1, Zenon DEF CacheBuiltChains, Types
  <2>2. PICK x : Moved(t, x) /\ ThreadTypes(x) /\ x.pc = "idle"
    BY <1>1, <2>1, Returns, ZenonT(30) DEF CacheBuiltChains, ThreadTypes
  <2>3. th'[t] = x
    BY <2>2, Zenon DEF Moved
  <2>4. NothingNew /\ UNCHANGED <<chainVars, checkVars, trusted>>
    BY <1>1, Zenon DEF CacheBuiltChains, NothingNew
  <2> QED
    BY <2>2, <2>3, <2>4, Zenon DEF Called, Rests, Quiet
<1> QED
  BY <1>1, BeginIs, GrantedIs, LookIs, EntityIs, CacheDOTIs, ZenonT(30) DEF Call

=============================================================================
