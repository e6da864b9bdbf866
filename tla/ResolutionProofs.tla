-------------------------- MODULE ResolutionProofs --------------------------
(***************************************************************************)
(* What holds of the resolution cache, for any number of threads, objects  *)
(* and blocks, any plan and any bounds that satisfy the assumptions.       *)
(***************************************************************************)
EXTENDS ResolutionSteps

-----------------------------------------------------------------------------
(* The invariants *)

\* A DOT and its entities are registered where no fork undoes it.
AllKnown(d) == DOTKnown(d) /\ EntityKnown(giver[d]) /\ EntityKnown(receiver[d])

\* A thread that has found a DOT, and perhaps one or both of its entities, valid.
HasDOT(x) == x.pc \in {"entity", "readEntity", "cacheEntity"} \/ (x.pc = "cacheDOT" /\ x.read = "Valid")
HasGiver(x) ==
  \/ x.pc \in {"entity", "readEntity", "cacheEntity"} /\ x.side # "giver"
  \/ x.pc = "cacheDOT" /\ x.read = "Valid"
HasReceiver(x) == x.pc = "cacheDOT" /\ x.read = "Valid"
HasEntity(x) == x.pc = "cacheEntity" /\ x.read = "Valid"

DeepThread(x) ==
  /\ HasDOT(x) => DOTKnown(Head(x.list))
  /\ HasGiver(x) => EntityKnown(giver[Head(x.list)])
  /\ HasReceiver(x) => EntityKnown(receiver[Head(x.list)])
  /\ HasEntity(x) => EntityKnown(EntityIn(x))

\* What was found valid is registered there.
DeepInv ==
  /\ \A e \in Entities : entityCache[e] = "Valid" => EntityKnown(e)
  /\ \A d \in DOTs : dotHashCache[d] = "Valid" => AllKnown(d)
  /\ \A d \in trusted : AllKnown(d)
  /\ \A t \in Threads : DeepThread(th[t])

ThreadTiming(x) == x.pc # "idle" =>
  /\ x.since <= final + Lag /\ CurrentBlock <= x.since + Stall
  /\ x.since <= CurrentBlock \/ x.since <= CurrentBlock + Lag - 1
  /\ lastblock <= x.since + Late /\ x.since <= lastblock + Behind

Timing ==
  /\ lastblock <= final + Lag /\ CurrentBlock <= lastblock + Delay
  /\ lastblock <= CurrentBlock \/ lastblock <= CurrentBlock + Lag - 1
  /\ \A t \in Threads : ThreadTiming(th[t])

\* The block before those of the next replay, and how old what a thread found
\* in the cache of entities may be.
Past == lastblock - Replay - 1
Age == Behind + Late + Lag + Delay

AliveThread(x) ==
  /\ HasDOT(x) => DOTAlive(Head(x.list), x.since - Lag)
  /\ HasGiver(x) => EntityAlive(giver[Head(x.list)], x.since - Age)
  /\ HasReceiver(x) => EntityAlive(receiver[Head(x.list)], x.since - Age)
  /\ HasEntity(x) => EntityAlive(EntityIn(x), x.since - Lag)

ToHandle(kind, x) == <<kind, x>> \in Range(todo)

FreshEntity(e) ==
  /\ EntityAlive(e, lastblock - Late - Lag) \/ ToHandle("RevokeEntity", e)
  /\ EntityAlive(e, lastblock - Late - Lag - Delay)

FreshDOT(d) ==
  /\ DOTAlive(d, Past) \/ ToHandle("RevokeDOT", d)
  /\ EntityAlive(giver[d], Past) \/ ToHandle("RevokeEntity", giver[d])
  /\ d \in dotToInvCache[receiver[d]] => EntityAlive(receiver[d], Past) \/ ToHandle("RevokeEntity", receiver[d])

\* What is cached as valid was not revoked long ago, or is about to be flushed.
AliveInv ==
  /\ \A e \in Entities : entityCache[e] = "Valid" => FreshEntity(e)
  /\ \A d \in DOTs : dotHashCache[d] = "Valid" => FreshDOT(d)
  /\ \A t \in Threads : AliveThread(th[t])

-----------------------------------------------------------------------------
(* How late threads and checks are *)

\* Steps that leave the threads and the check for new blocks alone.
LEMMA OthersAre ==
  ASSUME ChainStep \/ HandleLog \/ DropAllCaches \/ Finished \/ UNCHANGED vars \/ \E x \in Expiring : FlushExpired(x)
  PROVE  UNCHANGED <<th, lastblock>>
<1>1. CASE ChainStep
  BY <1>1, Zenon DEF ChainStep, Send, Mine, Fork, Tick, checkVars
<1>2. CASE HandleLog \/ DropAllCaches \/ Finished \/ UNCHANGED vars
  BY <1>2, Zenon DEF HandleLog, DropAllCaches, Finished, vars, checkVars
<1>3. CASE \E x \in Expiring : FlushExpired(x)
  BY <1>3, Zenon DEF FlushExpired, checkVars
<1> QED
  BY <1>1, <1>2, <1>3, ZenonT(30)

LEMMA InitTiming == Init => Timing
<1> SUFFICES ASSUME Init PROVE Timing
  OBVIOUS
<1>1. CurrentBlock \in Nat /\ final \in Nat /\ CurrentBlock <= final + Lag /\ lastblock = CurrentBlock
  BY InitChain, ChainFacts, ZenonT(30) DEF Init, CurrentBlock
<1>2. \A t \in Threads : th[t].pc = "idle"
  BY Zenon DEF Init, Idle
<1> QED
  BY <1>1, <1>2, Bounds DEF Timing, ThreadTiming

LEMMA StepTiming == ChainInv /\ Types /\ Timing /\ [Next]_vars => Timing'
<1> SUFFICES ASSUME ChainInv, Types, Timing, [Next]_vars PROVE Timing'
  OBVIOUS
<1>1. CurrentBlock \in Nat /\ final \in Nat /\ final <= CurrentBlock /\ CurrentBlock <= final + Lag
  BY ChainFacts, Zenon
<1>2. lastblock \in Nat /\ \A u \in Threads : th[u].since \in Nat
  BY ThreadIs, Zenon DEF Types, CacheTypes
<1>3. /\ lastblock <= final + Lag /\ CurrentBlock <= lastblock + Delay
      /\ lastblock <= CurrentBlock \/ lastblock <= CurrentBlock + Lag - 1
  BY Zenon DEF Timing
<1>4. ASSUME NEW u \in Threads, th[u].pc # "idle"
      PROVE  /\ th[u].since <= final + Lag /\ CurrentBlock <= th[u].since + Stall
             /\ th[u].since <= CurrentBlock \/ th[u].since <= CurrentBlock + Lag - 1
             /\ lastblock <= th[u].since + Late /\ th[u].since <= lastblock + Behind
  BY <1>4, ZenonT(30) DEF Timing, ThreadTiming
<1>5. ASSUME UNCHANGED <<th, lastblock, chain, final>> PROVE Timing'
  BY <1>5, Zenon DEF Timing, ThreadTiming, CurrentBlock
<1>6. ASSUME NEW txs, txs \in {<<>>} \cup {<<tx>> : tx \in pool}, Mine(txs) PROVE Timing'
  <2>1. final <= final' /\ final' \in Nat
    <3>1. ChainInv' /\ SameDeep
      BY <1>6, MineChain, ZenonT(30)
    <3> QED
      BY <1>1, <3>1 DEF ChainInv, SameDeep
  <2>2. Len(chain') = CurrentBlock + 1
    BY <1>6, MineChain, ZenonT(30)
  <2>3. UNCHANGED <<th, lastblock>> /\ InTime
    BY <1>6, Zenon DEF Mine, checkVars
  <2>4. CurrentBlock' = CurrentBlock + 1
    BY <2>2, Zenon DEF CurrentBlock
  <2>5. ASSUME NEW u \in Threads PROVE ThreadTiming(th[u])'
    <3> SUFFICES ASSUME th'[u].pc # "idle"
                 PROVE  /\ th'[u].since <= final' + Lag /\ CurrentBlock' <= th'[u].since + Stall
                        /\ th'[u].since <= CurrentBlock' \/ th'[u].since <= CurrentBlock' + Lag - 1
                        /\ lastblock' <= th'[u].since + Late /\ th'[u].since <= lastblock' + Behind
      BY Zenon DEF ThreadTiming
    <3>1. th'[u] = th[u] /\ lastblock' = lastblock /\ CurrentBlock < th[u].since + Stall
      BY <2>3, ZenonT(30) DEF InTime
    <3>2. /\ th[u].since <= final + Lag /\ CurrentBlock <= th[u].since + Stall
          /\ th[u].since <= CurrentBlock \/ th[u].since <= CurrentBlock + Lag - 1
          /\ lastblock <= th[u].since + Late /\ th[u].since <= lastblock + Behind
      BY <1>4, <3>1, ZenonT(30)
    <3>3. th[u].since \in Nat
      BY <1>2, Zenon
    <3>4. th[u].since <= final' + Lag
      BY <1>1, <2>1, <3>2, <3>3, Bounds
    <3>5. CurrentBlock + 1 <= th[u].since + Stall
      BY <1>1, <3>1, <3>3, Bounds
    <3>6. th[u].since <= CurrentBlock + 1 \/ th[u].since <= CurrentBlock + 1 + Lag - 1
      BY <1>1, <3>2, <3>3, Bounds
    <3> QED
      BY <2>4, <3>1, <3>2, <3>4, <3>5, <3>6, ZenonT(30)
  <2>6. CurrentBlock < lastblock + Delay
    BY <2>3, Zenon DEF InTime
  <2>7. lastblock <= final' + Lag /\ CurrentBlock + 1 <= lastblock + Delay
    <3>1. lastblock \in Nat /\ lastblock <= final + Lag /\ Lag \in Nat /\ Delay \in Nat
      BY <1>2, <1>3, Bounds, ZenonT(30)
    <3>2. lastblock <= final' + Lag
      <4>1. PICK f \in Nat : f = final'
        BY <2>1, Zenon
      <4>2. final <= f
        BY <2>1, <4>1, ZenonT(30)
      <4>3. lastblock <= f + Lag
        BY <1>1, <3>1, <4>2
      <4> QED
        BY <4>1, <4>3, ZenonT(30)
    <3>3. CurrentBlock + 1 <= lastblock + Delay
      BY <1>1, <2>6, <3>1
    <3> QED
      BY <3>2, <3>3, Zenon
  <2>8. lastblock <= CurrentBlock + 1 \/ lastblock <= CurrentBlock + 1 + Lag - 1
    BY <1>1, <1>2, <1>3, Bounds
  <2> QED
    BY <2>3, <2>4, <2>5, <2>7, <2>8, ZenonT(30) DEF Timing
<1>7. ASSUME NEW txs, txs \in {<<>>} \cup {<<tx>> : tx \in pool}, NEW k, k \in 1 .. Lag, Fork(k, txs) PROVE Timing'
  <2>1. CurrentBlock' = CurrentBlock - k + 1
    BY <1>7, ForkChain, ZenonT(30) DEF CurrentBlock
  <2>2. UNCHANGED <<th, lastblock, final>> /\ CurrentBlock - k >= final
    BY <1>7, Zenon DEF Fork, checkVars
  <2>3. k \in Nat /\ k >= 1
    BY <1>7, Bounds
  <2>4. CurrentBlock' \in Nat /\ CurrentBlock' <= CurrentBlock /\ final + 1 <= CurrentBlock'
    BY <1>1, <2>1, <2>2, <2>3
  <2>5. ASSUME NEW u \in Threads PROVE ThreadTiming(th[u])'
    BY <1>1, <1>2, <1>4, <2>2, <2>4, Bounds DEF ThreadTiming
  <2>6. CurrentBlock' <= lastblock + Delay /\ lastblock <= CurrentBlock' + Lag - 1
    <3>1. /\ lastblock \in Nat /\ lastblock <= final + Lag /\ CurrentBlock <= lastblock + Delay
          /\ Lag \in Nat /\ Delay \in Nat
      BY <1>2, <1>3, Bounds, ZenonT(30)
    <3>2. CurrentBlock' <= lastblock + Delay
      BY <1>1, <2>4, <3>1
    <3>3. lastblock <= CurrentBlock' + Lag - 1
      <4>1. PICK c \in Nat : c = CurrentBlock'
        BY <2>4, Zenon
      <4>2. final + 1 <= c
        BY <2>4, <4>1, Zenon
      <4>3. lastblock <= c + Lag - 1
        BY <1>1, <3>1, <4>2
      <4> QED
        BY <4>1, <4>3, Zenon
    <3> QED
      BY <3>2, <3>3, ZenonT(30)
  <2> QED
    BY <1>3, <2>2, <2>5, <2>6, ZenonT(30) DEF Timing
<1>8. ASSUME NEW t \in Threads, Call(t) PROVE Timing'
  <2>1. Called(t)
    BY <1>8, CallIs, Zenon
  <2>2. UNCHANGED <<chain, final, lastblock>>
    BY <2>1, Zenon DEF Called, chainVars, checkVars
  <2>3. CurrentBlock' = CurrentBlock
    BY <2>2, Zenon DEF CurrentBlock
  <2>4. ASSUME NEW u \in Threads PROVE ThreadTiming(th[u])'
    <3>1. CASE u # t
      <4>1. th'[u] = th[u]
        BY <2>1, <3>1, Zenon DEF Called, Moved
      <4> QED
        BY <1>4, <2>2, <2>3, <4>1, ZenonT(30) DEF ThreadTiming
    <3>2. CASE u = t /\ th[t].pc = "idle"
      <4>1. th'[t].pc # "idle" => th'[t].since = CurrentBlock
        BY <2>1, <3>2, Zenon DEF Called
      <4>2. CurrentBlock <= CurrentBlock + Stall
        BY <1>1, Bounds
      <4>3. lastblock <= CurrentBlock + Late /\ CurrentBlock <= lastblock + Behind
        BY <1>1, <1>2, <1>3, Bounds
      <4> QED
        BY <1>1, <2>2, <2>3, <3>2, <4>1, <4>2, <4>3 DEF ThreadTiming
    <3>3. CASE u = t /\ th[t].pc # "idle"
      <4>1. th'[t].pc # "idle" => th'[t].since = th[t].since
        BY <2>1, <3>3, Zenon DEF Called
      <4> QED
        BY <1>4, <2>2, <2>3, <3>3, <4>1, ZenonT(30) DEF ThreadTiming
    <3> QED
      BY <3>1, <3>2, <3>3, ZenonT(30)
  <2> QED
    BY <1>3, <2>2, <2>3, <2>4, ZenonT(30) DEF Timing
<1>9. CASE CheckChainChange
  <2>1. UNCHANGED <<th, chain, final>> /\ lastblock' = CurrentBlock /\ CurrentBlock' = CurrentBlock
    BY <1>9, Zenon DEF CheckChainChange, chainVars, CurrentBlock
  <2>2. ASSUME NEW u \in Threads, th[u].pc # "idle"
        PROVE  CurrentBlock <= th[u].since + Late /\ th[u].since <= CurrentBlock + Behind
    <3>1. th[u].since \in Nat
      BY <1>2, Zenon
    <3>2. /\ CurrentBlock <= th[u].since + Stall
          /\ th[u].since <= CurrentBlock \/ th[u].since <= CurrentBlock + Lag - 1
      BY <1>4, <2>2, Zenon
    <3> QED
      BY <1>1, <3>1, <3>2, Bounds
  <2>3. ASSUME NEW u \in Threads PROVE ThreadTiming(th[u])'
    BY <1>4, <2>1, <2>2, ZenonT(30) DEF ThreadTiming
  <2> QED
    BY <1>1, <2>1, <2>3, Bounds DEF Timing
<1>10. CASE \/ Tick \/ HandleLog \/ DropAllCaches \/ Finished \/ UNCHANGED vars \/ \E tx \in Transaction : Send(tx)
            \/ \E x \in Expiring : FlushExpired(x)
  <2>1. UNCHANGED <<th, lastblock>>
    BY <1>10, OthersAre, ZenonT(30) DEF ChainStep
  <2>2. UNCHANGED <<chain, final>>
    <3>1. CASE Tick \/ \E tx \in Transaction : Send(tx)
      BY <3>1, Zenon DEF Tick, Send
    <3>2. CASE HandleLog \/ DropAllCaches \/ Finished \/ UNCHANGED vars
      BY <3>2, Zenon DEF HandleLog, DropAllCaches, Finished, vars, chainVars
    <3>3. CASE \E x \in Expiring : FlushExpired(x)
      BY <3>3, Zenon DEF FlushExpired, chainVars
    <3> QED
      BY <1>10, <3>1, <3>2, <3>3, ZenonT(30)
  <2> QED
    BY <1>5, <2>1, <2>2, ZenonT(30)
<1> QED
  BY <1>6, <1>7, <1>8, <1>9, <1>10, ZenonT(30) DEF Next, ChainStep

-----------------------------------------------------------------------------
(* What was found valid is registered for good *)

LEMMA DeepKept ==
  ASSUME ChainInv, ChainInv', SameDeep
  PROVE  /\ \A e \in Entities : chain[final].reg.entity[e] # "Unknown" => chain'[final'].reg.entity[e] # "Unknown"
         /\ \A d \in DOTs : chain[final].reg.dot[d] # "Unknown" => chain'[final'].reg.dot[d] # "Unknown"
<1>1. /\ ChainOf(chain') /\ final' \in 1 .. Len(chain') /\ final \in 1 .. Len(chain') /\ final <= final'
      /\ Len(chain') \in Nat /\ final \in Nat /\ final >= 1
  BY ChainFacts DEF ChainInv, SameDeep, ChainOf
<1>2. chain'[final] = chain[final]
  BY <1>1 DEF SameDeep
<1>3. PICK c : c = chain'
  OBVIOUS
<1>4. PICK n : n = final'
  OBVIOUS
<1>5. final \in 0 .. Len(c) /\ n \in final .. Len(c) /\ final # 0 /\ n # 0 /\ ChainOf(c)
  <2>1. n \in 1 .. Len(c) /\ final \in 1 .. Len(c) /\ final <= n /\ Len(c) \in Nat /\ final \in Nat /\ ChainOf(c)
    BY <1>1, <1>3, <1>4, ZenonT(30)
  <2> QED
    BY <2>1
<1>6. Step(After(c, final), After(c, n))
  BY <1>5, ChainGrows, Zenon
<1>7. After(c, final) = chain[final].reg /\ After(c, n) = chain'[final'].reg
  BY <1>2, <1>3, <1>4, <1>5, ZenonT(30) DEF After
<1>8. Grows(chain[final].reg, chain'[final'].reg)
  BY <1>6, <1>7, ZenonT(30) DEF Step
<1> QED
  BY <1>8, Zenon DEF Grows, Ages

LEMMA DeepOn ==
  ASSUME ChainInv, ChainInv', SameDeep, NEW u \in Threads, ThreadTypes(th[u]), DeepThread(th[u]), th'[u] = th[u]
  PROVE  DeepThread(th[u])'
<1> DEFINE y == th[u]
<1>1. CASE y.pc \notin Resolving
  BY <1>1, Zenon DEF DeepThread, HasDOT, HasGiver, HasReceiver, HasEntity, Resolving
<1>2. CASE y.pc \in Resolving
  <2>1. /\ Head(y.list) \in DOTs /\ EntityIn(y) \in Entities
        /\ giver[Head(y.list)] \in Entities /\ receiver[Head(y.list)] \in Entities
    BY <1>2, ThreadIs, RegistryAssumption, ZenonT(30)
  <2>2. HasDOT(y) => chain'[final'].reg.dot[Head(y.list)] # "Unknown"
    BY <2>1, DeepKept, ZenonT(30) DEF DeepThread, DOTKnown
  <2>3. HasGiver(y) => chain'[final'].reg.entity[giver[Head(y.list)]] # "Unknown"
    BY <2>1, DeepKept, ZenonT(30) DEF DeepThread, EntityKnown
  <2>4. HasReceiver(y) => chain'[final'].reg.entity[receiver[Head(y.list)]] # "Unknown"
    BY <2>1, DeepKept, Zenon DEF DeepThread, EntityKnown
  <2>5. HasEntity(y) => chain'[final'].reg.entity[EntityIn(y)] # "Unknown"
    BY <2>1, DeepKept, Zenon DEF DeepThread, EntityKnown
  <2> QED
    BY <2>2, <2>3, <2>4, <2>5, ZenonT(30)
       DEF DeepThread, HasDOT, HasGiver, HasReceiver, HasEntity, EntityIn, DOTKnown, EntityKnown
<1> QED
  BY <1>1, <1>2, ZenonT(30)

LEMMA PassedDeep ==
  ASSUME NEW y, ThreadTypes(y), y.pc \in {"entity", "cacheEntity"}, DeepThread(y), EntityKnown(EntityIn(y)),
         NEW x, Passed(y, x)
  PROVE  DeepThread(x)
<1>1. y \in [ops : Seq(Calls), pc : Pcs, kind : {"dot", "chain", "build", "cached", None}, list : Seq(DOTs),
             got : SUBSET DOTs, side : {"giver", "receiver", None}, read : Result \cup {None}, since : Nat]
  BY Zenon DEF ThreadTypes
<1>2. DOTKnown(Head(y.list)) /\ (y.side # "giver" => EntityKnown(giver[Head(y.list)]))
  BY Zenon DEF DeepThread, HasDOT, HasGiver
<1>3. CASE y.side = "giver" /\ x = [y EXCEPT !.pc = "entity", !.side = "receiver"]
  <2>1. x.pc = "entity" /\ x.list = y.list
    BY <1>1, <1>3, ZenonT(30)
  <2>2. EntityKnown(giver[Head(y.list)])
    BY <1>3, Zenon DEF EntityIn
  <2> QED
    BY <1>2, <2>1, <2>2, ZenonT(30) DEF DeepThread, HasReceiver, HasEntity
<1>4. ASSUME NEW r, y.side # "giver", x = [y EXCEPT !.pc = "cacheDOT", !.read = r] PROVE DeepThread(x)
  <2>1. x.pc = "cacheDOT" /\ x.list = y.list
    BY <1>1, <1>4, ZenonT(30)
  <2>2. EntityKnown(receiver[Head(y.list)])
    BY <1>4, Zenon DEF EntityIn
  <2> QED
    BY <1>2, <1>4, <2>1, <2>2, ZenonT(30) DEF DeepThread, HasEntity
<1> QED
  BY <1>3, <1>4, ZenonT(30) DEF Passed

\* A step of a call, on the same chain.
LEMMA CallDeep ==
  ASSUME ChainInv, Types, DeepInv, NEW t \in Threads, Called(t), trusted' \subseteq DOTs
  PROVE  /\ \A e \in Entities : entityCache'[e] = "Valid" => EntityKnown(e)
         /\ \A d \in DOTs : dotHashCache'[d] = "Valid" => AllKnown(d)
         /\ \A d \in trusted' : AllKnown(d)
         /\ DeepThread(th'[t])
<1> DEFINE y == th[t]
           x == th'[t]
           d == Head(y.list)
           Goal == /\ \A e \in Entities : entityCache'[e] = "Valid" => EntityKnown(e)
                   /\ \A c \in DOTs : dotHashCache'[c] = "Valid" => AllKnown(c)
                   /\ \A c \in trusted' : AllKnown(c)
                   /\ DeepThread(x)
<1>1. ThreadTypes(y) /\ DeepThread(y) /\ trusted \subseteq DOTs
  BY Zenon DEF Types, DeepInv, CacheTypes
<1>2. /\ \A e \in Entities : entityCache[e] = "Valid" => EntityKnown(e)
      /\ \A c \in DOTs : dotHashCache[c] = "Valid" => AllKnown(c)
      /\ \A c \in trusted : AllKnown(c)
  BY Zenon DEF DeepInv
<1>3. ASSUME NothingNew, DeepThread(x), \A c \in trusted' : c \in trusted \/ dotHashCache[c] = "Valid" PROVE Goal
  BY <1>2, <1>3, ZenonT(30) DEF NothingNew
<1>4. CASE Rests(t)
  <2>1. DeepThread(x)
    BY <1>4, Zenon DEF Rests, Quiet, DeepThread, HasDOT, HasGiver, HasReceiver, HasEntity
  <2> QED
    BY <1>3, <1>4, <2>1, ZenonT(30) DEF Rests
<1>5. CASE FindsDOT(t)
  <2>1. d \in DOTs
    BY <1>1, <1>5, ThreadIs, ZenonT(30) DEF FindsDOT, Resolving
  <2>2. DOTKnown(d)
    BY <1>5, <2>1, ValidIs, ZenonT(30) DEF FindsDOT
  <2>3. x.pc = "entity" /\ x.side = "giver" /\ x.list = y.list
    BY <1>1, <1>5, ZenonT(30) DEF FindsDOT, ThreadTypes
  <2>4. DeepThread(x)
    BY <2>2, <2>3, ZenonT(30) DEF DeepThread, HasGiver, HasReceiver, HasEntity
  <2> QED
    BY <1>3, <1>5, <2>4, ZenonT(30) DEF FindsDOT
<1>6. CASE LooksForEntity(t)
  <2>1. x.pc = "readEntity" /\ x.side = y.side /\ x.list = y.list /\ y.pc = "entity"
    BY <1>1, <1>6, ZenonT(30) DEF LooksForEntity, ThreadTypes
  <2>2. DeepThread(x)
    BY <1>1, <2>1, ZenonT(30) DEF DeepThread, HasDOT, HasGiver, HasReceiver, HasEntity
  <2> QED
    BY <1>3, <1>6, <2>2, ZenonT(30) DEF LooksForEntity
<1>7. CASE FindsEntity(t)
  <2>1. PICK s \in Result : /\ x = [y EXCEPT !.pc = "cacheEntity", !.read = s]
                            /\ s = "Valid" => StateOf("entity", EntityIn(y)) = "Valid"
    BY <1>7, Zenon DEF FindsEntity
  <2>2. x.pc = "cacheEntity" /\ x.side = y.side /\ x.list = y.list /\ y.pc = "readEntity" /\ x.read = s
    BY <1>1, <1>7, <2>1, ZenonT(30) DEF FindsEntity, ThreadTypes
  <2>3. EntityIn(y) \in Entities /\ EntityIn(x) = EntityIn(y)
    BY <1>1, <2>2, ThreadIs, ZenonT(30) DEF EntityIn, Resolving
  <2>4. s = "Valid" => EntityKnown(EntityIn(x))
    BY <2>1, <2>3, ValidIs, ZenonT(30)
  <2>5. DeepThread(x)
    BY <1>1, <2>2, <2>4, ZenonT(30) DEF DeepThread, HasDOT, HasGiver, HasReceiver, HasEntity
  <2> QED
    BY <1>3, <1>7, <2>5, ZenonT(30) DEF FindsEntity
<1>8. CASE HasCached(t)
  <2>1. y.pc = "entity" /\ entityCache[EntityIn(y)] = "Valid" /\ Passed(y, x)
    BY <1>8, Zenon DEF HasCached
  <2>2. EntityIn(y) \in Entities
    BY <1>1, <2>1, ThreadIs, ZenonT(30) DEF Resolving
  <2>3. DeepThread(x)
    BY <1>1, <1>2, <2>1, <2>2, PassedDeep, ZenonT(30)
  <2> QED
    BY <1>3, <1>8, <2>3, ZenonT(30) DEF HasCached
<1>9. CASE WritesEntity(t)
  <2>1. /\ y.pc = "cacheEntity" /\ y.read = "Valid" /\ Passed(y, x)
        /\ entityCache' = [entityCache EXCEPT ![EntityIn(y)] = "Valid"]
        /\ UNCHANGED <<dotHashCache, dotToInvCache, trusted>>
    BY <1>9, ZenonT(30) DEF WritesEntity
  <2>2. EntityKnown(EntityIn(y))
    BY <1>1, <2>1, ZenonT(30) DEF DeepThread, HasEntity
  <2>3. DeepThread(x)
    BY <1>1, <2>1, <2>2, PassedDeep, ZenonT(30)
  <2>4. entityCache \in [Entities -> Result \cup {None}]
    BY Zenon DEF Types, CacheTypes
  <2>5. \A e \in Entities : entityCache'[e] = "Valid" => EntityKnown(e)
    BY <1>2, <2>1, <2>2, <2>4, ZenonT(30)
  <2> QED
    BY <1>2, <2>1, <2>3, <2>5, ZenonT(30)
<1>10. CASE WritesDOT(t)
  <2>1. /\ y.pc = "cacheDOT" /\ y.read = "Valid" /\ Quiet(x) /\ entityCache' = entityCache
        /\ trusted' = trusted \cup {d} /\ \A c \in DOTs \ {d} : dotHashCache'[c] = dotHashCache[c]
    BY <1>10, Zenon DEF WritesDOT
  <2>2. AllKnown(d)
    BY <1>1, <2>1, ZenonT(30) DEF DeepThread, HasDOT, HasGiver, HasReceiver, AllKnown
  <2>3. DeepThread(x)
    BY <2>1, Zenon DEF Quiet, DeepThread, HasDOT, HasGiver, HasReceiver, HasEntity
  <2>4. \A c \in DOTs : dotHashCache'[c] = "Valid" => AllKnown(c)
    BY <1>2, <2>1, <2>2, ZenonT(30)
  <2>5. \A c \in trusted' : AllKnown(c)
    BY <1>2, <2>1, <2>2, ZenonT(30)
  <2> QED
    BY <1>2, <2>1, <2>3, <2>4, <2>5, ZenonT(30)
<1> QED
  BY <1>4, <1>5, <1>6, <1>7, <1>8, <1>9, <1>10, ZenonT(30) DEF Called

\* Flushes, and steps of the chain, leave nothing new in the caches.
LEMMA Flushes ==
  ASSUME Types, CheckChainChange \/ HandleLog \/ DropAllCaches \/ Finished \/ UNCHANGED vars \/ ChainStep
                \/ \E x \in Expiring : FlushExpired(x)
  PROVE  NothingNew /\ UNCHANGED <<th, trusted>>
<1>1. /\ entityCache \in [Entities -> Result \cup {None}] /\ dotHashCache \in [DOTs -> Result \cup {None}]
      /\ dotToInvCache \in [Entities -> SUBSET DOTs] /\ None # "Valid"
  BY ResolutionAssumption, Zenon DEF Types, CacheTypes, Validity
<1>2. ASSUME UNCHANGED <<entityCache, dotHashCache, dotToInvCache>> PROVE NothingNew
  BY <1>2, Zenon DEF NothingNew
<1>3. ASSUME NEW d, FlushDOT(d) \/ FlushNewDOT(d) PROVE NothingNew
  BY <1>1, <1>3, Zenon DEF FlushDOT, FlushNewDOT, FlushDOTs, NothingNew
<1>4. ASSUME NEW e, FlushEntity(e) PROVE NothingNew
  BY <1>1, <1>4, RegistryAssumption, ZenonT(30) DEF FlushEntity, FlushDOTs, NothingNew
<1>5. CASE CheckChainChange \/ Finished \/ UNCHANGED vars \/ ChainStep
  BY <1>2, <1>5, ZenonT(30) DEF CheckChainChange, Finished, vars, caches, ChainStep, Send, Mine, Fork, Tick
<1>6. CASE HandleLog
  BY <1>3, <1>4, <1>6, ZenonT(30) DEF HandleLog
<1>7. CASE DropAllCaches
  BY <1>1, <1>7, ZenonT(30) DEF DropAllCaches, ClearCaches, NothingNew
<1>8. CASE \E x \in Expiring : FlushExpired(x)
  BY <1>3, <1>4, <1>8, ZenonT(30) DEF FlushExpired
<1> QED
  BY <1>5, <1>6, <1>7, <1>8, ZenonT(30)

LEMMA StepDeep == ChainInv /\ Types /\ DeepInv /\ [Next]_vars => DeepInv'
<1> SUFFICES ASSUME ChainInv, Types, DeepInv, [Next]_vars PROVE DeepInv'
  OBVIOUS
<1>1. ChainInv' /\ SameDeep /\ Types'
  BY StepChain, StepTypes, Zenon
<1>2. ASSUME NEW t \in Threads, Call(t) PROVE DeepInv'
  <2>1. Called(t)
    BY <1>2, CallIs, Zenon
  <2>2. trusted' \subseteq DOTs
    BY <1>1, Zenon DEF Types, CacheTypes
  <2>3. /\ \A e \in Entities : entityCache'[e] = "Valid" => EntityKnown(e)
        /\ \A d \in DOTs : dotHashCache'[d] = "Valid" => AllKnown(d)
        /\ \A d \in trusted' : AllKnown(d)
        /\ DeepThread(th'[t])
    BY <2>1, <2>2, CallDeep, ZenonT(30)
  <2>4. UNCHANGED <<chain, final>>
    BY <2>1, Zenon DEF Called, chainVars
  <2>5. ASSUME NEW u \in Threads PROVE DeepThread(th[u])'
    <3>1. DeepThread(th'[u])
      BY <2>1, <2>3, ZenonT(30) DEF Called, Moved, DeepInv
    <3> QED
      BY <2>4, <3>1, Zenon DEF DeepThread, HasDOT, HasGiver, HasReceiver, HasEntity, EntityIn, DOTKnown, EntityKnown
  <2> QED
    BY <2>3, <2>4, <2>5, ZenonT(30) DEF DeepInv, AllKnown, DOTKnown, EntityKnown
<1>3. CASE ~\E t \in Threads : Call(t)
  <2>1. NothingNew /\ UNCHANGED <<th, trusted>>
    BY <1>3, Flushes, ZenonT(30) DEF Next
  <2>2. ASSUME NEW u \in Threads PROVE DeepThread(th[u])'
    BY <1>1, <2>1, DeepOn, ZenonT(30) DEF Types, DeepInv
  <2>3. ASSUME NEW d \in DOTs, AllKnown(d) PROVE AllKnown(d)'
    BY <1>1, <2>3, DeepKept, RegistryAssumption, ZenonT(30) DEF AllKnown, DOTKnown, EntityKnown
  <2>4. ASSUME NEW e \in Entities, entityCache'[e] = "Valid" PROVE EntityKnown(e)'
    BY <1>1, <2>1, <2>4, DeepKept, ZenonT(30) DEF NothingNew, DeepInv, EntityKnown
  <2>5. ASSUME NEW d \in DOTs, dotHashCache'[d] = "Valid" PROVE AllKnown(d)'
    BY <2>1, <2>3, <2>5, ZenonT(30) DEF NothingNew, DeepInv
  <2>6. ASSUME NEW d \in trusted' PROVE AllKnown(d)'
    <3>1. d \in DOTs /\ AllKnown(d)
      BY <2>1, <2>6, ZenonT(30) DEF DeepInv, Types, CacheTypes
    <3> QED
      BY <2>3, <3>1, ZenonT(30)
  <2> QED
    BY <2>2, <2>4, <2>5, <2>6, ZenonT(30) DEF DeepInv
<1> QED
  BY <1>2, <1>3, Zenon

LEMMA InitQuiet ==
  ASSUME Init
  PROVE  /\ \A e \in Entities : entityCache[e] # "Valid"
         /\ \A d \in DOTs : dotHashCache[d] # "Valid"
         /\ trusted = {} /\ \A t \in Threads : Quiet(th[t])
<1>1. None # "Valid"
  BY ResolutionAssumption, Zenon DEF Validity
<1>2. \A t \in Threads : th[t].pc = "idle"
  BY Zenon DEF Init, Idle
<1> QED
  BY <1>1, <1>2, ZenonT(30) DEF Init, Quiet

LEMMA InitDeep == Init => DeepInv
BY InitQuiet, Zenon DEF DeepInv, DeepThread, HasDOT, HasGiver, HasReceiver, HasEntity, Quiet

LEMMA DeepAlways == Spec => []DeepInv
<1>1. (ChainInv /\ Types) /\ DeepInv /\ [Next]_vars => DeepInv'
  BY StepDeep, Zenon
<1> QED
  BY <1>1, InitDeep, TypesAlways, PTL DEF Spec

\* A DOT that ResolveDOT has returned as valid is registered, with its two
\* entities, and no fork takes that back: whatever threads, flushes and stale
\* entries of the caches it came through, it was read Lag blocks behind.
THEOREM TrustIsDeep == Spec => []ValidIsDeep
<1>1. ChainInv /\ Types /\ DeepInv => ValidIsDeep
  <2> SUFFICES ASSUME ChainInv, Types, DeepInv, NEW d \in trusted
               PROVE  "Unknown" \notin {HeadState.dot[d], HeadState.entity[giver[d]], HeadState.entity[receiver[d]]}
    BY Zenon DEF ValidIsDeep
  <2>1. d \in DOTs /\ giver[d] \in Entities /\ receiver[d] \in Entities /\ AllKnown(d)
    BY RegistryAssumption, Zenon DEF DeepInv, Types, CacheTypes
  <2>2. /\ CurrentBlock \in Nat /\ CurrentBlock = Len(chain) /\ HeadState = After(chain, CurrentBlock)
        /\ final \in Nat /\ final >= 1 /\ final <= CurrentBlock
    BY ChainFacts, Zenon
  <2>3. final \in 0 .. Len(chain) /\ CurrentBlock \in final .. Len(chain) /\ ChainOf(chain)
    BY <2>2 DEF ChainInv
  <2>4. Grows(chain[final].reg, HeadState)
    <3>1. Step(After(chain, final), After(chain, CurrentBlock))
      BY <2>3, ChainGrows, ZenonT(30)
    <3> QED
      BY <2>2, <3>1 DEF Step, After
  <2> QED
    BY <2>1, <2>4, ZenonT(30) DEF AllKnown, DOTKnown, EntityKnown, Grows, Ages
<1> QED
  BY <1>1, TypesAlways, DeepAlways, PTL

-----------------------------------------------------------------------------
(* The indexes *)

\* The caches keep their domains.
Domains ==
  /\ DOMAIN dotHashCache = DOTs
  /\ DOMAIN dotFromInvCache = Entities /\ DOMAIN dotToInvCache = Entities

\* A DOT is in both indexes or in none, as cacheDOT assumes when it looks into
\* one only, up to a flush of the receiver.
IndexedTogether ==
  \A d \in DOTs : d \in dotFromInvCache[giver[d]] =>
    d \in dotToInvCache[receiver[d]] \/ receiver[d] \in flushed

IndexInv == Domains /\ IndexedTogether /\ CachedIsIndexed

indexVars == <<dotHashCache, dotFromInvCache, dotToInvCache, flushed>>

LEMMA InitIndex == Init => IndexInv
BY RegistryAssumption, ZenonT(30) DEF Init, IndexInv, Domains, IndexedTogether, CachedIsIndexed

\* Steps that touch none of the variables of the invariant.
LEMMA OtherSteps == IndexInv /\ UNCHANGED indexVars => IndexInv'
BY Zenon DEF IndexInv, Domains, IndexedTogether, CachedIsIndexed, indexVars

LEMMA CacheDOTIndex ==
  ASSUME NEW t, IndexInv, CacheDOT(t)
  PROVE  IndexInv'
BY RegistryAssumption, Zenon DEF IndexInv, Domains, IndexedTogether, CachedIsIndexed, CacheDOT

LEMMA FlushDOTIndex ==
  ASSUME NEW d, IndexInv, FlushDOT(d)
  PROVE  IndexInv'
BY RegistryAssumption, Zenon DEF IndexInv, Domains, IndexedTogether, CachedIsIndexed, FlushDOT, FlushDOTs

LEMMA FlushNewDOTIndex ==
  ASSUME NEW d, IndexInv, FlushNewDOT(d)
  PROVE  IndexInv'
BY RegistryAssumption, Zenon DEF IndexInv, Domains, IndexedTogether, CachedIsIndexed, FlushNewDOT, FlushDOTs

LEMMA FlushEntityIndex ==
  ASSUME NEW e, IndexInv, FlushEntity(e)
  PROVE  IndexInv'
BY RegistryAssumption, Zenon DEF IndexInv, Domains, IndexedTogether, CachedIsIndexed, FlushEntity, FlushDOTs

LEMMA DropIndex ==
  ASSUME IndexInv, DropAllCaches
  PROVE  IndexInv'
BY RegistryAssumption, Zenon DEF IndexInv, Domains, IndexedTogether, CachedIsIndexed, DropAllCaches, ClearCaches

LEMMA HandleLogIndex ==
  ASSUME IndexInv, HandleLog
  PROVE  IndexInv'
<1>1. CASE FlushNewDOT(todo[1][2])
  BY <1>1, FlushNewDOTIndex, Zenon
<1>2. CASE FlushDOT(todo[1][2])
  BY <1>2, FlushDOTIndex, ZenonT(30)
<1>3. CASE FlushEntity(todo[1][2])
  BY <1>3, FlushEntityIndex, Zenon
<1> QED
  BY <1>1, <1>2, <1>3, ZenonT(30) DEF HandleLog

LEMMA ChainIndex ==
  ASSUME IndexInv, ChainStep
  PROVE  IndexInv'
<1>1. UNCHANGED indexVars
  BY Zenon DEF ChainStep, Send, Mine, Fork, Tick, caches, indexVars
<1> QED
  BY <1>1, OtherSteps, Zenon

LEMMA CallIndex ==
  ASSUME NEW t, IndexInv, Call(t)
  PROVE  IndexInv'
<1>1. CASE CacheDOT(t)
  BY <1>1, CacheDOTIndex, ZenonT(30)
<1>2. CASE Begin(t) \/ ResolveGranted(t) \/ CacheGranted(t) \/ LookDOT(t) \/ ReadDOT(t)
  <2>1. UNCHANGED indexVars
    BY <1>2, ZenonT(30) DEF Begin, ResolveGranted, CacheGranted, LookDOT, ReadDOT, caches, indexVars
  <2> QED
    BY <2>1, OtherSteps, ZenonT(30)
<1>3. CASE LookEntity(t) \/ ReadEntity(t) \/ CacheEntity(t) \/ CacheBuiltChains(t)
  <2>1. UNCHANGED indexVars
    BY <1>3, Zenon DEF LookEntity, ReadEntity, CacheEntity, CacheBuiltChains, caches, indexVars
  <2> QED
    BY <2>1, OtherSteps, Zenon
<1> QED
  BY <1>1, <1>2, <1>3, ZenonT(30) DEF Call

LEMMA FlushExpiredIndex ==
  ASSUME NEW x, IndexInv, FlushExpired(x)
  PROVE  IndexInv'
<1>1. CASE FlushEntity(x)
  BY <1>1, FlushEntityIndex, Zenon
<1>2. CASE FlushDOT(x)
  BY <1>2, FlushDOTIndex, Zenon
<1> QED
  BY <1>1, <1>2, ZenonT(30) DEF FlushExpired

\* Each step of the resolution cache preserves the invariant of its indexes.
LEMMA NextIndex == IndexInv /\ [Next]_vars => IndexInv'
<1> SUFFICES ASSUME IndexInv, [Next]_vars
             PROVE  IndexInv'
  OBVIOUS
<1>1. CASE ChainStep
  BY <1>1, ChainIndex, ZenonT(30)
<1>2. CASE CheckChainChange
  <2>1. UNCHANGED indexVars
    BY <1>2, ZenonT(30) DEF CheckChainChange, caches, indexVars
  <2> QED
    BY <2>1, OtherSteps, ZenonT(30)
<1>3. CASE HandleLog
  BY <1>3, HandleLogIndex, Zenon
<1>4. CASE DropAllCaches
  BY <1>4, DropIndex, Zenon
<1>5. CASE Finished \/ UNCHANGED vars
  <2>1. UNCHANGED indexVars
    BY <1>5, Zenon DEF Finished, vars, caches, indexVars
  <2> QED
    BY <2>1, OtherSteps, Zenon
<1>6. CASE \E t \in Threads : Call(t)
  BY <1>6, CallIndex, ZenonT(30)
<1>7. CASE \E x \in Expiring : FlushExpired(x)
  BY <1>7, FlushExpiredIndex, ZenonT(30)
<1> QED
  BY <1>1, <1>2, <1>3, <1>4, <1>5, <1>6, <1>7, ZenonT(30) DEF Next

LEMMA IndexAlways == Spec => []IndexInv
BY InitIndex, NextIndex, PTL DEF Spec

\* FlushEntity finds every cached DOT an entity granted, and every cached DOT
\* granted to it until the first flush of that entity, for any number of
\* threads that cache DOTs while others are flushed.
THEOREM IndexesComplete == Spec => []CachedIsIndexed
<1>1. IndexInv => CachedIsIndexed
  BY Zenon DEF IndexInv
<1> QED
  BY <1>1, IndexAlways, PTL

\* What checkChainChange does for an event about an entity: no DOT that this
\* entity granted stays cached, so "any change in the entity state would have
\* flushed the DOT from the cache" is true of the giver.
GiverFlushed ==
  HandleLog /\ todo[1][1] \in {"AddEntity", "RevokeEntity"} =>
    \A d \in DOTs : giver[d] = todo[1][2] => dotHashCache'[d] = None

\* Every step of the cache that handles an event of an entity flushes the DOTs
\* the entity granted, whichever threads cached them and when.
THEOREM GiverAlwaysFlushed == Spec => [][GiverFlushed]_vars
<1>1. ASSUME IndexInv, HandleLog, todo[1][1] \in {"AddEntity", "RevokeEntity"}
      PROVE  \A d \in DOTs : giver[d] = todo[1][2] => dotHashCache'[d] = None
  <2>1. FlushEntity(todo[1][2])
    BY <1>1, ZenonT(30) DEF HandleLog
  <2>2. CachedIsIndexed
    BY <1>1, Zenon DEF IndexInv
  <2> QED
    BY <2>1, <2>2, RegistryAssumption, ZenonT(30) DEF FlushEntity, FlushDOTs, CachedIsIndexed
<1>2. IndexInv => [GiverFlushed]_vars
  BY <1>1, Zenon DEF GiverFlushed
<1> QED
  BY <1>2, IndexAlways, PTL

-----------------------------------------------------------------------------
(* What is stale is flushed *)

LEMMA Younger ==
  ASSUME ChainInv, NEW n \in Int, NEW m \in Int, m <= n \/ n = CurrentBlock
  PROVE  /\ \A e : EntityAlive(e, n) => EntityAlive(e, m)
         /\ \A d : DOTAlive(d, n) => DOTAlive(d, m)
<1>1. CurrentBlock = Len(chain) /\ Len(chain) \in Nat
  BY ChainFacts, ZenonT(30)
<1>2. \A i \in 1 .. Len(chain) : i <= m => i <= n
  BY <1>1
<1> QED
  BY <1>2, Zenon DEF EntityAlive, DOTAlive, EntityLives, DOTLives

\* A fork does not reach what is final.
LEMMA AliveOn ==
  ASSUME ChainInv, ChainInv', SameDeep, NEW n \in Int, n <= final
  PROVE  /\ \A e : EntityLives(chain, e, n) => EntityLives(chain', e, n)
         /\ \A d : DOTLives(chain, d, n) => DOTLives(chain', d, n)
<1>1. final \in Nat /\ final <= Len(chain) /\ Len(chain) \in Nat /\ Len(chain') \in Nat
  BY ChainFacts DEF ChainInv, ChainOf
<1>2. ASSUME NEW i \in 1 .. Len(chain'), i <= n PROVE i \in 1 .. Len(chain) /\ chain'[i] = chain[i]
  <2>1. i \in Nat /\ 1 <= i /\ i <= final
    BY <1>1, <1>2
  <2>2. i \in 1 .. final
    BY <1>1, <2>1
  <2> QED
    BY <1>1, <2>1, <2>2 DEF SameDeep
<1> QED
  BY <1>2, ZenonT(30) DEF EntityLives, DOTLives

\* What was not revoked before the next replay and is revoked now has its event
\* in a block of that replay.
LEMMA Told ==
  ASSUME ChainInv, lastblock \in Nat, NEW n \in Int, n >= Past
  PROVE  /\ \A e \in Entities : EntityAlive(e, n) =>
              \/ EntityAlive(e, CurrentBlock)
              \/ \E i \in FirstReplayed .. CurrentBlock : <<"RevokeEntity", e>> \in Range(chain[i].logs)
         /\ \A d \in DOTs : DOTAlive(d, n) =>
              \/ DOTAlive(d, CurrentBlock)
              \/ \E i \in FirstReplayed .. CurrentBlock : <<"RevokeDOT", d>> \in Range(chain[i].logs)
<1>1. /\ CurrentBlock \in Nat /\ CurrentBlock >= 1 /\ CurrentBlock = Len(chain)
      /\ \A i \in 1 .. CurrentBlock : chain[i].reg = After(chain, i)
  BY ChainFacts, Zenon
<1>2. ChainOf(chain)
  BY Zenon DEF ChainInv
<1>3. CASE n >= CurrentBlock
  <2>1. CurrentBlock \in Int /\ CurrentBlock <= n
    BY <1>1, <1>3
  <2> QED
    BY <2>1, Younger, ZenonT(30)
<1>4. CASE n < CurrentBlock
  <2> DEFINE m == IF n < 0 THEN 0 ELSE n
  <2>1. m \in Nat /\ m < CurrentBlock /\ m >= n /\ m \in 0 .. Len(chain) /\ CurrentBlock \in m .. Len(chain)
    BY <1>1, <1>4
  <2>2. \A k \in m + 1 .. CurrentBlock : k \in FirstReplayed .. CurrentBlock
    <3>1. FirstReplayed \in Nat /\ FirstReplayed <= m + 1
      <4>1. m + 1 >= lastblock - Replay
        BY <2>1, Bounds DEF Past
      <4> QED
        BY <2>1, <4>1, Bounds DEF FirstReplayed
    <3> HIDE DEF m
    <3> QED
      BY <1>1, <2>1, <3>1
  <2>3. Tells(chain, m, CurrentBlock) /\ Step(After(chain, m), After(chain, CurrentBlock))
    <3> HIDE DEF m
    <3> QED
      BY <1>2, <2>1, ChainTells, ChainGrows, ZenonT(30)
  <2>4. m # 0 => m \in 1 .. CurrentBlock /\ m <= n /\ After(chain, m) = chain[m].reg
    BY <1>1, <2>1
  <2>5. m = 0 => After(chain, m) = Empty
    BY Zenon DEF After
  <2> HIDE DEF m
  <2>6. \A i \in 1 .. CurrentBlock : Grows(chain[i].reg, After(chain, CurrentBlock))
    <3> SUFFICES ASSUME NEW i \in 1 .. CurrentBlock PROVE Grows(After(chain, i), After(chain, CurrentBlock))
      BY <1>1, ZenonT(30)
    <3>1. i \in 0 .. Len(chain) /\ CurrentBlock \in i .. Len(chain)
      BY <1>1
    <3> QED
      BY <1>2, <3>1, ChainGrows, ZenonT(30) DEF Step
  <2>7. ASSUME NEW e \in Entities, EntityAlive(e, n)
        PROVE  \/ EntityAlive(e, CurrentBlock)
               \/ \E i \in FirstReplayed .. CurrentBlock : <<"RevokeEntity", e>> \in Range(chain[i].logs)
    <3>1. After(chain, m).entity[e] # "Revoked"
      <4>1. CASE m = 0
        BY <2>5, <4>1 DEF Empty
      <4>2. CASE m # 0
        BY <1>1, <2>4, <2>7, <4>2, ZenonT(30) DEF EntityAlive, EntityLives
      <4> QED
        BY <4>1, <4>2, ZenonT(30)
    <3>2. CASE After(chain, CurrentBlock).entity[e] = "Revoked"
      BY <2>2, <2>3, <3>1, <3>2, ZenonT(30) DEF Tells
    <3>3. CASE After(chain, CurrentBlock).entity[e] # "Revoked"
      <4>1. \A i \in 1 .. CurrentBlock : chain[i].reg.entity[e] # "Revoked"
        BY <2>6, <3>3, ZenonT(30) DEF Grows, Ages
      <4> QED
        BY <1>1, <4>1, ZenonT(30) DEF EntityAlive, EntityLives
    <3> QED
      BY <3>2, <3>3, ZenonT(30)
  <2>8. ASSUME NEW d \in DOTs, DOTAlive(d, n)
        PROVE  \/ DOTAlive(d, CurrentBlock)
               \/ \E i \in FirstReplayed .. CurrentBlock : <<"RevokeDOT", d>> \in Range(chain[i].logs)
    <3>1. After(chain, m).dot[d] # "Revoked"
      <4>1. CASE m = 0
        BY <2>5, <4>1 DEF Empty
      <4>2. CASE m # 0
        BY <1>1, <2>4, <2>8, <4>2, ZenonT(30) DEF DOTAlive, DOTLives
      <4> QED
        BY <4>1, <4>2, ZenonT(30)
    <3>2. CASE After(chain, CurrentBlock).dot[d] = "Revoked"
      BY <2>2, <2>3, <3>1, <3>2, ZenonT(30) DEF Tells
    <3>3. CASE After(chain, CurrentBlock).dot[d] # "Revoked"
      <4>1. \A i \in 1 .. CurrentBlock : chain[i].reg.dot[d] # "Revoked"
        BY <2>6, <3>3, ZenonT(30) DEF Grows, Ages
      <4> QED
        BY <1>1, <4>1, ZenonT(30) DEF DOTAlive, DOTLives
    <3> QED
      BY <3>2, <3>3, ZenonT(30)
  <2> QED
    BY <2>7, <2>8, ZenonT(30)
<1> QED
  BY <1>1, <1>3, <1>4

\* The blocks the invariant speaks of.
LEMMA InvBlocks ==
  ASSUME ChainInv, Types, Timing
  PROVE  /\ Age \in Nat /\ Age >= Lag /\ lastblock \in Nat /\ Past \in Int
         /\ lastblock - Late - Lag \in Int /\ lastblock - Late - Lag <= final
         /\ lastblock - Late - Lag - Delay \in Int /\ lastblock - Late - Lag - Delay <= final
         /\ Past <= lastblock - Late - Lag /\ Past <= final
<1>1. lastblock \in Nat /\ final \in Nat /\ lastblock <= final + Lag
  BY ChainFacts, ZenonT(30) DEF Types, CacheTypes, Timing
<1>2. Age \in Nat /\ Age >= Lag
  BY Bounds DEF Age
<1>3. Past \in Int /\ Past <= lastblock - Late - Lag
  BY <1>1, Bounds DEF Past
<1>4. lastblock - Late - Lag \in Int /\ lastblock - Late - Lag <= final
  BY <1>1, Bounds
<1>5. lastblock - Late - Lag - Delay \in Int /\ lastblock - Late - Lag - Delay <= final
  BY <1>1, Bounds
<1>6. Past <= final
  BY <1>1, <1>3, <1>4, Bounds
<1> QED
  BY <1>1, <1>2, <1>3, <1>4, <1>5, <1>6, ZenonT(30)

LEMMA ThreadBlocks ==
  ASSUME ChainInv, Types, Timing, NEW t \in Threads, th[t].pc # "idle"
  PROVE  /\ th[t].since \in Nat /\ th[t].since - Lag \in Int /\ th[t].since - Lag <= final
         /\ th[t].since - Age \in Int /\ th[t].since - Age <= final /\ th[t].since - Age <= th[t].since - Lag
         /\ th[t].since - Age <= lastblock - Late - Lag - Delay
         /\ lastblock - Late - Lag <= th[t].since - Lag
         /\ lastblock - Late - Lag - Delay <= th[t].since - Lag
         /\ Past <= th[t].since - Lag /\ Past <= th[t].since - Age
<1>1. /\ th[t].since \in Nat /\ th[t].since <= final + Lag
      /\ lastblock <= th[t].since + Late /\ th[t].since <= lastblock + Behind
  BY ThreadIs, Zenon DEF Types, Timing, ThreadTiming
<1>2. Age \in Nat /\ Age >= Lag /\ lastblock \in Nat /\ final \in Nat /\ Age = Behind + Late + Lag + Delay
  BY InvBlocks, ChainFacts, Zenon DEF Age
<1> DEFINE n == th[t].since
<1>3. n - Lag \in Int /\ n - Lag <= final /\ n - Age \in Int /\ n - Age <= n - Lag
  BY <1>1, <1>2, Bounds
<1>4. n - Age <= final
  BY <1>1, <1>2, <1>3, Bounds
<1>5. n - Age <= lastblock - Late - Lag - Delay
  BY <1>1, <1>2, Bounds
<1>6. lastblock - Late - Lag <= n - Lag /\ lastblock - Late - Lag - Delay <= n - Lag
  BY <1>1, <1>2, Bounds
<1>7. Past <= n - Lag
  BY <1>1, <1>2, Bounds DEF Past
<1>8. Past <= n - Age
  BY <1>1, <1>2, Bounds DEF Past
<1> QED
  BY <1>1, <1>3, <1>4, <1>5, <1>6, <1>7, <1>8, ZenonT(30)

LEMMA ThreadAliveOn ==
  ASSUME ChainInv, ChainInv', SameDeep, Types, Timing, NEW u \in Threads, AliveThread(th[u]), th'[u] = th[u]
  PROVE  AliveThread(th[u])'
<1> DEFINE y == th[u]
           d == Head(y.list)
<1>1. CASE y.pc \notin Resolving
  BY <1>1, ZenonT(30) DEF AliveThread, HasDOT, HasGiver, HasReceiver, HasEntity, Resolving
<1>2. CASE y.pc \in Resolving
  <2>1. y.since - Lag \in Int /\ y.since - Lag <= final /\ y.since - Age \in Int /\ y.since - Age <= final
    BY <1>2, ThreadBlocks, ZenonT(30) DEF Resolving
  <2>2. HasDOT(y) => DOTLives(chain', d, y.since - Lag)
    BY <2>1, AliveOn, ZenonT(30) DEF AliveThread, DOTAlive
  <2>3. HasGiver(y) => EntityLives(chain', giver[d], y.since - Age)
    BY <2>1, AliveOn, ZenonT(30) DEF AliveThread, EntityAlive
  <2>4. HasReceiver(y) => EntityLives(chain', receiver[d], y.since - Age)
    BY <2>1, AliveOn, ZenonT(30) DEF AliveThread, EntityAlive
  <2>5. HasEntity(y) => EntityLives(chain', EntityIn(y), y.since - Lag)
    BY <2>1, AliveOn, ZenonT(30) DEF AliveThread, EntityAlive
  <2> QED
    BY <2>2, <2>3, <2>4, <2>5, ZenonT(30)
       DEF AliveThread, HasDOT, HasGiver, HasReceiver, HasEntity, EntityIn, DOTAlive, EntityAlive, Age
<1> QED
  BY <1>1, <1>2, ZenonT(30)

\* Steps after which the caches hold nothing new and the same events wait.
LEMMA NothingNewAlive ==
  ASSUME ChainInv, ChainInv', SameDeep, Types, Timing, AliveInv, NothingNew, UNCHANGED <<th, lastblock, todo>>
  PROVE  AliveInv'
<1>1. /\ lastblock - Late - Lag \in Int /\ lastblock - Late - Lag <= final
      /\ lastblock - Late - Lag - Delay \in Int /\ lastblock - Late - Lag - Delay <= final
      /\ Past \in Int /\ Past <= final
  BY InvBlocks, Zenon
<1>2. ASSUME NEW e \in Entities, entityCache'[e] = "Valid" PROVE FreshEntity(e)'
  <2>1. FreshEntity(e)
    BY <1>2, Zenon DEF AliveInv, NothingNew
  <2>2. EntityLives(chain', e, lastblock - Late - Lag) \/ ToHandle("RevokeEntity", e)
    BY <1>1, <2>1, AliveOn, ZenonT(30) DEF FreshEntity, EntityAlive
  <2>3. EntityLives(chain', e, lastblock - Late - Lag - Delay)
    BY <1>1, <2>1, AliveOn, ZenonT(30) DEF FreshEntity, EntityAlive
  <2> QED
    BY <2>2, <2>3, ZenonT(30) DEF FreshEntity, EntityAlive, ToHandle, Late
<1>3. ASSUME NEW d \in DOTs, dotHashCache'[d] = "Valid" PROVE FreshDOT(d)'
  <2>1. FreshDOT(d) /\ (d \in dotToInvCache'[receiver[d]] => d \in dotToInvCache[receiver[d]])
    BY <1>3, ZenonT(30) DEF AliveInv, NothingNew
  <2>2. DOTLives(chain', d, Past) \/ ToHandle("RevokeDOT", d)
    BY <1>1, <2>1, AliveOn, ZenonT(30) DEF FreshDOT, DOTAlive
  <2>3. EntityLives(chain', giver[d], Past) \/ ToHandle("RevokeEntity", giver[d])
    BY <1>1, <2>1, AliveOn, ZenonT(30) DEF FreshDOT, EntityAlive
  <2>4. d \in dotToInvCache'[receiver[d]] =>
          EntityLives(chain', receiver[d], Past) \/ ToHandle("RevokeEntity", receiver[d])
    BY <1>1, <2>1, AliveOn, ZenonT(30) DEF FreshDOT, EntityAlive
  <2> QED
    BY <2>2, <2>3, <2>4, ZenonT(30) DEF FreshDOT, EntityAlive, DOTAlive, ToHandle, Past
<1>4. ASSUME NEW u \in Threads PROVE AliveThread(th[u])'
  BY ThreadAliveOn, Zenon DEF AliveInv
<1> QED
  BY <1>2, <1>3, <1>4, ZenonT(30) DEF AliveInv

\* What checkChainChange replays covers what is stale by then.
LEMMA CheckAlive ==
  ASSUME ChainInv, Types, Timing, AliveInv, CheckChainChange
  PROVE  AliveInv'
<1>1. /\ CurrentBlock \in Nat /\ lastblock \in Nat /\ CurrentBlock <= lastblock + Delay
      /\ Past \in Int /\ lastblock - Late - Lag \in Int /\ Past <= lastblock - Late - Lag
  BY ChainFacts, InvBlocks, ZenonT(30) DEF Timing
<1>2. /\ todo = <<>> /\ lastblock' = CurrentBlock
      /\ \A i \in FirstReplayed .. CurrentBlock : Range(chain[i].logs) \subseteq Range(todo')
  BY CheckIs, Zenon DEF Types
<1>3. UNCHANGED <<chain, th, entityCache, dotHashCache, dotToInvCache, final>>
  BY Zenon DEF CheckChainChange, chainVars, caches
<1>4. \A k, x : ~ToHandle(k, x)
  <2>1. Range(todo) = {}
    BY <1>2 DEF Range
  <2> QED
    BY <2>1, Zenon DEF ToHandle
<1>5. CurrentBlock - Late - Lag \in Int /\ CurrentBlock - Late - Lag - Delay \in Int
      /\ CurrentBlock - Late - Lag - Delay <= lastblock - Late - Lag /\ CurrentBlock - Replay - 1 \in Int
  BY <1>1, Bounds
<1>6. ASSUME NEW e \in Entities, NEW n \in Int, NEW m \in Int, n >= Past, EntityAlive(e, n)
      PROVE  EntityAlive(e, m) \/ <<"RevokeEntity", e>> \in Range(todo')
  <2>1. \/ EntityAlive(e, CurrentBlock)
        \/ \E i \in FirstReplayed .. CurrentBlock : <<"RevokeEntity", e>> \in Range(chain[i].logs)
    BY <1>1, <1>6, Told, ZenonT(30)
  <2>2. CASE EntityAlive(e, CurrentBlock)
    BY <1>1, <2>2, Younger
  <2>3. CASE \E i \in FirstReplayed .. CurrentBlock : <<"RevokeEntity", e>> \in Range(chain[i].logs)
    BY <1>2, <2>3, Zenon
  <2> QED
    BY <2>1, <2>2, <2>3, ZenonT(30)
<1>7. ASSUME NEW d \in DOTs, NEW n \in Int, NEW m \in Int, n >= Past, DOTAlive(d, n)
      PROVE  DOTAlive(d, m) \/ <<"RevokeDOT", d>> \in Range(todo')
  <2>1. \/ DOTAlive(d, CurrentBlock)
        \/ \E i \in FirstReplayed .. CurrentBlock : <<"RevokeDOT", d>> \in Range(chain[i].logs)
    BY <1>1, <1>7, Told, ZenonT(30)
  <2>2. CASE DOTAlive(d, CurrentBlock)
    BY <1>1, <2>2, Younger
  <2>3. CASE \E i \in FirstReplayed .. CurrentBlock : <<"RevokeDOT", d>> \in Range(chain[i].logs)
    BY <1>2, <2>3, Zenon
  <2> QED
    BY <2>1, <2>2, <2>3, Zenon
<1>8. ASSUME NEW e \in Entities, entityCache'[e] = "Valid" PROVE FreshEntity(e)'
  <2>1. EntityAlive(e, lastblock - Late - Lag)
    BY <1>3, <1>4, <1>8, ZenonT(30) DEF AliveInv, FreshEntity
  <2>2. EntityAlive(e, CurrentBlock - Late - Lag) \/ <<"RevokeEntity", e>> \in Range(todo')
    BY <1>1, <1>5, <1>6, <2>1, ZenonT(30)
  <2>3. EntityAlive(e, CurrentBlock - Late - Lag - Delay)
    BY <1>1, <1>5, <2>1, Younger, ZenonT(30)
  <2> QED
    BY <1>2, <1>3, <2>2, <2>3, ZenonT(30) DEF FreshEntity, EntityAlive, ToHandle, Late
<1>9. ASSUME NEW d \in DOTs, dotHashCache'[d] = "Valid" PROVE FreshDOT(d)'
  <2>1. /\ DOTAlive(d, Past) /\ EntityAlive(giver[d], Past)
        /\ d \in dotToInvCache'[receiver[d]] => EntityAlive(receiver[d], Past)
    BY <1>3, <1>4, <1>9, ZenonT(30) DEF AliveInv, FreshDOT
  <2>2. giver[d] \in Entities /\ receiver[d] \in Entities /\ Past >= Past
    BY <1>1, RegistryAssumption
  <2>3. DOTAlive(d, CurrentBlock - Replay - 1) \/ <<"RevokeDOT", d>> \in Range(todo')
    BY <1>1, <1>5, <1>7, <2>1, <2>2, ZenonT(30)
  <2>4. EntityAlive(giver[d], CurrentBlock - Replay - 1) \/ <<"RevokeEntity", giver[d]>> \in Range(todo')
    BY <1>1, <1>5, <1>6, <2>1, <2>2, ZenonT(30)
  <2>5. d \in dotToInvCache'[receiver[d]] =>
          EntityAlive(receiver[d], CurrentBlock - Replay - 1) \/ <<"RevokeEntity", receiver[d]>> \in Range(todo')
    BY <1>1, <1>5, <1>6, <2>1, <2>2, ZenonT(30)
  <2> QED
    BY <1>2, <1>3, <2>3, <2>4, <2>5, ZenonT(30) DEF FreshDOT, EntityAlive, DOTAlive, ToHandle, Past
<1>10. ASSUME NEW u \in Threads PROVE AliveThread(th[u])'
  <2>1. AliveThread(th[u])
    BY Zenon DEF AliveInv
  <2> QED
    BY <1>3, <2>1, ZenonT(30) DEF AliveThread, HasDOT, HasGiver, HasReceiver, HasEntity, EntityIn, DOTAlive, EntityAlive, Age
<1> QED
  BY <1>8, <1>9, <1>10, ZenonT(30) DEF AliveInv

\* The flush for an event finds what the event makes stale.
LEMMA HandleLogAlive ==
  ASSUME ChainInv, Types, IndexInv, AliveInv, HandleLog
  PROVE  AliveInv'
<1>1. UNCHANGED <<chain, th, lastblock>> /\ NothingNew
  BY Flushes, Zenon DEF HandleLog, chainVars
<1>2. /\ \A x \in Range(todo) : x = todo[1] \/ x \in Range(todo')
      /\ \/ \E d \in DOTs : todo[1] = <<"AddDOT", d>> /\ FlushNewDOT(d)
         \/ \E d \in DOTs : todo[1] = <<"RevokeDOT", d>> /\ FlushDOT(d)
         \/ \E e \in Entities : todo[1] \in {<<"AddEntity", e>>, <<"RevokeEntity", e>>} /\ FlushEntity(e)
  BY HandleLogIs, Zenon DEF Types
<1>3. None # "Valid" /\ entityCache \in [Entities -> Result \cup {None}]
  BY ResolutionAssumption, Zenon DEF Types, CacheTypes, Validity
<1>4. ASSUME NEW e \in Entities, todo[1] = <<"RevokeEntity", e>> PROVE FlushEntity(e)
  BY <1>2, <1>4
<1>5. ASSUME NEW d \in DOTs, todo[1] = <<"RevokeDOT", d>> PROVE FlushDOT(d)
  BY <1>2, <1>5
<1>6. ASSUME NEW e \in Entities, entityCache'[e] = "Valid" PROVE FreshEntity(e)'
  <2>1. FreshEntity(e)
    BY <1>1, <1>6, ZenonT(30) DEF AliveInv, NothingNew
  <2>2. todo[1] # <<"RevokeEntity", e>>
    <3> SUFFICES ASSUME todo[1] = <<"RevokeEntity", e>> PROVE FALSE
      OBVIOUS
    <3>1. entityCache' = [entityCache EXCEPT ![e] = None]
      BY <1>4, Zenon DEF FlushEntity
    <3> QED
      BY <1>3, <1>6, <3>1, ZenonT(30)
  <2>3. ToHandle("RevokeEntity", e) => <<"RevokeEntity", e>> \in Range(todo')
    BY <1>2, <2>2, ZenonT(30) DEF ToHandle
  <2> QED
    BY <1>1, <2>1, <2>3, ZenonT(30) DEF FreshEntity, EntityAlive, ToHandle, Late
<1>7. ASSUME NEW d \in DOTs, dotHashCache'[d] = "Valid" PROVE FreshDOT(d)'
  <2>1. /\ FreshDOT(d) /\ dotHashCache[d] = "Valid"
        /\ d \in dotToInvCache'[receiver[d]] => d \in dotToInvCache[receiver[d]]
    BY <1>1, <1>7, ZenonT(30) DEF AliveInv, NothingNew
  <2>2. giver[d] \in Entities /\ receiver[d] \in Entities
    BY RegistryAssumption, Zenon
  <2>3. todo[1] # <<"RevokeDOT", d>>
    BY <1>3, <1>5, <1>7, ZenonT(30) DEF FlushDOT, FlushDOTs
  <2>4. todo[1] # <<"RevokeEntity", giver[d]>>
    <3> SUFFICES ASSUME todo[1] = <<"RevokeEntity", giver[d]>> PROVE FALSE
      OBVIOUS
    <3>1. FlushEntity(giver[d])
      BY <1>4, <2>2, ZenonT(30)
    <3>2. d \in dotFromInvCache[giver[d]]
      BY <1>3, <2>1, ZenonT(30) DEF IndexInv, CachedIsIndexed
    <3> QED
      BY <1>3, <1>7, <3>1, <3>2, ZenonT(30) DEF FlushEntity, FlushDOTs
  <2>5. d \in dotToInvCache'[receiver[d]] => todo[1] # <<"RevokeEntity", receiver[d]>>
    <3> SUFFICES ASSUME d \in dotToInvCache'[receiver[d]], todo[1] = <<"RevokeEntity", receiver[d]>> PROVE FALSE
      OBVIOUS
    <3>1. FlushEntity(receiver[d]) /\ d \in dotToInvCache[receiver[d]]
      BY <1>4, <2>1, <2>2, ZenonT(30)
    <3> QED
      BY <1>3, <1>7, <3>1, ZenonT(30) DEF FlushEntity, FlushDOTs
  <2>6. DOTAlive(d, Past) \/ <<"RevokeDOT", d>> \in Range(todo')
    BY <1>2, <2>1, <2>3, ZenonT(30) DEF FreshDOT, ToHandle
  <2>7. EntityAlive(giver[d], Past) \/ <<"RevokeEntity", giver[d]>> \in Range(todo')
    BY <1>2, <2>1, <2>4, ZenonT(30) DEF FreshDOT, ToHandle
  <2>8. d \in dotToInvCache'[receiver[d]] =>
          EntityAlive(receiver[d], Past) \/ <<"RevokeEntity", receiver[d]>> \in Range(todo')
    BY <1>2, <2>1, <2>5, ZenonT(30) DEF FreshDOT, ToHandle
  <2> QED
    BY <1>1, <2>6, <2>7, <2>8, ZenonT(30) DEF FreshDOT, EntityAlive, DOTAlive, ToHandle, Past
<1>8. ASSUME NEW u \in Threads PROVE AliveThread(th[u])'
  <2>1. AliveThread(th[u])
    BY Zenon DEF AliveInv
  <2> QED
    BY <1>1, <2>1, ZenonT(30) DEF AliveThread, HasDOT, HasGiver, HasReceiver, HasEntity, EntityIn, DOTAlive, EntityAlive, Age
<1> QED
  BY <1>6, <1>7, <1>8, ZenonT(30) DEF AliveInv

LEMMA QuietAlive ==
  ASSUME NEW x, Quiet(x)
  PROVE  AliveThread(x)
BY Zenon DEF Quiet, AliveThread, HasDOT, HasGiver, HasReceiver, HasEntity

LEMMA PassedAlive ==
  ASSUME NEW y, ThreadTypes(y), y.pc \in {"entity", "cacheEntity"}, AliveThread(y),
         EntityAlive(EntityIn(y), y.since - Age), NEW x, Passed(y, x)
  PROVE  AliveThread(x)
<1>1. y \in [ops : Seq(Calls), pc : Pcs, kind : {"dot", "chain", "build", "cached", None}, list : Seq(DOTs),
             got : SUBSET DOTs, side : {"giver", "receiver", None}, read : Result \cup {None}, since : Nat]
  BY Zenon DEF ThreadTypes
<1>2. /\ DOTAlive(Head(y.list), y.since - Lag)
      /\ y.side # "giver" => EntityAlive(giver[Head(y.list)], y.since - Age)
  BY Zenon DEF AliveThread, HasDOT, HasGiver
<1>3. CASE y.side = "giver" /\ x = [y EXCEPT !.pc = "entity", !.side = "receiver"]
  <2>1. x.pc = "entity" /\ x.list = y.list /\ x.since = y.since
    BY <1>1, <1>3, ZenonT(30)
  <2>2. EntityAlive(giver[Head(y.list)], y.since - Age)
    BY <1>3, Zenon DEF EntityIn
  <2> QED
    BY <1>2, <2>1, <2>2, ZenonT(30) DEF AliveThread, HasReceiver, HasEntity
<1>4. ASSUME NEW r, y.side # "giver", x = [y EXCEPT !.pc = "cacheDOT", !.read = r] PROVE AliveThread(x)
  <2>1. x.pc = "cacheDOT" /\ x.list = y.list /\ x.since = y.since
    BY <1>1, <1>4, ZenonT(30)
  <2>2. EntityAlive(receiver[Head(y.list)], y.since - Age)
    BY <1>4, Zenon DEF EntityIn
  <2> QED
    BY <1>2, <1>4, <2>1, <2>2, ZenonT(30) DEF AliveThread, HasEntity
<1> QED
  BY <1>3, <1>4, ZenonT(30) DEF Passed

\* A DOT of which the same is known, but for its place in the index by receiver.
Unrevoked(d, indexed) ==
  /\ DOTAlive(d, Past) \/ ToHandle("RevokeDOT", d)
  /\ EntityAlive(giver[d], Past) \/ ToHandle("RevokeEntity", giver[d])
  /\ indexed => EntityAlive(receiver[d], Past) \/ ToHandle("RevokeEntity", receiver[d])

\* A step of a call, on the same chain and with the same events to handle.
LEMMA CallAlive ==
  ASSUME ChainInv, Types, Timing, AliveInv, NEW t \in Threads, Called(t)
  PROVE  /\ \A e \in Entities : entityCache'[e] = "Valid" => FreshEntity(e)
         /\ \A d \in DOTs : dotHashCache'[d] = "Valid" => Unrevoked(d, d \in dotToInvCache'[receiver[d]])
         /\ AliveThread(th'[t])
<1> DEFINE y == th[t]
           x == th'[t]
           d == Head(y.list)
           Goal == /\ \A e \in Entities : entityCache'[e] = "Valid" => FreshEntity(e)
                   /\ \A c \in DOTs : dotHashCache'[c] = "Valid" => Unrevoked(c, c \in dotToInvCache'[receiver[c]])
                   /\ AliveThread(x)
<1>1. ThreadTypes(y) /\ AliveThread(y)
  BY Zenon DEF Types, AliveInv
<1>2. /\ \A e \in Entities : entityCache[e] = "Valid" => FreshEntity(e)
      /\ \A c \in DOTs : dotHashCache[c] = "Valid" => Unrevoked(c, c \in dotToInvCache[receiver[c]])
  BY Zenon DEF AliveInv, FreshDOT, Unrevoked
<1>3. ASSUME NEW c \in DOTs, dotHashCache'[c] = dotHashCache[c],
             c \in dotToInvCache'[receiver[c]] => c \in dotToInvCache[receiver[c]]
      PROVE  dotHashCache'[c] = "Valid" => Unrevoked(c, c \in dotToInvCache'[receiver[c]])
  BY <1>2, <1>3, ZenonT(30) DEF Unrevoked
<1>4. ASSUME NothingNew PROVE \A c \in DOTs : dotHashCache'[c] = "Valid" => Unrevoked(c, c \in dotToInvCache'[receiver[c]])
  BY <1>2, <1>4, ZenonT(30) DEF NothingNew, Unrevoked
<1>5. ASSUME NothingNew, AliveThread(x) PROVE Goal
  BY <1>2, <1>4, <1>5, ZenonT(30) DEF NothingNew
<1>6. CASE Rests(t)
  BY <1>5, <1>6, QuietAlive, ZenonT(30) DEF Rests
<1>7. y.pc # "idle" => /\ y.since \in Nat /\ y.since - Lag \in Int /\ y.since - Age \in Int
                       /\ y.since - Age <= y.since - Lag /\ y.since - Age <= lastblock - Late - Lag - Delay
                       /\ lastblock - Late - Lag <= y.since - Lag /\ lastblock - Late - Lag - Delay <= y.since - Lag
                       /\ Past <= y.since - Lag /\ Past <= y.since - Age
  BY ThreadBlocks, Zenon
<1>8. /\ Past \in Int /\ lastblock - Late - Lag \in Int /\ lastblock - Late - Lag - Delay \in Int
      /\ CurrentBlock \in Int
  BY InvBlocks, ChainFacts
<1>9. CASE FindsDOT(t)
  <2>1. d \in DOTs /\ y.pc = "dot"
    BY <1>1, <1>9, ThreadIs, ZenonT(30) DEF FindsDOT, Resolving
  <2>2. DOTAlive(d, y.since - Lag)
    <3>1. DOTAlive(d, CurrentBlock)
      BY <1>9, <2>1, ValidIs, ZenonT(30) DEF FindsDOT
    <3> QED
      BY <1>7, <1>8, <2>1, <3>1, Younger, ZenonT(30)
  <2>3. x.pc = "entity" /\ x.side = "giver" /\ x.list = y.list /\ x.since = y.since
    BY <1>1, <1>9, ZenonT(30) DEF FindsDOT, ThreadTypes
  <2>4. AliveThread(x)
    BY <2>2, <2>3, ZenonT(30) DEF AliveThread, HasGiver, HasReceiver, HasEntity
  <2> QED
    BY <1>5, <1>9, <2>4, ZenonT(30) DEF FindsDOT
<1>10. CASE LooksForEntity(t)
  <2>1. x.pc = "readEntity" /\ x.side = y.side /\ x.list = y.list /\ y.pc = "entity" /\ x.since = y.since
    BY <1>1, <1>10, ZenonT(30) DEF LooksForEntity, ThreadTypes
  <2>2. AliveThread(x)
    BY <1>1, <2>1, ZenonT(30) DEF AliveThread, HasDOT, HasGiver, HasReceiver, HasEntity
  <2> QED
    BY <1>5, <1>10, <2>2, ZenonT(30) DEF LooksForEntity
<1>11. CASE FindsEntity(t)
  <2>1. PICK s \in Result : /\ x = [y EXCEPT !.pc = "cacheEntity", !.read = s]
                            /\ s = "Valid" => StateOf("entity", EntityIn(y)) = "Valid"
    BY <1>11, ZenonT(30) DEF FindsEntity
  <2>2. /\ x.pc = "cacheEntity" /\ x.side = y.side /\ x.list = y.list /\ y.pc = "readEntity" /\ x.read = s
        /\ x.since = y.since
    BY <1>1, <1>11, <2>1, ZenonT(30) DEF FindsEntity, ThreadTypes
  <2>3. EntityIn(y) \in Entities /\ EntityIn(x) = EntityIn(y)
    BY <1>1, <2>2, ThreadIs, ZenonT(30) DEF EntityIn, Resolving
  <2>4. s = "Valid" => EntityAlive(EntityIn(x), y.since - Lag)
    <3>1. s = "Valid" => EntityAlive(EntityIn(x), CurrentBlock)
      BY <2>1, <2>3, ValidIs, ZenonT(30)
    <3> QED
      BY <1>7, <1>8, <2>2, <3>1, Younger, ZenonT(30)
  <2>5. AliveThread(x)
    BY <1>1, <2>2, <2>4, ZenonT(30) DEF AliveThread, HasDOT, HasGiver, HasReceiver, HasEntity
  <2> QED
    BY <1>5, <1>11, <2>5, ZenonT(30) DEF FindsEntity
<1>12. CASE HasCached(t)
  <2>1. y.pc = "entity" /\ entityCache[EntityIn(y)] = "Valid" /\ Passed(y, x)
    BY <1>12, Zenon DEF HasCached
  <2>2. EntityIn(y) \in Entities
    BY <1>1, <2>1, ThreadIs, ZenonT(30) DEF Resolving
  <2>3. EntityAlive(EntityIn(y), lastblock - Late - Lag - Delay)
    BY <1>2, <2>1, <2>2, ZenonT(30) DEF FreshEntity
  <2>4. EntityAlive(EntityIn(y), y.since - Age)
    BY <1>7, <1>8, <2>1, <2>3, Younger, ZenonT(30)
  <2>5. AliveThread(x)
    BY <1>1, <2>1, <2>4, PassedAlive, ZenonT(30)
  <2> QED
    BY <1>5, <1>12, <2>5, ZenonT(30) DEF HasCached
<1>13. CASE WritesEntity(t)
  <2>1. /\ y.pc = "cacheEntity" /\ y.read = "Valid" /\ Passed(y, x)
        /\ entityCache' = [entityCache EXCEPT ![EntityIn(y)] = "Valid"]
        /\ UNCHANGED <<dotHashCache, dotToInvCache, trusted>>
    BY <1>13, ZenonT(30) DEF WritesEntity
  <2>2. EntityAlive(EntityIn(y), y.since - Lag)
    BY <1>1, <2>1, ZenonT(30) DEF AliveThread, HasEntity
  <2>3. /\ EntityAlive(EntityIn(y), y.since - Age) /\ EntityAlive(EntityIn(y), lastblock - Late - Lag)
        /\ EntityAlive(EntityIn(y), lastblock - Late - Lag - Delay)
    BY <1>7, <1>8, <2>1, <2>2, Younger, ZenonT(30)
  <2>4. AliveThread(x)
    BY <1>1, <2>1, <2>3, PassedAlive, ZenonT(30)
  <2>5. entityCache \in [Entities -> Result \cup {None}] /\ FreshEntity(EntityIn(y))
    BY <2>3, Zenon DEF Types, CacheTypes, FreshEntity
  <2>6. \A e \in Entities : entityCache'[e] = "Valid" => FreshEntity(e)
    BY <1>2, <2>1, <2>5, ZenonT(30)
  <2>7. \A c \in DOTs : dotHashCache'[c] = "Valid" => Unrevoked(c, c \in dotToInvCache'[receiver[c]])
    BY <1>3, <2>1, ZenonT(30)
  <2> QED
    BY <2>4, <2>6, <2>7, ZenonT(30)
<1>14. CASE WritesDOT(t)
  <2>1. /\ y.pc = "cacheDOT" /\ y.read = "Valid" /\ Quiet(x) /\ entityCache' = entityCache
        /\ \A c \in DOTs \ {d} : /\ dotHashCache'[c] = dotHashCache[c]
                                 /\ c \in dotToInvCache'[receiver[c]] => c \in dotToInvCache[receiver[c]]
    BY <1>14, Zenon DEF WritesDOT
  <2>2. /\ DOTAlive(d, y.since - Lag) /\ EntityAlive(giver[d], y.since - Age)
        /\ EntityAlive(receiver[d], y.since - Age)
    BY <1>1, <2>1, ZenonT(30) DEF AliveThread, HasDOT, HasGiver, HasReceiver
  <2>3. DOTAlive(d, Past) /\ EntityAlive(giver[d], Past) /\ EntityAlive(receiver[d], Past)
    BY <1>7, <1>8, <2>1, <2>2, Younger
  <2>4. Unrevoked(d, d \in dotToInvCache'[receiver[d]])
    BY <2>3, Zenon DEF Unrevoked
  <2> HIDE DEF d
  <2>5. ASSUME NEW c \in DOTs, dotHashCache'[c] = "Valid" PROVE Unrevoked(c, c \in dotToInvCache'[receiver[c]])
    <3>1. CASE c = d
      BY <2>4, <3>1, ZenonT(30)
    <3>2. CASE c # d
      BY <1>3, <2>1, <2>5, <3>2, ZenonT(30)
    <3> QED
      BY <3>1, <3>2, Zenon
  <2> QED
    BY <1>2, <2>1, <2>5, QuietAlive, ZenonT(30)
<1> QED
  BY <1>6, <1>9, <1>10, <1>11, <1>12, <1>13, <1>14, ZenonT(30) DEF Called

LEMMA StepAlive == ChainInv /\ Types /\ Timing /\ IndexInv /\ AliveInv /\ [Next]_vars => AliveInv'
<1> SUFFICES ASSUME ChainInv, Types, Timing, IndexInv, AliveInv, [Next]_vars PROVE AliveInv'
  OBVIOUS
<1>1. ChainInv' /\ SameDeep
  BY StepChain, Zenon
<1>2. ASSUME NEW t \in Threads, Call(t) PROVE AliveInv'
  <2>1. Called(t)
    BY <1>2, CallIs, ZenonT(30)
  <2>2. /\ \A e \in Entities : entityCache'[e] = "Valid" => FreshEntity(e)
        /\ \A d \in DOTs : dotHashCache'[d] = "Valid" => Unrevoked(d, d \in dotToInvCache'[receiver[d]])
        /\ AliveThread(th'[t])
    BY <2>1, CallAlive, ZenonT(30)
  <2>3. UNCHANGED <<chain, lastblock, todo>>
    BY <2>1, Zenon DEF Called, chainVars, checkVars
  <2>4. ASSUME NEW u \in Threads PROVE AliveThread(th[u])'
    <3>1. AliveThread(th'[u])
      BY <2>1, <2>2, ZenonT(30) DEF Called, Moved, AliveInv
    <3> QED
      BY <2>3, <3>1, ZenonT(30) DEF AliveThread, HasDOT, HasGiver, HasReceiver, HasEntity, EntityIn, DOTAlive, EntityAlive, Age
  <2>5. ASSUME NEW e \in Entities, entityCache'[e] = "Valid" PROVE FreshEntity(e)'
    BY <2>2, <2>3, <2>5, ZenonT(30) DEF FreshEntity, EntityAlive, ToHandle, Late
  <2>6. ASSUME NEW d \in DOTs, dotHashCache'[d] = "Valid" PROVE FreshDOT(d)'
    <3>1. Unrevoked(d, d \in dotToInvCache'[receiver[d]])
      BY <2>2, <2>6, ZenonT(30)
    <3> QED
      BY <2>3, <3>1, ZenonT(30) DEF Unrevoked, FreshDOT, EntityAlive, DOTAlive, ToHandle, Past
  <2> QED
    BY <2>4, <2>5, <2>6, ZenonT(30) DEF AliveInv
<1>3. CASE CheckChainChange
  BY <1>3, CheckAlive, ZenonT(30)
<1>4. CASE HandleLog
  BY <1>4, HandleLogAlive, ZenonT(30)
<1>5. CASE ChainStep \/ DropAllCaches \/ Finished \/ UNCHANGED vars \/ \E x \in Expiring : FlushExpired(x)
  <2>1. NothingNew /\ UNCHANGED <<th, lastblock>>
    BY <1>5, Flushes, OthersAre, ZenonT(30)
  <2>2. todo' = todo
    <3>1. CASE ChainStep
      BY <3>1, Zenon DEF ChainStep, Send, Mine, Fork, Tick, checkVars
    <3>2. CASE DropAllCaches \/ Finished \/ UNCHANGED vars
      BY <3>2, Zenon DEF DropAllCaches, Finished, vars, checkVars
    <3>3. CASE \E x \in Expiring : FlushExpired(x)
      BY <3>3, Zenon DEF FlushExpired, checkVars
    <3> QED
      BY <1>5, <3>1, <3>2, <3>3, ZenonT(30)
  <2> QED
    BY <1>1, <2>1, <2>2, NothingNewAlive, ZenonT(30)
<1> QED
  BY <1>2, <1>3, <1>4, <1>5, ZenonT(30) DEF Next

LEMMA InitAlive == Init => AliveInv
BY InitQuiet, QuietAlive, Zenon DEF AliveInv

LEMMA AliveAlways == Spec => [](Timing /\ AliveInv)
<1>1. (ChainInv /\ Types) /\ Timing /\ [Next]_vars => Timing'
  BY StepTiming, Zenon
<1>2. (ChainInv /\ Types) /\ IndexInv /\ Timing /\ AliveInv /\ [Next]_vars => AliveInv'
  BY StepAlive, Zenon
<1> QED
  BY <1>1, <1>2, InitTiming, InitAlive, TypesAlways, IndexAlways, PTL DEF Spec

\* A validity that a revocation has overtaken never outlives the replay: at any
\* time its event is waiting in checkChainChange or lies in a block that the
\* next check goes through again.  For any number of threads that read the
\* chain before a revocation and write what they found after the flush, and
\* any forks, as long as calls and checks are not late by more blocks than
\* ResolutionAssumption allows for.
THEOREM StaleIsCovered == Spec => []StaleCovered
<1>1. ChainInv /\ Types /\ Timing /\ AliveInv => StaleCovered
  <2> SUFFICES ASSUME ChainInv, Types, Timing, AliveInv PROVE StaleCovered
    OBVIOUS
  <2>1. /\ lastblock \in Nat /\ Past \in Int /\ lastblock - Late - Lag \in Int /\ Past <= lastblock - Late - Lag
        /\ Past <= Past
    BY InvBlocks
  <2>2. /\ CurrentBlock \in 1 .. Len(chain) /\ CurrentBlock <= CurrentBlock /\ HeadState = chain[CurrentBlock].reg
    BY ChainFacts DEF HeadState
  <2>3. ASSUME NEW e \in Entities, HeadState.entity[e] = "Revoked", NEW n \in Int, n >= Past,
               EntityAlive(e, n) \/ ToHandle("RevokeEntity", e)
        PROVE  Covered(<<"RevokeEntity", e>>)
    <3>1. ~EntityAlive(e, CurrentBlock)
      BY <2>2, <2>3, ZenonT(30) DEF EntityAlive, EntityLives
    <3>2. CASE EntityAlive(e, n)
      BY <2>1, <2>3, <3>1, <3>2, Told, ZenonT(30) DEF Covered
    <3>3. CASE ToHandle("RevokeEntity", e)
      BY <3>3, Zenon DEF ToHandle, Covered
    <3> QED
      BY <2>3, <3>2, <3>3, ZenonT(30)
  <2>4. ASSUME NEW d \in DOTs, HeadState.dot[d] = "Revoked", DOTAlive(d, Past) \/ ToHandle("RevokeDOT", d)
        PROVE  Covered(<<"RevokeDOT", d>>)
    <3>1. ~DOTAlive(d, CurrentBlock)
      BY <2>2, <2>4, ZenonT(30) DEF DOTAlive, DOTLives
    <3>2. CASE DOTAlive(d, Past)
      BY <2>1, <3>1, <3>2, Told, ZenonT(30) DEF Covered
    <3>3. CASE ToHandle("RevokeDOT", d)
      BY <3>3, Zenon DEF ToHandle, Covered
    <3> QED
      BY <2>4, <3>2, <3>3, ZenonT(30)
  <2>5. ASSUME NEW e \in Entities, entityCache[e] = "Valid", HeadState.entity[e] = "Revoked"
        PROVE  Covered(<<"RevokeEntity", e>>)
    <3>1. EntityAlive(e, lastblock - Late - Lag) \/ ToHandle("RevokeEntity", e)
      BY <2>5, Zenon DEF AliveInv, FreshEntity
    <3> QED
      BY <2>1, <2>3, <2>5, <3>1, ZenonT(30)
  <2>6. ASSUME NEW d \in DOTs, dotHashCache[d] = "Valid"
        PROVE  /\ HeadState.dot[d] = "Revoked" => Covered(<<"RevokeDOT", d>>)
               /\ HeadState.entity[giver[d]] = "Revoked" => Covered(<<"RevokeEntity", giver[d]>>)
               /\ HeadState.entity[receiver[d]] = "Revoked" /\ d \in dotToInvCache[receiver[d]]
                    => Covered(<<"RevokeEntity", receiver[d]>>)
    <3>1. FreshDOT(d) /\ giver[d] \in Entities /\ receiver[d] \in Entities
      BY <2>6, RegistryAssumption, Zenon DEF AliveInv
    <3>2. HeadState.dot[d] = "Revoked" => Covered(<<"RevokeDOT", d>>)
      BY <2>4, <3>1, Zenon DEF FreshDOT
    <3>3. HeadState.entity[giver[d]] = "Revoked" => Covered(<<"RevokeEntity", giver[d]>>)
      BY <2>1, <2>3, <3>1, ZenonT(30) DEF FreshDOT
    <3>4. HeadState.entity[receiver[d]] = "Revoked" /\ d \in dotToInvCache[receiver[d]]
            => Covered(<<"RevokeEntity", receiver[d]>>)
      BY <2>1, <2>3, <3>1, ZenonT(30) DEF FreshDOT
    <3> QED
      BY <3>2, <3>3, <3>4, ZenonT(30)
  <2> QED
    BY <2>5, <2>6, ZenonT(30) DEF StaleCovered
<1> QED
  BY <1>1, TypesAlways, AliveAlways, PTL
=============================================================================
