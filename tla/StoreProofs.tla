----------------------------- MODULE StoreProofs -----------------------------
(***************************************************************************)
(* Proofs about the writers of the store, for any puts and any topics.     *)
(***************************************************************************)
EXTENDS Store, TLAPS

-----------------------------------------------------------------------------
(* Keys *)

\* InterlaceURI only moves cells, so a path has the length of its topic.
LEMMA PathType ==
  ASSUME NEW w \in Puts, NEW cf \in Family
  PROVE  /\ Depth(w) \in Nat \ {0}
         /\ Path(cf, w) \in [1 .. Depth(w) -> STRING]
<1>1. topicOf[w] \in Seq(STRING) /\ topicOf[w] # <<>>
  BY StoreAssumption
<1>2. Depth(w) \in Nat \ {0} /\ topicOf[w] \in [1 .. Depth(w) -> STRING]
  BY <1>1 DEF Depth
<1>3. ASSUME NEW i \in 1 .. Depth(w)
      PROVE  /\ i % 2 = 1 => (i + 1) \div 2 \in 1 .. Depth(w)
             /\ i % 2 # 1 => Depth(w) + 1 - i \div 2 \in 1 .. Depth(w)
  BY <1>2
<1>4. InterlaceURI(topicOf[w]) \in [1 .. Depth(w) -> STRING]
  BY <1>2, <1>3 DEF InterlaceURI, Depth
<1> QED
  BY <1>2, <1>4 DEF Path

\* A prefix of a prefix is a prefix, and its length is what it says.
LEMMA PrefixOf ==
  ASSUME NEW d \in Nat, NEW f \in [1 .. d -> STRING], NEW n \in 1 .. d
  PROVE  /\ Prefix(f, n) \in [1 .. n -> STRING]
         /\ Prefix(f, n) \in Seq(STRING)
         /\ Len(Prefix(f, n)) = n
         /\ \A m \in 1 .. n : Prefix(Prefix(f, n), m) = Prefix(f, m)
<1>1. Prefix(f, n) \in [1 .. n -> STRING]
  BY DEF Prefix
<1>2. Prefix(f, n) \in Seq(STRING) /\ Len(Prefix(f, n)) = n
  BY <1>1
<1>3. ASSUME NEW m \in 1 .. n PROVE Prefix(Prefix(f, n), m) = Prefix(f, m)
  BY DEF Prefix
<1> QED
  BY <1>1, <1>2, <1>3

\* Prefixes of a put's path are keys.
LEMMA PathKeys ==
  ASSUME NEW w \in Puts, NEW cf \in Family
  PROVE  /\ \A n \in 1 .. Depth(w) : Prefix(Path(cf, w), n) \in Key
         /\ Path(cf, w) \in Key
         /\ Prefix(Path(cf, w), Depth(w)) = Path(cf, w)
<1>1. Prefix(Path(cf, w), Depth(w)) = Path(cf, w)
  BY PathType DEF Prefix
<1>2. \A n \in 1 .. Depth(w) : Prefix(Path(cf, w), n) \in Key
  <2>1. KeysOf(cf, w) \subseteq Key
    BY DEF Key
  <2> QED
    BY <2>1 DEF KeysOf
<1> QED
  BY <1>1, <1>2, PathType

\* A key is a function on its length, and so is each of its prefixes.
LEMMA KeyType ==
  ASSUME NEW k \in Key
  PROVE  /\ Len(k) \in Nat \ {0} /\ k \in [1 .. Len(k) -> STRING]
         /\ \A n \in 1 .. Len(k) : Prefix(k, n) \in Key /\ Len(Prefix(k, n)) = n
<1>0. PICK cf \in Family, w \in Puts : k \in KeysOf(cf, w)
  BY DEF Key
<1>1. PICK d \in 1 .. Depth(w) : k = Prefix(Path(cf, w), d)
  BY <1>0 DEF KeysOf
<1>2. Depth(w) \in Nat /\ Path(cf, w) \in [1 .. Depth(w) -> STRING]
  BY PathType
<1>3. k \in [1 .. d -> STRING] /\ Len(k) = d
  BY <1>1, <1>2, PrefixOf
<1>4. ASSUME NEW n \in 1 .. d
      PROVE  Prefix(k, n) \in Key /\ Len(Prefix(k, n)) = n
  <2>1. Prefix(k, n) = Prefix(Path(cf, w), n)
    BY <1>1, <1>2, PrefixOf
  <2>2. n \in 1 .. Depth(w)
    BY <1>2
  <2> QED
    BY <2>1, <2>2, <1>2, PathKeys, PrefixOf
<1> QED
  BY <1>2, <1>3, <1>4

-----------------------------------------------------------------------------
(* The inductive invariant *)

\* The prefixes of lengths 1 to Left are still this put's to look after.
Left(w, cf) ==
  IF cf = "Msg"
  THEN IF pc[w] \in {"check", "dummy"} THEN at[w] ELSE 0
  ELSE IF pc[w] \in {"leaf", "check", "dummy"} THEN Depth(w) - 1
       ELSE IF pc[w] \in {"checkI", "dummyI"} THEN at[w] ELSE 0

\* A put that has come down to below k and looks after its prefix of length n.
Owes(w, cf, k, n) ==
  /\ n <= Left(w, cf) /\ Left(w, cf) < Len(k)
  /\ Prefix(k, Left(w, cf) + 1) = Prefix(Path(cf, w), Left(w, cf) + 1)

TornAt(w, cf, a, n) == pc[w] = "torn" /\ n < Depth(w) /\ a = Prefix(Path(cf, w), n)

Covered(cf, k, n) ==
  \/ db[cf][Prefix(k, n)] # None
  \/ \E w \in Puts : Owes(w, cf, k, n)
  \/ \E w \in Puts : TornAt(w, cf, Prefix(k, n), n)

\* Each prefix of an entry exists, is looked after or was torn.
Closed ==
  \A cf \in Family : \A k \in Key : db[cf][k] # None =>
    \A n \in 1 .. Len(k) - 1 : Covered(cf, k, n)

InLoop == \A w \in Puts : pc[w] \in {"check", "dummy", "checkI", "dummyI"} => at[w] > 0

Written(u) == pc[u] \in {"check", "dummy", "checkI", "dummyI", "done"}

\* What a put has stored is there, or a put beside it has written the dummy; a
\* put that is about to write a dummy over it runs beside it.
Kept ==
  /\ \A u, w \in Puts : u # w /\ {u, w} \subseteq Running => <<u, w>> \in overlap
  /\ \A u \in Puts : Written(u) => db["Msg"][topicOf[u]] # None
  /\ \A u, w \in Puts :
       Written(u) /\ pc[w] = "dummy" /\ topicOf[u] = Prefix(topicOf[w], at[w]) => <<u, w>> \in overlap
  /\ \A u \in Puts :
       Written(u) /\ db["Msg"][topicOf[u]] = Dummy =>
         \E w \in Puts : <<u, w>> \in overlap /\ topicOf[u] \in Above(topicOf[w])

IInv == StoreTypeOK /\ InLoop /\ Closed /\ Kept

-----------------------------------------------------------------------------
(* The initial states *)

LEMMA ContentsEntry ==
  ASSUME NEW stored \in SUBSET Puts, NEW cf \in Family, NEW k \in Key
  PROVE  /\ Contents(stored)[cf][k] \in Puts \cup {None, Dummy}
         /\ Contents(stored)[cf][k] # None <=>
              \E w \in stored : \E n \in 1 .. Depth(w) : Prefix(Path(cf, w), n) = k
         /\ (\E w \in stored : Path(cf, w) = k) => Contents(stored)[cf][k] \in Puts
<1>1. CASE \E w \in stored : Path(cf, w) = k
  <2>1. PICK w \in stored : Path(cf, w) = k
    BY <1>1
  <2>2. Prefix(Path(cf, w), Depth(w)) = k /\ Depth(w) \in 1 .. Depth(w)
    BY <2>1, PathKeys, PathType
  <2>3. Contents(stored)[cf][k] = CHOOSE v \in stored : Path(cf, v) = k
    BY <1>1 DEF Contents
  <2>4. Contents(stored)[cf][k] \in stored
    BY <1>1, <2>3
  <2> QED
    BY <2>1, <2>2, <2>4, StoreAssumption
<1>2. CASE ~\E w \in stored : Path(cf, w) = k
  <2>1. Contents(stored)[cf][k] =
          IF \E w \in stored : \E n \in 1 .. Depth(w) : Prefix(Path(cf, w), n) = k THEN Dummy ELSE None
    BY <1>2 DEF Contents
  <2> QED
    BY <1>2, <2>1, StoreAssumption
<1> QED
  BY <1>1, <1>2

LEMMA InitType ==
  ASSUME NEW stored \in SUBSET Puts, StoreInit(stored)
  PROVE  StoreTypeOK /\ InLoop
<1>1. db \in [Family -> [Key -> Puts \cup {None, Dummy}]]
  <2>1. \A cf \in Family : \A k \in Key : Contents(stored)[cf][k] \in Puts \cup {None, Dummy}
    BY ContentsEntry
  <2> QED
    BY <2>1 DEF StoreInit, Contents
<1>2. \A w \in Puts : Depth(w) \in Nat \ {0}
  BY PathType DEF Family
<1>3. pc \in [Puts -> {"idle", "done"}] /\ at = [w \in Puts |-> 0] /\ overlap = {}
  BY DEF StoreInit
<1> QED
  BY <1>1, <1>2, <1>3 DEF StoreTypeOK, InLoop

LEMMA InitInv ==
  ASSUME NEW stored \in SUBSET Puts, StoreInit(stored)
  PROVE  IInv
<1>1. ASSUME NEW cf \in Family, NEW k \in Key, db[cf][k] # None, NEW n \in 1 .. Len(k) - 1
      PROVE  db[cf][Prefix(k, n)] # None
  <2>1. PICK w \in stored : \E m \in 1 .. Depth(w) : Prefix(Path(cf, w), m) = k
    BY <1>1, ContentsEntry DEF StoreInit
  <2>2. PICK m \in 1 .. Depth(w) : Prefix(Path(cf, w), m) = k
    BY <2>1
  <2>3. Depth(w) \in Nat /\ Path(cf, w) \in [1 .. Depth(w) -> STRING]
    BY PathType
  <2>4. Len(k) = m /\ n \in 1 .. m /\ n \in 1 .. Depth(w)
    BY <2>2, <2>3, PrefixOf
  <2>5. Prefix(k, n) = Prefix(Path(cf, w), n)
    BY <2>2, <2>3, <2>4, PrefixOf
  <2>6. Prefix(k, n) \in Key
    BY <2>4, <2>5, PathKeys
  <2> QED
    BY <2>4, <2>5, <2>6, ContentsEntry DEF StoreInit
<1>2. Closed
  BY <1>1 DEF Closed, Covered
<1>3. ASSUME NEW u \in Puts, Written(u) PROVE db["Msg"][topicOf[u]] \in Puts
  <2>1. u \in stored
    BY <1>3 DEF StoreInit, Written
  <2>2. Path("Msg", u) = topicOf[u] /\ Path("Msg", u) \in Key
    BY PathKeys DEF Path, Family
  <2> QED
    BY <2>1, <2>2, ContentsEntry DEF StoreInit, Family
<1>4. \A u \in Puts : u \notin Running /\ pc[u] # "dummy"
  BY DEF StoreInit, Running
<1>5. Kept
  BY <1>3, <1>4, StoreAssumption DEF Kept
<1> QED
  BY <1>2, <1>5, InitType DEF IInv

-----------------------------------------------------------------------------
(* What the actions have in common *)

\* A step of put w: it moves itself only, and removes no entry.
StepOf(w) ==
  /\ pc[w] \notin {"torn", "done"}
  /\ \A v \in Puts \ {w} : pc'[v] = pc[v] /\ at'[v] = at[v]
  /\ \A cf \in Family : \A k \in Key : db[cf][k] # None => db'[cf][k] # None
  /\ overlap \subseteq overlap'

LEMMA PutFacts ==
  ASSUME StoreTypeOK, NEW w \in Puts, NEW cf \in Family, NEW k \in Key, NEW v \in Puts \cup {Dummy},
         Put(cf, k, v)
  PROVE  /\ db' \in [Family -> [Key -> Puts \cup {None, Dummy}]]
         /\ db'[cf][k] = v
         /\ \A f \in Family : \A j \in Key : f # cf \/ j # k => db'[f][j] = db[f][j]
         /\ \A f \in Family : \A j \in Key : db[f][j] # None => db'[f][j] # None
<1>1. db \in [Family -> [Key -> Puts \cup {None, Dummy}]]
  BY DEF StoreTypeOK
<1>2. db' = [db EXCEPT ![cf] = [db[cf] EXCEPT ![k] = v]]
  BY <1>1 DEF Put
<1>3. [db[cf] EXCEPT ![k] = v] \in [Key -> Puts \cup {None, Dummy}]
  BY <1>1
<1>4. v # None
  BY StoreAssumption
<1> QED
  BY <1>1, <1>2, <1>3, <1>4

LEMMA LoopFacts ==
  ASSUME StoreTypeOK, NEW w \in Puts, NEW cf \in Family, NEW i \in Nat, i < Depth(w), Loop(w, cf, i)
  PROVE  /\ pc' \in [Puts -> {"idle", "leaf", "check", "dummy", "checkI", "dummyI", "done", "torn"}]
         /\ at' \in [Puts -> Nat] /\ \A v \in Puts : at'[v] < Depth(v)
         /\ \A v \in Puts \ {w} : pc'[v] = pc[v] /\ at'[v] = at[v]
         /\ pc'[w] \in {"check", "checkI", "done"}
         /\ pc'[w] # "done" => at'[w] > 0
         /\ cf = "Msg" => /\ Left(w, "Msg")' = i
                          /\ Left(w, "MsgI")' = Depth(w) - 1
         /\ cf = "MsgI" => /\ Left(w, "Msg")' = 0
                           /\ Left(w, "MsgI")' = i
<1>1. /\ pc \in [Puts -> {"idle", "leaf", "check", "dummy", "checkI", "dummyI", "done", "torn"}]
      /\ at \in [Puts -> Nat] /\ \A v \in Puts : at[v] < Depth(v)
  BY DEF StoreTypeOK
<1>2. Depth(w) \in Nat \ {0}
  BY PathType
<1>3. CASE cf = "Msg" /\ i > 0
  <2>1. pc' = [pc EXCEPT ![w] = "check"] /\ at' = [at EXCEPT ![w] = i]
    BY <1>3 DEF Loop, CheckOf
  <2> QED
    BY <1>1, <1>2, <1>3, <2>1 DEF Left
<1>4. CASE cf = "MsgI" /\ i > 0
  <2>1. pc' = [pc EXCEPT ![w] = "checkI"] /\ at' = [at EXCEPT ![w] = i]
    BY <1>4 DEF Loop, CheckOf
  <2> QED
    BY <1>1, <1>2, <1>4, <2>1 DEF Left
<1>5. CASE cf = "Msg" /\ i = 0 /\ Depth(w) > 1
  <2>1. pc' = [pc EXCEPT ![w] = "checkI"] /\ at' = [at EXCEPT ![w] = Depth(w) - 1]
    BY <1>5 DEF Loop
  <2> QED
    BY <1>1, <1>2, <1>5, <2>1 DEF Left
<1>6. CASE i = 0 /\ (cf = "MsgI" \/ Depth(w) = 1)
  <2>1. pc' = [pc EXCEPT ![w] = "done"] /\ at' = [at EXCEPT ![w] = 0]
    BY <1>2, <1>6 DEF Loop, Family
  <2> QED
    BY <1>1, <1>2, <1>6, <2>1 DEF Left, Family
<1> QED
  BY <1>2, <1>3, <1>4, <1>5, <1>6 DEF Family

\* A prefix stays covered unless w alone looked after it.
LEMMA CoveredStep ==
  ASSUME StoreTypeOK, NEW w \in Puts, StepOf(w), NEW cf \in Family, NEW k \in Key, NEW n \in 1 .. Len(k) - 1,
         Covered(cf, k, n), Owes(w, cf, k, n) => Covered(cf, k, n)'
  PROVE  Covered(cf, k, n)'
<1>1. CASE db[cf][Prefix(k, n)] # None
  <2>1. Prefix(k, n) \in Key
    BY KeyType
  <2> QED
    BY <1>1, <2>1 DEF StepOf, Covered
<1>2. CASE \E v \in Puts : Owes(v, cf, k, n)
  <2>1. PICK v \in Puts : Owes(v, cf, k, n)
    BY <1>2
  <2>2. CASE v = w
    BY <2>1, <2>2
  <2>3. CASE v # w
    <3>1. Owes(v, cf, k, n)'
      BY <2>1, <2>3 DEF StepOf, Owes, Left
    <3> QED
      BY <3>1 DEF Covered
  <2> QED
    BY <2>2, <2>3
<1>3. CASE \E v \in Puts : TornAt(v, cf, Prefix(k, n), n)
  <2>1. PICK v \in Puts : TornAt(v, cf, Prefix(k, n), n)
    BY <1>3
  <2>2. TornAt(v, cf, Prefix(k, n), n)'
    BY <2>1 DEF StepOf, TornAt
  <2> QED
    BY <2>2 DEF Covered
<1> QED
  BY <1>1, <1>2, <1>3 DEF Covered

\* Keys that agree up to a length agree below it.
LEMMA PrefixDown ==
  ASSUME NEW w \in Puts, NEW cf \in Family, NEW k \in Key, NEW l \in Nat, l <= Len(k), l <= Depth(w),
         Prefix(k, l) = Prefix(Path(cf, w), l)
  PROVE  \A m \in 1 .. l : Prefix(k, m) = Prefix(Path(cf, w), m)
<1>1. /\ Depth(w) \in Nat /\ Path(cf, w) \in [1 .. Depth(w) -> STRING]
      /\ Len(k) \in Nat /\ k \in [1 .. Len(k) -> STRING]
  BY PathType, KeyType
<1> SUFFICES ASSUME NEW m \in 1 .. l PROVE Prefix(k, m) = Prefix(Path(cf, w), m)
  OBVIOUS
<1>2. Prefix(Prefix(k, l), m) = Prefix(k, m)
  BY <1>1 DEF Prefix
<1>3. Prefix(Prefix(Path(cf, w), l), m) = Prefix(Path(cf, w), m)
  BY <1>1, PrefixOf
<1> QED
  BY <1>2, <1>3

LEMMA LeftType ==
  ASSUME StoreTypeOK, NEW w \in Puts, NEW cf \in Family
  PROVE  Left(w, cf) \in Nat /\ Left(w, cf) < Depth(w)
<1>1. at[w] \in Nat /\ at[w] < Depth(w)
  BY DEF StoreTypeOK
<1> QED
  BY <1>1, PathType DEF Left

-----------------------------------------------------------------------------
(* Types *)

Branch(cf, check, dummy) ==
  \/ cf = "Msg" /\ check = "check" /\ dummy = "dummy"
  \/ cf = "MsgI" /\ check = "checkI" /\ dummy = "dummyI"

LEMMA StartType ==
  ASSUME StoreTypeOK, InLoop, NEW w \in Puts, PutStart(w)
  PROVE  StoreTypeOK' /\ InLoop' /\ StepOf(w)
<1>1. Path("MsgI", w) \in Key /\ "MsgI" \in Family
  BY PathKeys DEF Family
<1>2. /\ db' \in [Family -> [Key -> Puts \cup {None, Dummy}]]
      /\ \A f \in Family : \A j \in Key : db[f][j] # None => db'[f][j] # None
  BY <1>1, PutFacts DEF PutStart
<1>3. pc' = [pc EXCEPT ![w] = "leaf"] /\ at' = at /\ pc[w] = "idle"
  BY DEF PutStart
<1>4. overlap' \subseteq Puts \X Puts /\ overlap \subseteq overlap'
  BY DEF PutStart, Running, StoreTypeOK
<1>5. StoreTypeOK'
  BY <1>2, <1>3, <1>4 DEF StoreTypeOK
<1>6. InLoop' /\ StepOf(w)
  BY <1>2, <1>3, <1>4 DEF StoreTypeOK, InLoop, StepOf
<1> QED
  BY <1>5, <1>6

LEMMA LeafType ==
  ASSUME StoreTypeOK, InLoop, NEW w \in Puts, PutLeaf(w)
  PROVE  StoreTypeOK' /\ InLoop' /\ StepOf(w)
<1>1. Path("Msg", w) \in Key /\ "Msg" \in Family
  BY PathKeys DEF Family
<1>2. /\ db' \in [Family -> [Key -> Puts \cup {None, Dummy}]]
      /\ \A f \in Family : \A j \in Key : db[f][j] # None => db'[f][j] # None
  BY <1>1, PutFacts DEF PutLeaf
<1>3. Depth(w) - 1 \in Nat /\ Depth(w) - 1 < Depth(w) /\ Loop(w, "Msg", Depth(w) - 1)
  BY <1>1, PathType DEF PutLeaf
<1>4. /\ pc' \in [Puts -> {"idle", "leaf", "check", "dummy", "checkI", "dummyI", "done", "torn"}]
      /\ at' \in [Puts -> Nat] /\ \A v \in Puts : at'[v] < Depth(v)
      /\ \A v \in Puts \ {w} : pc'[v] = pc[v] /\ at'[v] = at[v]
      /\ pc'[w] \in {"check", "checkI", "done"} /\ (pc'[w] # "done" => at'[w] > 0)
  BY <1>1, <1>3, LoopFacts
<1>5. overlap' = overlap /\ pc[w] = "leaf"
  BY DEF PutLeaf
<1>6. StoreTypeOK'
  BY <1>2, <1>4, <1>5 DEF StoreTypeOK
<1>7. InLoop' /\ StepOf(w)
  BY <1>2, <1>4, <1>5 DEF InLoop, StepOf
<1> QED
  BY <1>6, <1>7

LEMMA CheckType ==
  ASSUME StoreTypeOK, InLoop, NEW w \in Puts, NEW cf, NEW check, NEW dummy, Branch(cf, check, dummy),
         PutCheck(w, cf, check, dummy)
  PROVE  StoreTypeOK' /\ InLoop' /\ StepOf(w)
<1>1. cf \in Family /\ db' = db /\ overlap' = overlap /\ pc[w] = check /\ check \in {"check", "checkI"}
  BY DEF PutCheck, Branch, Family
<1>2. CASE Loop(w, cf, 0)
  <2>1. /\ pc' \in [Puts -> {"idle", "leaf", "check", "dummy", "checkI", "dummyI", "done", "torn"}]
        /\ at' \in [Puts -> Nat] /\ \A v \in Puts : at'[v] < Depth(v)
        /\ \A v \in Puts \ {w} : pc'[v] = pc[v] /\ at'[v] = at[v]
        /\ pc'[w] \in {"check", "checkI", "done"} /\ (pc'[w] # "done" => at'[w] > 0)
    BY <1>1, <1>2, LoopFacts, PathType
  <2> QED
    BY <1>1, <2>1 DEF StoreTypeOK, InLoop, StepOf
<1>3. CASE pc' = [pc EXCEPT ![w] = dummy] /\ at' = at
  <2>1. dummy \in {"dummy", "dummyI"} /\ at[w] > 0
    BY <1>1 DEF Branch, InLoop
  <2> QED
    BY <1>1, <1>3, <2>1 DEF StoreTypeOK, InLoop, StepOf
<1> QED
  BY <1>2, <1>3 DEF PutCheck

LEMMA DummyType ==
  ASSUME StoreTypeOK, InLoop, NEW w \in Puts, NEW cf, NEW check, NEW dummy, Branch(cf, check, dummy),
         PutDummy(w, cf, dummy)
  PROVE  StoreTypeOK' /\ InLoop' /\ StepOf(w)
<1>1. cf \in Family /\ overlap' = overlap /\ pc[w] = dummy /\ dummy \in {"dummy", "dummyI"}
  BY DEF PutDummy, Branch, Family
<1>2. at[w] \in Nat /\ at[w] > 0 /\ at[w] < Depth(w) /\ Depth(w) \in Nat
  BY <1>1, PathType DEF StoreTypeOK, InLoop
<1>3. Prefix(Path(cf, w), at[w]) \in Key
  BY <1>1, <1>2, PathKeys
<1>4. /\ db' \in [Family -> [Key -> Puts \cup {None, Dummy}]]
      /\ \A f \in Family : \A j \in Key : db[f][j] # None => db'[f][j] # None
  BY <1>1, <1>3, PutFacts DEF PutDummy
<1>5. at[w] - 1 \in Nat /\ at[w] - 1 < Depth(w) /\ Loop(w, cf, at[w] - 1)
  BY <1>2 DEF PutDummy
<1>6. /\ pc' \in [Puts -> {"idle", "leaf", "check", "dummy", "checkI", "dummyI", "done", "torn"}]
      /\ at' \in [Puts -> Nat] /\ \A v \in Puts : at'[v] < Depth(v)
      /\ \A v \in Puts \ {w} : pc'[v] = pc[v] /\ at'[v] = at[v]
      /\ pc'[w] \in {"check", "checkI", "done"} /\ (pc'[w] # "done" => at'[w] > 0)
  BY <1>1, <1>5, LoopFacts
<1> QED
  BY <1>1, <1>4, <1>6 DEF StoreTypeOK, InLoop, StepOf

-----------------------------------------------------------------------------
(* Prefixes stay covered *)

\* w has just written its key of length l and looks after all that is above.
LEMMA NewKeyCovered ==
  ASSUME NEW w \in Puts, NEW cf \in Family, NEW l \in 1 .. Depth(w),
         Left(w, cf)' = l - 1, NEW n \in 1 .. l - 1
  PROVE  Covered(cf, Prefix(Path(cf, w), l), n)'
<1>1. Depth(w) \in Nat /\ Path(cf, w) \in [1 .. Depth(w) -> STRING]
  BY PathType
<1>2. Len(Prefix(Path(cf, w), l)) = l /\ Prefix(Prefix(Path(cf, w), l), l) = Prefix(Path(cf, w), l)
  BY <1>1, PrefixOf
<1>3. Owes(w, cf, Prefix(Path(cf, w), l), n)'
  BY <1>1, <1>2 DEF Owes
<1> QED
  BY <1>3 DEF Covered

\* w looks after as much as before.
LEMMA SameOwes ==
  ASSUME NEW w \in Puts, NEW cf \in Family, NEW k \in Key, NEW n, Left(w, cf)' = Left(w, cf),
         Owes(w, cf, k, n)
  PROVE  Covered(cf, k, n)'
<1>1. Owes(w, cf, k, n)'
  BY DEF Owes
<1> QED
  BY <1>1 DEF Covered

LEMMA StartClosed ==
  ASSUME StoreTypeOK, InLoop, Closed, NEW w \in Puts, PutStart(w)
  PROVE  Closed'
<1>1. StepOf(w)
  BY StartType
<1>2. pc'[w] = "leaf" /\ pc[w] = "idle"
  BY DEF PutStart, StoreTypeOK
<1>3. "MsgI" \in Family /\ Depth(w) \in Nat \ {0} /\ Path("MsgI", w) \in Key
      /\ Prefix(Path("MsgI", w), Depth(w)) = Path("MsgI", w)
  BY PathKeys, PathType DEF Family
<1> SUFFICES ASSUME NEW cf \in Family, NEW k \in Key, db'[cf][k] # None, NEW n \in 1 .. Len(k) - 1
             PROVE  Covered(cf, k, n)'
  BY DEF Closed
<1>4. CASE cf = "MsgI" /\ k = Path("MsgI", w)
  <2>1. Left(w, "MsgI")' = Depth(w) - 1
    BY <1>2 DEF Left
  <2>2. Len(k) = Depth(w)
    BY <1>3, <1>4, PrefixOf, PathType
  <2> QED
    BY <1>3, <1>4, <2>1, <2>2, NewKeyCovered
<1>5. CASE ~(cf = "MsgI" /\ k = Path("MsgI", w))
  <2>1. db[cf][k] # None
    BY <1>3, <1>5, PutFacts DEF PutStart
  <2>2. ~Owes(w, cf, k, n)
    BY <1>2, KeyType DEF Owes, Left
  <2> QED
    BY <1>1, <2>1, <2>2, CoveredStep DEF Closed
<1> QED
  BY <1>4, <1>5

LEMMA LeafClosed ==
  ASSUME StoreTypeOK, InLoop, Closed, NEW w \in Puts, PutLeaf(w)
  PROVE  Closed'
<1>1. StepOf(w)
  BY LeafType
<1>2. "Msg" \in Family /\ Depth(w) \in Nat \ {0} /\ Path("Msg", w) \in Key
      /\ Prefix(Path("Msg", w), Depth(w)) = Path("Msg", w)
  BY PathKeys, PathType DEF Family
<1>3. pc[w] = "leaf" /\ Left(w, "Msg")' = Depth(w) - 1 /\ Left(w, "MsgI")' = Depth(w) - 1
  BY <1>2, LoopFacts DEF PutLeaf
<1> SUFFICES ASSUME NEW cf \in Family, NEW k \in Key, db'[cf][k] # None, NEW n \in 1 .. Len(k) - 1
             PROVE  Covered(cf, k, n)'
  BY DEF Closed
<1>4. CASE cf = "Msg" /\ k = Path("Msg", w)
  <2>1. Len(k) = Depth(w)
    BY <1>2, <1>4, PrefixOf, PathType
  <2> QED
    BY <1>2, <1>3, <1>4, <2>1, NewKeyCovered
<1>5. CASE ~(cf = "Msg" /\ k = Path("Msg", w))
  <2>1. db[cf][k] # None
    BY <1>2, <1>5, PutFacts DEF PutLeaf
  <2>2. Owes(w, cf, k, n) => Covered(cf, k, n)'
    <3>1. CASE cf = "Msg"
      BY <1>3, <3>1, KeyType DEF Owes, Left
    <3>2. CASE cf = "MsgI"
      <4>1. Left(w, "MsgI") = Depth(w) - 1
        BY <1>3 DEF Left
      <4> QED
        BY <1>3, <3>2, <4>1, SameOwes
    <3> QED
      BY <3>1, <3>2 DEF Family
  <2> QED
    BY <1>1, <2>1, <2>2, CoveredStep DEF Closed
<1> QED
  BY <1>4, <1>5

\* The put stops at a key that exists: whoever looks after what is above that
\* key looks after what is above all that w has written.
LEMMA HandedOver ==
  ASSUME StoreTypeOK, Closed, NEW w \in Puts, StepOf(w), NEW cf \in Family, NEW k \in Key,
         NEW n \in 1 .. Len(k) - 1, Owes(w, cf, k, n), db[cf][Prefix(Path(cf, w), Left(w, cf))] # None
  PROVE  Covered(cf, k, n)'
<1> DEFINE i == Left(w, cf)
           p == Prefix(Path(cf, w), i)
<1>1. i \in Nat /\ i < Depth(w) /\ Depth(w) \in Nat /\ Path(cf, w) \in [1 .. Depth(w) -> STRING]
  BY LeftType, PathType
<1>2. n <= i /\ i < Len(k) /\ Prefix(k, i + 1) = Prefix(Path(cf, w), i + 1)
  BY DEF Owes
<1>3. k \in [1 .. Len(k) -> STRING] /\ Len(k) \in Nat
  BY KeyType
<1> HIDE DEF i
<1>4. \A m \in 1 .. i + 1 : Prefix(k, m) = Prefix(Path(cf, w), m)
  <2>1. i + 1 \in Nat /\ i + 1 <= Len(k) /\ i + 1 <= Depth(w)
    BY <1>1, <1>2, <1>3
  <2> QED
    BY <1>1, <1>2, <1>3, <2>1, PrefixDown
<1>5. i \in 1 .. Depth(w) /\ p \in Key /\ Len(p) = i
      /\ \A m \in 1 .. i : Prefix(p, m) = Prefix(Path(cf, w), m)
  BY <1>1, <1>2, PathKeys, PrefixOf
<1>6. \A m \in 1 .. i : Prefix(p, m) = Prefix(k, m)
  BY <1>1, <1>4, <1>5
<1>7. db[cf][p] # None
  BY DEF i
<1> HIDE DEF p
<1>8. CASE n = i
  <2>1. Prefix(k, n) = p /\ p \in Key
    BY <1>4, <1>5, <1>8 DEF p
  <2> QED
    BY <1>7, <2>1 DEF StepOf, Covered
<1>9. CASE n < i
  <2>1. n \in 1 .. Len(p) - 1 /\ Prefix(p, n) = Prefix(k, n)
    BY <1>1, <1>5, <1>6, <1>9
  <2>2. Covered(cf, p, n)
    BY <1>5, <1>7, <2>1 DEF Closed
  <2>3. CASE \E v \in Puts : Owes(v, cf, p, n)
    <3>1. PICK v \in Puts : Owes(v, cf, p, n)
      BY <2>3
    <3>2. Left(v, cf) \in Nat /\ Left(v, cf) < i /\ v # w
      BY <1>5, <3>1, LeftType DEF Owes, i
    <3>3. Prefix(p, Left(v, cf) + 1) = Prefix(k, Left(v, cf) + 1)
      BY <1>1, <1>6, <3>2
    <3>4. Owes(v, cf, k, n)
      BY <1>1, <1>2, <1>3, <3>1, <3>2, <3>3 DEF Owes
    <3>5. Owes(v, cf, k, n)'
      BY <3>2, <3>4 DEF Owes, StepOf, Left
    <3> QED
      BY <3>5 DEF Covered
  <2>4. CASE db[cf][Prefix(p, n)] # None
    <3>1. Prefix(k, n) \in Key
      BY KeyType
    <3> QED
      BY <2>1, <2>4, <3>1 DEF StepOf, Covered
  <2>5. CASE \E v \in Puts : TornAt(v, cf, Prefix(p, n), n)
    BY <2>1, <2>5 DEF TornAt, StepOf, Covered
  <2> QED
    BY <2>2, <2>3, <2>4, <2>5 DEF Covered
<1> QED
  BY <1>1, <1>2, <1>8, <1>9

LEMMA CheckClosed ==
  ASSUME StoreTypeOK, InLoop, Closed, NEW w \in Puts, NEW cf \in Family, NEW check, NEW dummy,
         Branch(cf, check, dummy), PutCheck(w, cf, check, dummy)
  PROVE  Closed'
<1>1. StepOf(w) /\ db' = db
  BY CheckType DEF PutCheck
<1>2. Left(w, cf) = at[w] /\ Depth(w) \in Nat \ {0} /\ pc[w] = check
  BY PathType DEF PutCheck, Branch, Left
<1> SUFFICES ASSUME NEW f \in Family, NEW k \in Key, db[f][k] # None, NEW n \in 1 .. Len(k) - 1,
                    Owes(w, f, k, n)
             PROVE  Covered(f, k, n)'
  BY <1>1, CoveredStep DEF Closed
<1>3. CASE Exists(cf, Prefix(Path(cf, w), at[w])) /\ Loop(w, cf, 0)
  <2>1. CASE f = cf
    BY <1>1, <1>2, <1>3, <2>1, HandedOver DEF Exists
  <2>2. CASE f # cf
    <3>0. 0 \in Nat /\ 0 < Depth(w)
      BY <1>2
    <3>1. CASE cf = "Msg"
      <4>1. f = "MsgI" /\ check = "check"
        BY <2>2, <3>1 DEF Branch, Family
      <4>2. Left(w, f)' = Depth(w) - 1 /\ Left(w, f) = Depth(w) - 1
        BY <1>2, <1>3, <3>0, <3>1, <4>1, LoopFacts DEF Left
      <4> QED
        BY <4>2, SameOwes
    <3>2. CASE cf = "MsgI"
      <4>1. f = "Msg" /\ check = "checkI"
        BY <2>2, <3>2 DEF Branch, Family
      <4>2. Left(w, f)' = 0 /\ Left(w, f) = 0
        BY <1>2, <1>3, <3>0, <3>2, <4>1, LoopFacts DEF Left
      <4> QED
        BY <4>2, SameOwes
    <3> QED
      BY <3>1, <3>2 DEF Family
  <2> QED
    BY <2>1, <2>2
<1>4. CASE pc' = [pc EXCEPT ![w] = dummy] /\ at' = at
  <2>1. pc'[w] = dummy
    BY <1>4 DEF StoreTypeOK
  <2>2. Left(w, f)' = Left(w, f)
    BY <1>2, <1>4, <2>1 DEF Branch, Left
  <2> QED
    BY <2>2, SameOwes
<1> QED
  BY <1>3, <1>4 DEF PutCheck

LEMMA DummyClosed ==
  ASSUME StoreTypeOK, InLoop, Closed, NEW w \in Puts, NEW cf \in Family, NEW check, NEW dummy,
         Branch(cf, check, dummy), PutDummy(w, cf, dummy)
  PROVE  Closed'
<1> DEFINE i == at[w]
           p == Prefix(Path(cf, w), i)
<1>1. StepOf(w)
  BY DummyType
<1>2. Left(w, cf) = i /\ Depth(w) \in Nat \ {0} /\ pc[w] = dummy
  BY PathType DEF PutDummy, Branch, Left
<1>3. i \in Nat /\ i > 0 /\ i < Depth(w) /\ i - 1 \in Nat /\ i - 1 < Depth(w)
  BY <1>2, PathType DEF StoreTypeOK, InLoop, Branch
<1>4. i \in 1 .. Depth(w) /\ Path(cf, w) \in [1 .. Depth(w) -> STRING]
  BY <1>2, <1>3, PathType
<1>5. p \in Key /\ Len(p) = i
  BY <1>2, <1>4, PathKeys, PrefixOf
<1>6. Left(w, cf)' = i - 1 /\ \A f \in Family : f # cf => Left(w, f)' = Left(w, f)
  <2>1. Loop(w, cf, i - 1)
    BY DEF PutDummy
  <2>2. CASE cf = "Msg" /\ dummy = "dummy"
    <3>1. Left(w, "Msg")' = i - 1 /\ Left(w, "MsgI")' = Depth(w) - 1
      BY <1>3, <2>1, <2>2, LoopFacts
    <3>2. Left(w, "MsgI") = Depth(w) - 1
      BY <1>2, <2>2 DEF Left
    <3> QED
      BY <2>2, <3>1, <3>2 DEF Family
  <2>3. CASE cf = "MsgI" /\ dummy = "dummyI"
    <3>1. Left(w, "Msg")' = 0 /\ Left(w, "MsgI")' = i - 1
      BY <1>3, <2>1, <2>3, LoopFacts
    <3>2. Left(w, "Msg") = 0
      BY <1>2, <2>3 DEF Left
    <3> QED
      BY <2>3, <3>1, <3>2 DEF Family
  <2> QED
    BY <2>2, <2>3 DEF Branch
<1>7. db'[cf][p] = Dummy /\ Dummy # None
      /\ \A f \in Family : \A j \in Key : f # cf \/ j # p => db'[f][j] = db[f][j]
  <2>1. Put(cf, p, Dummy) /\ Dummy # None
    BY StoreAssumption DEF PutDummy
  <2> HIDE DEF p
  <2> QED
    BY <1>5, <2>1, PutFacts
<1> HIDE DEF i, p
<1> SUFFICES ASSUME NEW f \in Family, NEW k \in Key, db'[f][k] # None, NEW n \in 1 .. Len(k) - 1
             PROVE  Covered(f, k, n)'
  BY DEF Closed
<1>8. CASE f = cf /\ k = p
  BY <1>4, <1>5, <1>6, <1>8, NewKeyCovered DEF p
<1>9. CASE ~(f = cf /\ k = p)
  <2>1. db[f][k] # None
    BY <1>7, <1>9
  <2>2. ASSUME Owes(w, f, k, n) PROVE Covered(f, k, n)'
    <3>1. CASE f # cf
      BY <1>6, <2>2, <3>1, SameOwes
    <3>2. CASE f = cf
      <4>1. n <= i /\ i < Len(k) /\ Prefix(k, i + 1) = Prefix(Path(cf, w), i + 1)
        BY <1>2, <2>2, <3>2 DEF Owes
      <4>2. k \in [1 .. Len(k) -> STRING] /\ Len(k) \in Nat
        BY KeyType
      <4>3. i + 1 \in Nat /\ i + 1 <= Len(k) /\ i + 1 <= Depth(w)
        BY <1>2, <1>3, <4>1, <4>2
      <4>4. \A m \in 1 .. i + 1 : Prefix(k, m) = Prefix(Path(cf, w), m)
        BY <1>2, <1>4, <4>1, <4>2, <4>3, PrefixDown
      <4>5. CASE n = i
        <5>1. Prefix(k, n) = p
          BY <1>3, <4>4, <4>5 DEF p
        <5> QED
          BY <1>7, <3>2, <5>1 DEF Covered
      <4>6. CASE n <= i - 1
        <5>1. i - 1 + 1 = i /\ Prefix(k, i) = Prefix(Path(cf, w), i)
          BY <1>3, <4>4
        <5>2. Owes(w, cf, k, n)'
          BY <1>3, <1>6, <4>1, <4>2, <4>6, <5>1 DEF Owes
        <5> QED
          BY <3>2, <5>2 DEF Covered
      <4> QED
        BY <1>3, <4>1, <4>5, <4>6
    <3> QED
      BY <3>1, <3>2
  <2> QED
    BY <1>1, <2>1, <2>2, CoveredStep DEF Closed
<1> QED
  BY <1>8, <1>9

LEMMA CrashClosed ==
  ASSUME StoreTypeOK, Closed, Crash
  PROVE  Closed'
<1>1. db' = db /\ \A w \in Puts : pc'[w] = IF w \in Running THEN "torn" ELSE pc[w]
  BY DEF Crash
<1> SUFFICES ASSUME NEW cf \in Family, NEW k \in Key, db[cf][k] # None, NEW n \in 1 .. Len(k) - 1
             PROVE  Covered(cf, k, n)'
  BY <1>1 DEF Closed
<1>2. Covered(cf, k, n)
  BY DEF Closed
<1>3. ASSUME NEW w \in Puts, Owes(w, cf, k, n) PROVE Covered(cf, k, n)'
  <2>1. Left(w, cf) \in Nat /\ Left(w, cf) < Depth(w) /\ n <= Left(w, cf) /\ Left(w, cf) < Len(k)
        /\ Prefix(k, Left(w, cf) + 1) = Prefix(Path(cf, w), Left(w, cf) + 1)
    BY <1>3, LeftType DEF Owes
  <2>2. pc[w] \in {"leaf", "check", "dummy", "checkI", "dummyI"}
    BY <2>1, KeyType DEF Left
  <2>3. pc'[w] = "torn"
    BY <1>1, <2>2 DEF Running
  <2>4. /\ Depth(w) \in Nat /\ Path(cf, w) \in [1 .. Depth(w) -> STRING]
        /\ Len(k) \in Nat /\ k \in [1 .. Len(k) -> STRING]
    BY PathType, KeyType
  <2>5. Left(w, cf) + 1 \in Nat /\ Left(w, cf) + 1 <= Len(k) /\ Left(w, cf) + 1 <= Depth(w)
        /\ n \in 1 .. Left(w, cf) + 1 /\ n < Depth(w)
    BY <2>1, <2>4
  <2>6. Prefix(k, n) = Prefix(Path(cf, w), n)
    BY <2>1, <2>4, <2>5, PrefixDown
  <2> QED
    BY <2>3, <2>5, <2>6 DEF TornAt, Covered
<1>4. ASSUME NEW w \in Puts, TornAt(w, cf, Prefix(k, n), n) PROVE Covered(cf, k, n)'
  BY <1>1, <1>4 DEF TornAt, Running, Covered
<1> QED
  BY <1>1, <1>2, <1>3, <1>4 DEF Covered

-----------------------------------------------------------------------------
(* What is stored stays, but for a race *)

LEMMA TopicKey ==
  ASSUME NEW u \in Puts
  PROVE  topicOf[u] \in Key /\ topicOf[u] = Path("Msg", u)
  BY PathKeys DEF Family, Path

\* A step that leaves the messages alone and prepares no dummy over them.
LEMMA QuietKept ==
  ASSUME StoreTypeOK, Kept, NEW w \in Puts, StepOf(w), w \in Running, pc'[w] # "dummy",
         Written(w)' => Written(w), \A u \in Puts : db'["Msg"][topicOf[u]] = db["Msg"][topicOf[u]]
  PROVE  Kept'
<1>1. Running' \subseteq Running /\ overlap \subseteq overlap'
  BY DEF StepOf, Running
<1>2. \A u \in Puts : Written(u)' => Written(u)
  BY DEF StepOf, Written
<1>3. \A v \in Puts : pc'[v] = "dummy" => pc[v] = "dummy" /\ at'[v] = at[v]
  BY DEF StepOf
<1> QED
  BY <1>1, <1>2, <1>3 DEF Kept

LEMMA StartKept ==
  ASSUME StoreTypeOK, InLoop, Kept, NEW w \in Puts, PutStart(w)
  PROVE  Kept'
<1>1. StepOf(w) /\ pc[w] = "idle" /\ pc'[w] = "leaf"
  BY StartType DEF PutStart, StoreTypeOK
<1>2. overlap \subseteq overlap' /\ overlap' = overlap \cup ({w} \X Running) \cup (Running \X {w})
  BY DEF PutStart
<1>3. \A v \in Puts : v # w => (v \in Running' <=> v \in Running)
  BY <1>1 DEF StepOf, Running
<1>4. \A u \in Puts : db'["Msg"][topicOf[u]] = db["Msg"][topicOf[u]]
  <2>1. Path("MsgI", w) \in Key /\ "MsgI" \in Family /\ "Msg" \in Family
    BY PathKeys DEF Family
  <2> QED
    BY <2>1, TopicKey, PutFacts DEF PutStart
<1>5. \A u \in Puts : Written(u)' => Written(u)
  BY <1>1 DEF StepOf, Written
<1>6. \A v \in Puts : pc'[v] = "dummy" => pc[v] = "dummy" /\ at'[v] = at[v]
  BY <1>1 DEF StepOf
<1>7. ASSUME NEW u \in Puts, NEW v \in Puts, u # v, u \in Running', v \in Running'
      PROVE  <<u, v>> \in overlap'
  BY <1>2, <1>3, <1>7 DEF Kept
<1> QED
  BY <1>2, <1>4, <1>5, <1>6, <1>7 DEF Kept

LEMMA LeafKept ==
  ASSUME StoreTypeOK, InLoop, Kept, NEW w \in Puts, PutLeaf(w)
  PROVE  Kept'
<1>1. StepOf(w) /\ pc[w] = "leaf" /\ overlap' = overlap
  BY LeafType DEF PutLeaf
<1>2. pc'[w] \in {"check", "checkI", "done"}
  <2>1. Depth(w) - 1 \in Nat /\ Depth(w) - 1 < Depth(w) /\ "Msg" \in Family
    BY PathType DEF Family
  <2> QED
    BY <2>1, LoopFacts DEF PutLeaf
<1>3. /\ db'["Msg"][topicOf[w]] = w /\ w # None /\ w # Dummy
      /\ \A u \in Puts : topicOf[u] # topicOf[w] => db'["Msg"][topicOf[u]] = db["Msg"][topicOf[u]]
  <2>1. "Msg" \in Family /\ Put("Msg", topicOf[w], w)
    BY TopicKey DEF Family, PutLeaf
  <2>2. w # None /\ w # Dummy
    BY StoreAssumption
  <2> QED
    BY <2>1, <2>2, TopicKey, PutFacts
<1>4. \A v \in Puts : v \in Running' => v \in Running
  BY <1>1 DEF StepOf, Running
<1>5. \A u \in Puts \ {w} : Written(u)' => Written(u)
  BY <1>1 DEF StepOf, Written
<1>6. \A v \in Puts : pc'[v] = "dummy" => v # w /\ pc[v] = "dummy" /\ at'[v] = at[v]
  BY <1>1, <1>2 DEF StepOf
<1>7. \A u \in Puts : Written(u)' => db'["Msg"][topicOf[u]] # None
  BY <1>3, <1>5 DEF Kept
<1>8. ASSUME NEW u \in Puts, NEW v \in Puts, Written(u)', pc'[v] = "dummy", topicOf[u] = Prefix(topicOf[v], at'[v])
      PROVE  <<u, v>> \in overlap'
  <2>1. CASE u = w
    BY <1>1, <1>6, <1>8, <2>1 DEF Kept, Running
  <2>2. CASE u # w
    BY <1>1, <1>5, <1>6, <1>8, <2>2 DEF Kept
  <2> QED
    BY <2>1, <2>2
<1>9. ASSUME NEW u \in Puts, Written(u)', db'["Msg"][topicOf[u]] = Dummy
      PROVE  \E v \in Puts : <<u, v>> \in overlap' /\ topicOf[u] \in Above(topicOf[v])
  BY <1>1, <1>3, <1>5, <1>9 DEF Kept
<1> QED
  BY <1>1, <1>4, <1>7, <1>8, <1>9 DEF Kept

LEMMA CheckKept ==
  ASSUME StoreTypeOK, InLoop, Kept, NEW w \in Puts, NEW cf \in Family, NEW check, NEW dummy,
         Branch(cf, check, dummy), PutCheck(w, cf, check, dummy)
  PROVE  Kept'
<1>1. StepOf(w) /\ db' = db /\ overlap' = overlap /\ pc[w] = check /\ w \in Running /\ Written(w)
  BY CheckType DEF PutCheck, Branch, Running, Written
<1>2. CASE Loop(w, cf, 0)
  <2>1. pc'[w] \in {"check", "checkI", "done"}
    BY <1>2, PathType, LoopFacts
  <2> QED
    BY <1>1, <2>1, QuietKept
<1>3. CASE cf = "MsgI" /\ pc' = [pc EXCEPT ![w] = dummy]
  <2>1. pc'[w] = "dummyI"
    BY <1>3 DEF Branch, StoreTypeOK
  <2> QED
    BY <1>1, <2>1, QuietKept
<1>4. CASE cf = "Msg" /\ ~Exists(cf, Prefix(Path(cf, w), at[w])) /\ pc' = [pc EXCEPT ![w] = dummy] /\ at' = at
  <2>1. db["Msg"][Prefix(topicOf[w], at[w])] = None /\ pc'[w] = "dummy"
    BY <1>4 DEF Exists, Path, Branch, StoreTypeOK
  <2>2. \A u \in Puts : Written(u)' => Written(u)
    BY <1>1 DEF StepOf, Written
  <2>3. Running' \subseteq Running
    BY <1>1 DEF StepOf, Running
  <2>4. ASSUME NEW u \in Puts, NEW v \in Puts, Written(u)', pc'[v] = "dummy", topicOf[u] = Prefix(topicOf[v], at'[v])
        PROVE  <<u, v>> \in overlap'
    <3>1. CASE v = w
      BY <1>4, <2>1, <2>2, <2>4, <3>1 DEF Kept
    <3>2. CASE v # w
      BY <1>1, <1>4, <2>2, <2>4, <3>2 DEF Kept, StepOf
    <3> QED
      BY <3>1, <3>2
  <2> QED
    BY <1>1, <2>2, <2>3, <2>4 DEF Kept
<1> QED
  BY <1>2, <1>3, <1>4 DEF PutCheck, Family

LEMMA DummyKept ==
  ASSUME StoreTypeOK, InLoop, Kept, NEW w \in Puts, NEW cf \in Family, NEW check, NEW dummy,
         Branch(cf, check, dummy), PutDummy(w, cf, dummy)
  PROVE  Kept'
<1>1. StepOf(w) /\ overlap' = overlap /\ pc[w] = dummy /\ w \in Running /\ Written(w)
  BY DummyType DEF PutDummy, Branch, Running, Written
<1>2. at[w] \in Nat /\ at[w] > 0 /\ at[w] < Depth(w) /\ Depth(w) \in Nat
  <2>1. at[w] \in Nat /\ at[w] < Depth(w) /\ pc[w] \in {"dummy", "dummyI"}
    BY <1>1 DEF StoreTypeOK, Branch
  <2> QED
    BY <2>1, PathType DEF InLoop
<1>3. pc'[w] \in {"check", "checkI", "done"}
  <2>1. at[w] - 1 \in Nat /\ at[w] - 1 < Depth(w)
    BY <1>2
  <2>2. Loop(w, cf, at[w] - 1)
    BY DEF PutDummy
  <2> QED
    BY <2>1, <2>2, LoopFacts
<1>4. /\ Prefix(Path(cf, w), at[w]) \in Key
      /\ \A f \in Family : \A j \in Key : f # cf \/ j # Prefix(Path(cf, w), at[w]) => db'[f][j] = db[f][j]
  <2>1. Prefix(Path(cf, w), at[w]) \in Key
    BY <1>2, PathKeys
  <2> QED
    BY <2>1, PutFacts DEF PutDummy
<1>5. CASE cf = "MsgI"
  <2>1. \A u \in Puts : db'["Msg"][topicOf[u]] = db["Msg"][topicOf[u]]
    BY <1>4, <1>5, TopicKey DEF Family
  <2> QED
    BY <1>1, <1>3, <2>1, QuietKept
<1>6. CASE cf = "Msg"
  <2>1. pc[w] = "dummy" /\ \A u \in Puts : topicOf[u] # Prefix(topicOf[w], at[w]) =>
                             db'["Msg"][topicOf[u]] = db["Msg"][topicOf[u]]
    BY <1>1, <1>4, <1>6, TopicKey DEF Branch, Path
  <2>2. \A u \in Puts : Written(u)' => Written(u)
    BY <1>1 DEF StepOf, Written
  <2>3. Running' \subseteq Running
    BY <1>1 DEF StepOf, Running
  <2>4. \A v \in Puts : pc'[v] = "dummy" => pc[v] = "dummy" /\ at'[v] = at[v]
    BY <1>1, <1>3 DEF StepOf
  <2>5. \A u \in Puts : Written(u)' => db'["Msg"][topicOf[u]] # None
    BY <1>1, <1>6, <2>2, TopicKey DEF Kept, StepOf
  <2>6. ASSUME NEW u \in Puts, Written(u)', db'["Msg"][topicOf[u]] = Dummy
        PROVE  \E v \in Puts : <<u, v>> \in overlap' /\ topicOf[u] \in Above(topicOf[v])
    <3>1. CASE topicOf[u] = Prefix(topicOf[w], at[w])
      <4>1. <<u, w>> \in overlap'
        BY <1>1, <2>1, <2>2, <2>6, <3>1 DEF Kept
      <4>2. at[w] \in 1 .. Len(topicOf[w]) - 1
        BY <1>2 DEF Depth
      <4>3. topicOf[u] \in Above(topicOf[w])
        BY <3>1, <4>2 DEF Above
      <4> QED
        BY <4>1, <4>3
    <3>2. CASE topicOf[u] # Prefix(topicOf[w], at[w])
      BY <1>1, <2>1, <2>2, <2>6, <3>2 DEF Kept
    <3> QED
      BY <3>1, <3>2
  <2> QED
    BY <1>1, <2>2, <2>3, <2>4, <2>5, <2>6 DEF Kept
<1> QED
  BY <1>5, <1>6 DEF Family

LEMMA CrashStep ==
  ASSUME IInv, Crash
  PROVE  IInv'
<1>1. db' = db /\ at' = at /\ overlap' = overlap
      /\ pc' = [w \in Puts |-> IF w \in Running THEN "torn" ELSE pc[w]]
  BY DEF Crash
<1>2. \A w \in Puts : (pc'[w] = pc[w] /\ pc[w] \in {"idle", "done", "torn"}) \/ pc'[w] = "torn"
  BY <1>1 DEF Running
<1>3. StoreTypeOK' /\ InLoop'
  BY <1>1, <1>2 DEF IInv, StoreTypeOK, InLoop
<1>4. Running' = {} /\ \A u \in Puts : (Written(u)' => Written(u)) /\ pc'[u] # "dummy"
  BY <1>2 DEF Running, Written
<1>5. Kept'
  BY <1>1, <1>4 DEF IInv, Kept
<1> QED
  BY <1>3, <1>5, CrashClosed DEF IInv

LEMMA PutStep ==
  ASSUME IInv, NEW w \in Puts, PutMessage(w)
  PROVE  IInv'
<1>1. StoreTypeOK /\ InLoop /\ Closed /\ Kept
  BY DEF IInv
<1>2. "Msg" \in Family /\ "MsgI" \in Family /\ Branch("Msg", "check", "dummy") /\ Branch("MsgI", "checkI", "dummyI")
  BY DEF Family, Branch
<1>3. CASE PutStart(w)
  BY <1>1, <1>3, StartType, StartClosed, StartKept DEF IInv
<1>4. CASE PutLeaf(w)
  BY <1>1, <1>4, LeafType, LeafClosed, LeafKept DEF IInv
<1>5. CASE PutCheck(w, "Msg", "check", "dummy")
  BY <1>1, <1>2, <1>5, CheckType, CheckClosed, CheckKept DEF IInv
<1>6. CASE PutDummy(w, "Msg", "dummy")
  BY <1>1, <1>2, <1>6, DummyType, DummyClosed, DummyKept DEF IInv
<1>7. CASE PutCheck(w, "MsgI", "checkI", "dummyI")
  BY <1>1, <1>2, <1>7, CheckType, CheckClosed, CheckKept DEF IInv
<1>8. CASE PutDummy(w, "MsgI", "dummyI")
  BY <1>1, <1>2, <1>8, DummyType, DummyClosed, DummyKept DEF IInv
<1> QED
  BY <1>3, <1>4, <1>5, <1>6, <1>7, <1>8 DEF PutMessage

-----------------------------------------------------------------------------
(* Theorems *)

\* The invariant is inductive: no interleaving of puts, and no crash between
\* two writes of PutMessage, leaves it.
THEOREM StoreInvariant == StoreSpec => []IInv
<1>1. (\E stored \in SUBSET Puts : StoreInit(stored)) => IInv
  BY InitInv
<1>2. IInv /\ [StoreNext]_storeVars => IInv'
  <2> SUFFICES ASSUME IInv, [StoreNext]_storeVars PROVE IInv'
    OBVIOUS
  <2>1. CASE Crash
    BY <2>1, CrashStep
  <2>2. CASE \E w \in Puts : PutMessage(w)
    BY <2>2, PutStep
  <2>3. CASE UNCHANGED storeVars
    <3>1. db' = db /\ pc' = pc /\ at' = at /\ overlap' = overlap
      BY <2>3 DEF storeVars
    <3>2. StoreTypeOK' /\ InLoop'
      BY <3>1 DEF IInv, StoreTypeOK, InLoop
    <3>3. Closed'
      <4>1. \A w \in Puts, cf \in Family : Left(w, cf)' = Left(w, cf)
        BY <3>1 DEF Left
      <4> QED
        BY <3>1, <4>1 DEF IInv, Closed, Covered, Owes, TornAt
    <3>4. Kept'
      BY <3>1 DEF IInv, Kept, Running, Written
    <3> QED
      BY <3>2, <3>3, <3>4 DEF IInv
  <2> QED
    BY <2>1, <2>2, <2>3 DEF StoreNext
<1> QED
  BY <1>1, <1>2, PTL DEF StoreSpec

\* "We assume that if a path exists, all its parents exist" (PutMessage): with
\* no put under way only a crash can have left a prefix out.
THEOREM PathsStayClosed == StoreSpec => []PathsClosed
<1>1. IInv => PathsClosed
  <2> SUFFICES ASSUME IInv, Running = {}, NEW cf \in Family, NEW k \in Key, db[cf][k] # None,
                      NEW a \in Above(k)
               PROVE  db[cf][a] # None \/ \E w \in Puts : pc[w] = "torn" /\ a \in Above(Path(cf, w))
    BY DEF PathsClosed
  <2>1. PICK n \in 1 .. Len(k) - 1 : a = Prefix(k, n)
    BY DEF Above
  <2>2. Covered(cf, k, n)
    BY DEF IInv, Closed
  <2>3. ASSUME NEW w \in Puts PROVE ~Owes(w, cf, k, n)
    <3>1. Left(w, cf) = 0
      BY DEF Running, Left
    <3>2. ~(n <= 0)
      BY KeyType
    <3> QED
      BY <3>1, <3>2 DEF Owes
  <2>4. CASE \E w \in Puts : TornAt(w, cf, Prefix(k, n), n)
    <3>1. PICK w \in Puts : TornAt(w, cf, Prefix(k, n), n)
      BY <2>4
    <3>2. Len(Path(cf, w)) = Depth(w) /\ Depth(w) \in Nat /\ Len(k) \in Nat
      BY PathType, KeyType
    <3> QED
      BY <2>1, <3>1, <3>2 DEF TornAt, Above
  <2> QED
    BY <2>1, <2>2, <2>3, <2>4 DEF Covered
<1> QED
  BY <1>1, StoreInvariant, PTL

\* PutMessage can overwrite a message by a dummy only if the two puts ran at
\* the same time, and then it is one stored above the other's topic.
THEOREM OnlyRacesLose == StoreSpec => []LostOnlyToRace
<1>1. IInv => LostOnlyToRace
  BY DEF IInv, Kept, LostOnlyToRace, Written
<1> QED
  BY <1>1, StoreInvariant, PTL
=============================================================================
