--------------------------- MODULE TerminusProofs ---------------------------
(*****************************************************************************)
(* Theorems about Terminus, for any clients, subscriptions, publications,    *)
(* patterns and queue capacity: facts about its operators, then that every   *)
(* step keeps the types of its variables, the tree and the walks through it  *)
(* in shape, and then what is delivered.                                     *)
(*****************************************************************************)
EXTENDS TerminusInv, FiniteSetTheorems, TLAPS

-----------------------------------------------------------------------------
(* The operators *)

LEMMA UriType ==
  ASSUME NEW s \in Subs
  PROVE  /\ uriOf[s] \in Seq(STRING)
         /\ Len(uriOf[s]) \in Nat \ {0}
         /\ SubSeq(uriOf[s], 1, Len(uriOf[s])) = uriOf[s]
         /\ \A k \in 1 .. Len(uriOf[s]) : uriOf[s][k] \in Cell
  <1>1. uriOf[s] \in Seq(STRING) /\ uriOf[s] # <<>>
    BY TerminusAssumption, Zenon
  <1>2. Len(uriOf[s]) \in Nat \ {0}
    BY <1>1
  <1>3. SubSeq(uriOf[s], 1, Len(uriOf[s])) = uriOf[s]
    BY <1>1
  <1> QED
    BY <1>1, <1>2, <1>3 DEF Cell

\* Every node has a path and the root's is empty.
LEMMA NodePath ==
  ASSUME NEW n \in Node
  PROVE  n.path \in Seq(STRING)
  <1>1. CASE n = Root
    BY <1>1 DEF Root
  <1>2. CASE n # Root
    <2>0. PICK s \in Subs : \E k \in 1 .. Len(uriOf[s]) : n = [path |-> SubSeq(uriOf[s], 1, k), by |-> s]
      BY <1>2, Zenon DEF Node
    <2>1. PICK k \in 1 .. Len(uriOf[s]) : n = [path |-> SubSeq(uriOf[s], 1, k), by |-> s]
      BY <2>0, Zenon
    <2>2. SubSeq(uriOf[s], 1, k) \in Seq(STRING)
      BY UriType
    <2> QED
      BY <2>1, <2>2, Zenon
  <1> QED
    BY <1>1, <1>2, Zenon

LEMMA FilteredType ==
  ASSUME NEW q \in Seq(Subs), NEW keep \in SUBSET Subs, NEW r \in Filtered(q, keep)
  PROVE  /\ r \in Seq(Subs)
         /\ \A i \in DOMAIN r : \E j \in DOMAIN q : r[i] = q[j]
  <1>1. PICK k \in 0 .. Len(q) : r \in [1 .. k -> keep]
    BY Zenon DEF Filtered
  <1>2. r \in Seq(Subs)
    BY <1>1
  <1>3. \A i \in DOMAIN r : \E j \in DOMAIN q : r[i] = q[j]
    BY Zenon DEF Filtered
  <1> QED
    BY <1>2, <1>3, Zenon

LEMMA ViewsType ==
  ASSUME TypeOK, NEW n \in Node, NEW v \in Views(n)
  PROVE  v \in Seq(Subs)
  <1>1. subz[n] \in Seq(Subs) /\ rlock \in Holding \cup {Nil}
    BY Zenon DEF TypeOK
  <1>2. CASE rlock # Nil /\ rlock.node = n
    <2>1. rlock.kept \in Seq(Subs)
      BY <1>1, <1>2, Zenon DEF Holding
    <2>2. PICK moved \in SUBSET DOMAIN rlock.kept :
            v = [i \in DOMAIN subz[n] |-> IF i \in moved THEN rlock.kept[i] ELSE subz[n][i]]
      BY <1>2, Zenon DEF Views
    <2> QED
      BY <1>1, <2>1, <2>2
  <1>3. CASE ~(rlock # Nil /\ rlock.node = n)
    BY <1>1, <1>3, Zenon DEF Views
  <1> QED
    BY <1>2, <1>3, Zenon

LEMMA ThreadType ==
  /\ \A s \in Subs : Dispatch(s) \in Thread
  /\ \A id \in SubIds : Caller(id) \in Thread
  /\ \A c \in Clients : Cleanup(c) \in Thread
  BY Zenon DEF Dispatch, Caller, Cleanup, Thread

LEMMA NextCellType ==
  ASSUME Walks, NEW s \in Subs, pc[s] \in {"walk", "link"}, Depth(s) < Len(uriOf[s])
  PROVE  /\ Depth(s) + 1 \in 1 .. Len(uriOf[s])
         /\ NextCell(s) \in Cell
  <1>1. Depth(s) \in 0 .. Len(uriOf[s]) /\ Len(uriOf[s]) \in Nat
    BY UriType, Zenon DEF Walks
  <1>2. Depth(s) + 1 \in 1 .. Len(uriOf[s])
    BY <1>1
  <1> QED
    BY <1>2, UriType, Zenon DEF NextCell

LEMMA PermutedType ==
  ASSUME NEW q \in Seq(Subs), NEW r \in Permuted(q)
  PROVE  /\ r \in Seq(Subs)
         /\ DOMAIN r = DOMAIN q
         /\ \A i \in DOMAIN r : \E j \in DOMAIN q : r[i] = q[j]
  <1>1. PICK f \in [DOMAIN q -> DOMAIN q] : r = [i \in DOMAIN q |-> q[f[i]]]
    BY Zenon DEF Permuted
  <1>2. \A i \in DOMAIN q : r[i] = q[f[i]] /\ f[i] \in DOMAIN q
    BY <1>1, Zenon
  <1>3. DOMAIN q = 1 .. Len(q) /\ Len(q) \in Nat
    OBVIOUS
  <1>4. \A i \in DOMAIN q : r[i] \in Subs
    BY <1>2, <1>3
  <1>5. DOMAIN r = DOMAIN q
    BY <1>1, Zenon
  <1>6. r \in Seq(Subs)
    BY <1>1, <1>3, <1>4
  <1> QED
    BY <1>2, <1>5, <1>6, Zenon

LEMMA ViewsOnPath ==
  ASSUME TypeOK, Shape, NEW n \in Node, NEW v \in Views(n)
  PROVE  OnPath(v, n.path)
  <1>1. OnPath(subz[n], n.path)
    BY Zenon DEF Shape
  <1>2. CASE rlock # Nil /\ rlock.node = n
    <2>1. rlock.node # Nil
      BY <1>2, TerminusAssumption, Zenon
    <2>2. OnPath(rlock.kept, n.path)
      BY <1>2, <2>1, Zenon DEF Shape
    <2>3. PICK moved \in SUBSET DOMAIN rlock.kept :
            v = [i \in DOMAIN subz[n] |-> IF i \in moved THEN rlock.kept[i] ELSE subz[n][i]]
      BY <1>2, Zenon DEF Views
    <2> QED
      BY <1>1, <2>2, <2>3, Zenon DEF OnPath
  <1>3. CASE ~(rlock # Nil /\ rlock.node = n)
    BY <1>1, <1>3, Zenon DEF Views
  <1> QED
    BY <1>2, <1>3, Zenon

-----------------------------------------------------------------------------
(* Types *)

\* A subscription's own nodes are nodes of the tree.
LEMMA OwnNode ==
  ASSUME NEW s \in Subs, NEW k \in 1 .. Len(uriOf[s])
  PROVE  [path |-> SubSeq(uriOf[s], 1, k), by |-> s] \in Node
  BY DEF Node

LEMMA LeafNode ==
  ASSUME NEW s \in Subs
  PROVE  [path |-> uriOf[s], by |-> s] \in Node
  BY UriType, OwnNode

-----------------------------------------------------------------------------
(* Type correctness *)

LEMMA InitIInv == Init => IInv
  <1> SUFFICES ASSUME Init PROVE IInv
    OBVIOUS
  <1>1. TypeOK
    BY TerminusAssumption DEF Init, TypeOK, Root, Node
  <1>2. Shape
    BY DEF Init, Shape, OnPath
  <1>3. Walks
    <2>1. ASSUME NEW s \in Subs
          PROVE  /\ pc[s] = "idle"
                 /\ Depth(s) \in 0 .. Len(uriOf[s])
                 /\ at[s].path = SubSeq(uriOf[s], 1, Depth(s))
      <3>1. pc[s] = "idle" /\ at[s].path = <<>>
        BY Zenon DEF Init, Root
      <3>2. Depth(s) = 0
        BY <3>1 DEF Depth
      <3>3. SubSeq(uriOf[s], 1, 0) = <<>>
        BY UriType
      <3> QED
        BY <3>1, <3>2, <3>3, UriType
    <2> QED
      BY <2>1, Zenon DEF Walks
  <1>4. Routes
    BY DEF Init, Routes
  <1>5. Ends
    BY DEF Init, Ends
  <1>6. Lates
    BY DEF Init, Lates
  <1> QED
    BY <1>1, <1>2, <1>3, <1>4, <1>5, <1>6, Zenon DEF IInv

TreeType ==
  /\ children \in [Node -> [Cell -> Node \cup {Nil}]]
  /\ subz \in [Node -> Seq(Subs)]
  /\ rstree \in [SubIds -> Node \cup {Nil}]
  /\ rlock \in Holding \cup {Nil}

ClientType ==
  /\ cmap \in [Clients -> {"none", "creating", "listed", "removed"}]
  /\ clpc \in [Clients -> {"none", "waiting", "cleaning", "unlisting", "gone"}]
  /\ ctxdone \in SUBSET Clients
  /\ clsubs \in [Clients -> SUBSET SubIds]

SubType ==
  /\ pc \in [Subs -> {"idle", "walk", "link", "append", "register", "record", "done"}]
  /\ at \in [Subs -> Node]
  /\ seen \in [Subs -> Seq(Subs)]

DispType ==
  /\ gpc \in [Subs -> {"none", "run", "handle", "unsub", "locked", "term", "ending", "ended"}]
  /\ cancelled \in SUBSET Subs
  /\ toTerm \in [Thread -> SUBSET Subs]
  /\ mqueue \in [Subs -> Seq(Pubs)]
  /\ cur \in [Subs -> Pubs \cup {Nil}]
  /\ log \in [Subs -> Seq(Pubs \cup {Nil})]
  /\ late \in [Subs -> Nat]
  /\ \A s \in Subs : Len(mqueue[s]) <= QueueCap

PubType ==
  /\ ppc \in [Pubs -> {"idle", "match", "send", "done"}]
  /\ stack \in [Pubs -> Seq(Frame)]
  /\ list \in [Pubs -> Seq(Subs)]
  /\ count \in [Pubs -> Nat]

UpcType == upc \in [SubIds -> {"idle", "locked", "term", "ok", "error"}]

LEMMA TypeSplit ==
  TypeOK <=> TreeType /\ ClientType /\ SubType /\ DispType /\ UpcType /\ PubType
  BY Zenon DEF TypeOK, TreeType, ClientType, SubType, DispType, UpcType, PubType

LEMMA TypeFrame ==
  /\ TreeType /\ UNCHANGED treeVars => TreeType'
  /\ ClientType /\ UNCHANGED clientVars => ClientType'
  /\ SubType /\ UNCHANGED subVars => SubType'
  /\ DispType /\ UNCHANGED dispVars => DispType'
  /\ UpcType /\ UNCHANGED upc => UpcType'
  /\ PubType /\ UNCHANGED pubVars => PubType'
  BY Zenon DEF TreeType, ClientType, SubType, DispType, UpcType, PubType,
         treeVars, clientVars, subVars, dispVars, pubVars

LEMMA ReadType ==
  ASSUME TreeType, NEW t \in Thread, NEW id \in SubIds, NEW keep \in SUBSET Subs,
         NEW todo \in SUBSET SubIds, rstree[id] # Nil, Read(t, id, keep, todo)
  PROVE  rlock' \in Holding
  <1>1. rstree[id] \in Node /\ subz[rstree[id]] \in Seq(Subs)
    BY Zenon DEF TreeType
  <1>2. PICK kept \in Filtered(subz[rstree[id]], keep) :
          rlock' = [owner |-> t, id |-> id, node |-> rstree[id], old |-> subz[rstree[id]],
                    kept |-> kept, todo |-> todo]
    BY Zenon DEF Read
  <1>3. kept \in Seq(Subs)
    BY <1>1, FilteredType, Zenon
  <1> QED
    BY <1>1, <1>2, <1>3, Zenon DEF Holding

LEMMA StoreType ==
  ASSUME TreeType, rlock # Nil, Store
  PROVE  subz' \in [Node -> Seq(Subs)] /\ rstree' \in [SubIds -> Node \cup {Nil}]
  <1>1. rlock.kept \in Seq(Subs)
    BY Zenon DEF TreeType, Holding
  <1> QED
    BY <1>1, Zenon DEF TreeType, Store

LEMMA UnsubscribeType ==
  ASSUME TreeType, NEW t \in Thread, NEW id \in SubIds
  PROVE  /\ UnsubscribeRead(t, id) => TreeType'
         /\ UnsubscribeStore(t) => TreeType'
  <1>1. ASSUME UnsubscribeRead(t, id) PROVE TreeType'
    <2>1. rlock' \in Holding
      BY <1>1, ReadType DEF UnsubscribeRead
    <2> QED
      BY <1>1, <2>1, Zenon DEF UnsubscribeRead, TreeType
  <1>2. ASSUME UnsubscribeStore(t) PROVE TreeType'
    <2>1. subz' \in [Node -> Seq(Subs)] /\ rstree' \in [SubIds -> Node \cup {Nil}]
      BY <1>2, StoreType, Zenon DEF UnsubscribeStore, Holds
    <2> QED
      BY <1>2, <2>1, Zenon DEF UnsubscribeStore, TreeType
  <1> QED
    BY <1>1, <1>2, Zenon

LEMMA ToTermType ==
  ASSUME toTerm \in [Thread -> SUBSET Subs], cancelled \in SUBSET Subs, NEW t \in Thread
  PROVE  /\ UnsubscribeStore(t) => toTerm' \in [Thread -> SUBSET Subs]
         /\ UnsubscribeTerm(t) => cancelled' \in SUBSET Subs
  BY Zenon DEF UnsubscribeStore, UnsubscribeTerm

LEMMA CallsType ==
  ASSUME TreeType, NEW n \in Node, NEW cell, NEW from \in Nat, NEW to \in Nat
  PROVE  Calls(n, cell, from, to) \in Seq(Frame)
  <1>1. CASE Child(n, cell) = Nil
    BY <1>1 DEF Calls
  <1>2. CASE Child(n, cell) # Nil
    <2>1. Child(n, cell) \in Node
      BY <1>2 DEF Child, TreeType
    <2>2. CASE from <= to + 1
      <3>1. \A i \in 1 .. to - from + 1 : [node |-> Child(n, cell), pos |-> from + i - 1] \in Frame
        BY <2>1 DEF Frame
      <3>2. to - from + 1 \in Nat
        BY <2>2
      <3> QED
        BY <1>2, <3>1, <3>2 DEF Calls
    <2>3. CASE ~(from <= to + 1)
      <3>1. 1 .. to - from + 1 = {}
        BY <2>3
      <3>2. Calls(n, cell, from, to) = <<>>
        BY <1>2, <3>1 DEF Calls
      <3> QED
        BY <3>2
    <2> QED
      BY <2>2, <2>3, Zenon
  <1> QED
    BY <1>1, <1>2, Zenon

LEMMA TypeStep == IInv /\ [Next]_vars => TypeOK'
  <1> SUFFICES ASSUME IInv, [Next]_vars PROVE TypeOK'
    OBVIOUS
  <1>0. TreeType /\ ClientType /\ SubType /\ DispType /\ UpcType /\ PubType
    BY TypeSplit, Zenon DEF IInv
  <1> SUFFICES (TreeType /\ ClientType /\ SubType /\ DispType /\ UpcType /\ PubType)'
    BY TypeSplit, Zenon DEF TypeOK, TreeType, ClientType, SubType, DispType, UpcType, PubType
  <1>1. ASSUME NEW s \in Subs, SubscribeStart(s) PROVE (TreeType /\ ClientType /\ SubType /\ DispType /\ UpcType /\ PubType)'
    <2>1. SubType'
      BY <1>0, <1>1, Zenon DEF SubscribeStart, SubType, subVars
    <2>2. DispType'
      BY <1>0, <1>1, Zenon DEF SubscribeStart, DispType, GoTo
    <2> QED
      BY <1>0, <1>1, <2>1, <2>2, TypeFrame, Zenon DEF SubscribeStart
  <1>2. ASSUME NEW s \in Subs, AddSubDescend(s) PROVE (TreeType /\ ClientType /\ SubType /\ DispType /\ UpcType /\ PubType)'
    <2>1. SubType'
      <3>1. NextCell(s) \in Cell
        BY <1>2, NextCellType, Zenon DEF IInv, AddSubDescend
      <3>2. at[s] \in Node
        BY <1>0, Zenon DEF SubType
      <3>3. children[at[s]][NextCell(s)] \in Node
        BY <1>0, <1>2, <3>1, <3>2 DEF AddSubDescend, TreeType
      <3> QED
        BY <1>0, <1>2, <3>3, Zenon DEF AddSubDescend, SubType
    <2> QED
      BY <1>0, <1>2, <2>1, TypeFrame, Zenon DEF AddSubDescend
  <1>3. ASSUME NEW s \in Subs, AddSubBuild(s) PROVE (TreeType /\ ClientType /\ SubType /\ DispType /\ UpcType /\ PubType)'
    <2>1. TreeType'
      <3>1. children' \in [Node -> [Cell -> Node \cup {Nil}]]
        <4>1. ASSUME NEW n \in Node, n.by = s, Len(n.path) \in Depth(s) + 1 .. Len(uriOf[s]) - 1
              PROVE  [children[n] EXCEPT ![uriOf[s][Len(n.path) + 1]] =
                        [path |-> SubSeq(uriOf[s], 1, Len(n.path) + 1), by |-> s]]
                       \in [Cell -> Node \cup {Nil}]
          <5>1. Depth(s) + 1 \in 1 .. Len(uriOf[s])
            BY <1>3, NextCellType, Zenon DEF IInv, AddSubBuild
          <5>2. Len(n.path) + 1 \in 1 .. Len(uriOf[s])
            BY <4>1, <5>1, UriType
          <5>3. [path |-> SubSeq(uriOf[s], 1, Len(n.path) + 1), by |-> s] \in Node
            BY <5>2, OwnNode, Zenon
          <5> QED
            BY <1>0, <5>3, Zenon DEF TreeType
        <4> QED
          BY <1>0, <1>3, <4>1, Zenon DEF AddSubBuild, TreeType
      <3>2. subz' \in [Node -> Seq(Subs)]
        <4>1. <<s>> \in Seq(Subs)
          OBVIOUS
        <4> QED
          BY <1>0, <1>3, <4>1, Zenon DEF AddSubBuild, TreeType
      <3> QED
        BY <1>0, <1>3, <3>1, <3>2, Zenon DEF AddSubBuild, TreeType
    <2>2. SubType'
      BY <1>0, <1>3, Zenon DEF AddSubBuild, SubType, subVars
    <2> QED
      BY <1>0, <1>3, <2>1, <2>2, TypeFrame, Zenon DEF AddSubBuild
  <1>4. ASSUME NEW s \in Subs, AddSubLink(s) PROVE (TreeType /\ ClientType /\ SubType /\ DispType /\ UpcType /\ PubType)'
    <2>1. TreeType'
      <3>1. Depth(s) + 1 \in 1 .. Len(uriOf[s])
        BY <1>4, NextCellType, Zenon DEF IInv, AddSubLink, Walks
      <3>2. [path |-> SubSeq(uriOf[s], 1, Depth(s) + 1), by |-> s] \in Node
        BY <3>1, OwnNode, Zenon
      <3>3. children' \in [Node -> [Cell -> Node \cup {Nil}]]
        BY <1>0, <1>4, <3>2, Zenon DEF AddSubLink, TreeType
      <3> QED
        BY <1>0, <1>4, <3>3, Zenon DEF AddSubLink, TreeType
    <2>2. SubType'
      BY <1>0, <1>4, LeafNode, Zenon DEF AddSubLink, SubType
    <2> QED
      BY <1>0, <1>4, <2>1, <2>2, TypeFrame, Zenon DEF AddSubLink
  <1>5. ASSUME NEW s \in Subs, AddSubRead(s) PROVE (TreeType /\ ClientType /\ SubType /\ DispType /\ UpcType /\ PubType)'
    <2>1. SubType'
      <3>1. at[s] \in Node
        BY <1>0, Zenon DEF SubType
      <3>2. \A v \in Views(at[s]) : v \in Seq(Subs)
        BY <3>1, ViewsType, Zenon DEF IInv
      <3> QED
        BY <1>0, <1>5, <3>2, Zenon DEF AddSubRead, SubType
    <2> QED
      BY <1>0, <1>5, <2>1, TypeFrame, Zenon DEF AddSubRead
  <1>6. ASSUME NEW s \in Subs, AddSubAppend(s) PROVE (TreeType /\ ClientType /\ SubType /\ DispType /\ UpcType /\ PubType)'
    <2>1. TreeType'
      <3> DEFINE now == subz[at[s]]
                 inPlace == [i \in DOMAIN seen[s] |-> IF i \in DOMAIN now THEN now[i] ELSE seen[s][i]]
      <3>1. seen[s] \in Seq(Subs) /\ at[s] \in Node /\ now \in Seq(Subs)
        BY <1>0, Zenon DEF SubType, TreeType
      <3>2. inPlace \in Seq(Subs)
        <4>1. DOMAIN seen[s] = 1 .. Len(seen[s]) /\ Len(seen[s]) \in Nat
          BY <3>1
        <4>2. \A i \in DOMAIN seen[s] : (IF i \in DOMAIN now THEN now[i] ELSE seen[s][i]) \in Subs
          BY <3>1
        <4>3. inPlace \in [1 .. Len(seen[s]) -> Subs]
          BY <4>1, <4>2, Zenon
        <4> QED
          BY <4>1, <4>3
      <3>3. PICK base \in {seen[s], inPlace} : subz' = [subz EXCEPT ![at[s]] = Append(base, s)]
        BY <1>6, Zenon DEF AddSubAppend
      <3>4. Append(base, s) \in Seq(Subs)
        BY <3>1, <3>2
      <3> QED
        BY <1>0, <1>6, <3>3, <3>4, Zenon DEF AddSubAppend, TreeType
    <2>2. SubType'
      BY <1>0, <1>6 DEF AddSubAppend, SubType, subVars
    <2> QED
      BY <1>0, <1>6, <2>1, <2>2, TypeFrame, Zenon DEF AddSubAppend
  <1>7. ASSUME NEW s \in Subs, AddSubRegister(s) PROVE (TreeType /\ ClientType /\ SubType /\ DispType /\ UpcType /\ PubType)'
    <2>1. TreeType'
      BY <1>0, <1>7, TerminusAssumption, Zenon DEF AddSubRegister, TreeType, SubType
    <2>2. SubType'
      BY <1>0, <1>7, Zenon DEF AddSubRegister, SubType, subVars
    <2> QED
      BY <1>0, <1>7, <2>1, <2>2, TypeFrame, Zenon DEF AddSubRegister
  <1>8. ASSUME NEW s \in Subs, RecordSub(s) PROVE (TreeType /\ ClientType /\ SubType /\ DispType /\ UpcType /\ PubType)'
    <2>1. ClientType'
      <3>1. clientOf[s] \in Clients /\ idOf[s] \in SubIds
        BY TerminusAssumption, Zenon
      <3>2. clsubs' \in [Clients -> SUBSET SubIds]
        BY <1>0, <1>8, <3>1 DEF RecordSub, ClientType
      <3> QED
        BY <1>0, <1>8, <3>2, Zenon DEF RecordSub, ClientType
    <2>2. SubType'
      BY <1>0, <1>8, Zenon DEF RecordSub, SubType, subVars
    <2> QED
      BY <1>0, <1>8, <2>1, <2>2, TypeFrame, Zenon DEF RecordSub
  <1>9. ASSUME NEW s \in Subs, DispatchTake(s) PROVE (TreeType /\ ClientType /\ SubType /\ DispType /\ UpcType /\ PubType)'
    <2>1. DispType'
      <3>1. mqueue[s] \in Seq(Pubs) /\ Len(mqueue[s]) <= QueueCap
        BY <1>0, Zenon DEF DispType
      <3>2. /\ Tail(mqueue[s]) \in Seq(Pubs) /\ Head(mqueue[s]) \in Pubs
            /\ Len(Tail(mqueue[s])) <= QueueCap
        BY <3>1, <1>9, TerminusAssumption DEF DispatchTake
      <3> QED
        BY <1>0, <1>9, <3>2, ZenonT(30) DEF DispatchTake, DispType, GoTo
    <2> QED
      BY <1>0, <1>9, <2>1, TypeFrame, Zenon DEF DispatchTake
  <1>10. ASSUME NEW s \in Subs, DispatchHandle(s) PROVE (TreeType /\ ClientType /\ SubType /\ DispType /\ UpcType /\ PubType)'
    <2>1. DispType'
      <3>1. log[s] \in Seq(Pubs \cup {Nil}) /\ cur[s] \in Pubs \cup {Nil} /\ late[s] \in Nat
        BY <1>0, Zenon DEF DispType
      <3>2. Append(log[s], cur[s]) \in Seq(Pubs \cup {Nil})
        BY <3>1, SMTT(20)
      <3>3. (IF Done(s) THEN late[s] + 1 ELSE late[s]) \in Nat
        BY <3>1
      <3> QED
        BY <1>0, <1>10, <3>2, <3>3, Zenon DEF DispatchHandle, DispType, GoTo
    <2> QED
      BY <1>0, <1>10, <2>1, TypeFrame, Zenon DEF DispatchHandle
  <1>11. ASSUME NEW s \in Subs, DispatchDone(s) PROVE (TreeType /\ ClientType /\ SubType /\ DispType /\ UpcType /\ PubType)'
    <2>1. DispType'
      BY <1>0, <1>11, Zenon DEF DispatchDone, DispType, GoTo
    <2> QED
      BY <1>0, <1>11, <2>1, TypeFrame, Zenon DEF DispatchDone
  <1>12. ASSUME NEW s \in Subs, DispatchUnsub(s) PROVE (TreeType /\ ClientType /\ SubType /\ DispType /\ UpcType /\ PubType)'
    <2>1. TreeType'
      <3>1. Dispatch(s) \in Thread /\ idOf[s] \in SubIds
        BY ThreadType, TerminusAssumption, Zenon
      <3> QED
        BY <1>0, <1>12, <3>1, UnsubscribeType, TypeFrame, Zenon DEF DispatchUnsub
    <2>2. DispType'
      <3>1. Dispatch(s) \in Thread
        BY ThreadType, Zenon
      <3>2. toTerm \in [Thread -> SUBSET Subs] /\ cancelled \in SUBSET Subs
        BY <1>0, Zenon DEF DispType
      <3>3. toTerm' \in [Thread -> SUBSET Subs] /\ cancelled' \in SUBSET Subs
        BY <1>12, <3>1, <3>2, ToTermType, Zenon DEF DispatchUnsub
      <3> QED
        BY <1>0, <1>12, <3>3, Zenon DEF DispatchUnsub, DispType, GoTo
    <2> QED
      BY <1>0, <1>12, <2>1, <2>2, TypeFrame, Zenon DEF DispatchUnsub, treeVars
  <1>13. ASSUME NEW s \in Subs, DispatchEnd(s) PROVE (TreeType /\ ClientType /\ SubType /\ DispType /\ UpcType /\ PubType)'
    <2>1. DispType'
      BY <1>0, <1>13 DEF DispatchEnd, DispType, GoTo
    <2> QED
      BY <1>0, <1>13, <2>1, TypeFrame, Zenon DEF DispatchEnd
  <1>14. ASSUME NEW c \in Clients, CreateClient(c) PROVE (TreeType /\ ClientType /\ SubType /\ DispType /\ UpcType /\ PubType)'
    <2>1. ClientType'
      BY <1>0, <1>14, Zenon DEF CreateClient, ClientType, clientVars
    <2> QED
      BY <1>0, <1>14, <2>1, TypeFrame, Zenon DEF CreateClient
  <1>15. ASSUME NEW c \in Clients, ListClient(c) PROVE (TreeType /\ ClientType /\ SubType /\ DispType /\ UpcType /\ PubType)'
    <2>1. ClientType'
      BY <1>0, <1>15, Zenon DEF ListClient, ClientType, clientVars
    <2> QED
      BY <1>0, <1>15, <2>1, TypeFrame, Zenon DEF ListClient
  <1>16. ASSUME NEW c \in Clients, CtxDone(c) PROVE (TreeType /\ ClientType /\ SubType /\ DispType /\ UpcType /\ PubType)'
    <2>1. ClientType'
      BY <1>0, <1>16, Zenon DEF CtxDone, ClientType, clientVars
    <2> QED
      BY <1>0, <1>16, <2>1, TypeFrame, Zenon DEF CtxDone
  <1>17. ASSUME NEW c \in Clients, CleanupLock(c) PROVE (TreeType /\ ClientType /\ SubType /\ DispType /\ UpcType /\ PubType)'
    <2>1. TreeType'
      BY <1>0, <1>17, ThreadType DEF CleanupLock, TreeType, ClientType, Holding
    <2>2. ClientType'
      BY <1>0, <1>17, Zenon DEF CleanupLock, ClientType, clientVars
    <2> QED
      BY <1>0, <1>17, <2>1, <2>2, TypeFrame, Zenon DEF CleanupLock
  <1>18. ASSUME NEW c \in Clients, CleanupRead(c) PROVE (TreeType /\ ClientType /\ SubType /\ DispType /\ UpcType /\ PubType)'
    <2>1. TreeType'
      <3>1. Cleanup(c) \in Thread /\ rlock \in Holding
        BY <1>0, <1>18, ThreadType, Zenon DEF CleanupRead, Holds, TreeType
      <3>2. PICK id \in rlock.todo :
              \/ rstree[id] # Nil /\ Read(Cleanup(c), id, {s \in Subs : clientOf[s] # c}, rlock.todo \ {id})
              \/ rlock' = [rlock EXCEPT !.todo = @ \ {id}]
        BY <1>18, Zenon DEF CleanupRead
      <3>3. id \in SubIds /\ rlock.todo \ {id} \in SUBSET SubIds
        BY <3>1, <3>2, Zenon DEF Holding
      <3>4. rlock' \in Holding
        <4>1. CASE rlock' = [rlock EXCEPT !.todo = @ \ {id}]
          BY <3>1, <3>3, <4>1, Zenon DEF Holding
        <4>2. CASE rstree[id] # Nil /\ Read(Cleanup(c), id, {s \in Subs : clientOf[s] # c}, rlock.todo \ {id})
          BY <1>0, <3>1, <3>3, <4>2, ReadType, Zenon
        <4> QED
          BY <3>2, <4>1, <4>2, Zenon
      <3> QED
        BY <1>0, <1>18, <3>4, Zenon DEF CleanupRead, TreeType
    <2> QED
      BY <1>0, <1>18, <2>1, TypeFrame, Zenon DEF CleanupRead
  <1>19. ASSUME NEW c \in Clients, CleanupStore(c) PROVE (TreeType /\ ClientType /\ SubType /\ DispType /\ UpcType /\ PubType)'
    <2>1. TreeType'
      <3>1. subz' \in [Node -> Seq(Subs)] /\ rstree' \in [SubIds -> Node \cup {Nil}]
        BY <1>0, <1>19, StoreType, Zenon DEF CleanupStore, Holds
      <3>2. rlock \in Holding
        BY <1>0, <1>19, Zenon DEF CleanupStore, Holds, TreeType
      <3>3. rlock' \in Holding
        <4>1. rlock' = [owner |-> rlock.owner, id |-> Nil, node |-> Nil, old |-> <<>>,
                        kept |-> <<>>, todo |-> rlock.todo]
          BY <1>19, <3>2, Zenon DEF CleanupStore, Holding
        <4> QED
          BY <3>2, <4>1 DEF Holding
      <3> QED
        BY <1>0, <1>19, <3>1, <3>3, Zenon DEF CleanupStore, TreeType
    <2> QED
      BY <1>0, <1>19, <2>1, TypeFrame, Zenon DEF CleanupStore
  <1>20. ASSUME NEW c \in Clients, CleanupUnlock(c) PROVE (TreeType /\ ClientType /\ SubType /\ DispType /\ UpcType /\ PubType)'
    <2>1. TreeType'
      BY <1>0, <1>20, Zenon DEF CleanupUnlock, TreeType, Holding
    <2>2. ClientType'
      BY <1>0, <1>20, Zenon DEF CleanupUnlock, ClientType, clientVars
    <2> QED
      BY <1>0, <1>20, <2>1, <2>2, TypeFrame, Zenon DEF CleanupUnlock
  <1>21. ASSUME NEW c \in Clients, CleanupUnlist(c) PROVE (TreeType /\ ClientType /\ SubType /\ DispType /\ UpcType /\ PubType)'
    <2>1. ClientType'
      BY <1>0, <1>21, Zenon DEF CleanupUnlist, ClientType, clientVars
    <2> QED
      BY <1>0, <1>21, <2>1, TypeFrame, Zenon DEF CleanupUnlist
  <1>22. ASSUME NEW p \in Pubs, PublishStart(p) PROVE (TreeType /\ ClientType /\ SubType /\ DispType /\ UpcType /\ PubType)'
    <2>1. PubType'
      <3>1. <<[node |-> Root, pos |-> 0]>> \in Seq(Frame)
        BY DEF Frame, Node
      <3> QED
        BY <1>0, <1>22, <3>1, Zenon DEF PublishStart, PubType
    <2> QED
      BY <1>0, <1>22, <2>1, TypeFrame, Zenon DEF PublishStart
  <1>23. ASSUME NEW p \in Pubs, PublishMatch(p) PROVE (TreeType /\ ClientType /\ SubType /\ DispType /\ UpcType /\ PubType)'
    <2>1. PubType'
      <3> DEFINE f == Head(stack[p])
      <3>1. stack[p] \in Seq(Frame) /\ stack[p] # <<>> /\ list[p] \in Seq(Subs)
        BY <1>0, <1>23, Zenon DEF PublishMatch, PubType
      <3>2. Tail(stack[p]) \in Seq(Frame) /\ f \in Frame
        BY <3>1
      <3>3. f.node \in Node /\ f.pos \in Nat
        BY <3>2, Zenon DEF Frame
      <3>4. Len(topicOf[p]) \in Nat
        BY TerminusAssumption
      <3>5. CASE AtEnd(p, f)
        <4>1. PICK v \in Views(f.node) : list' = [list EXCEPT ![p] = @ \o v]
          BY <1>23, <3>5, Zenon DEF PublishMatch
        <4>2. v \in Seq(Subs)
          BY <3>3, <4>1, ViewsType, Zenon DEF IInv
        <4>3. list[p] \o v \in Seq(Subs)
          BY <3>1, <4>2
        <4> QED
          BY <1>0, <1>23, <3>2, <3>5, <4>1, <4>3, Zenon DEF PublishMatch, PubType
      <3>6. CASE ~AtEnd(p, f)
        <4> DEFINE a == Calls(f.node, topicOf[p][f.pos + 1], f.pos + 1, f.pos + 1)
                   b == Calls(f.node, "+", f.pos + 1, f.pos + 1)
                   d == Calls(f.node, "*", f.pos, Len(topicOf[p]))
        <4>1. a \in Seq(Frame) /\ b \in Seq(Frame) /\ d \in Seq(Frame)
          BY <1>0, <3>3, <3>4, CallsType
        <4> HIDE DEF a, b, d
        <4>2. a \o b \o d \o Tail(stack[p]) \in Seq(Frame)
          BY <3>2, <4>1
        <4>3. stack' = [stack EXCEPT ![p] = a \o b \o d \o Tail(stack[p])] /\ UNCHANGED list
          BY <1>23, <3>6, Zenon DEF PublishMatch, a, b, d
        <4> QED
          BY <1>0, <1>23, <4>2, <4>3, Zenon DEF PublishMatch, PubType
      <3> QED
        BY <3>5, <3>6, Zenon
    <2> QED
      BY <1>0, <1>23, <2>1, TypeFrame, Zenon DEF PublishMatch
  <1>24. ASSUME NEW p \in Pubs, PublishShuffle(p) PROVE (TreeType /\ ClientType /\ SubType /\ DispType /\ UpcType /\ PubType)'
    <2>1. PubType'
      <3>1. list[p] \in Seq(Subs)
        BY <1>0, Zenon DEF PubType
      <3>2. PICK q \in IF consumers[p] # 0 THEN Permuted(list[p]) ELSE {list[p]} :
              list' = [list EXCEPT ![p] = q]
        BY <1>24, Zenon DEF PublishShuffle
      <3>3. q \in Seq(Subs)
        BY <3>1, <3>2, PermutedType, Zenon
      <3> QED
        BY <1>0, <1>24, <3>2, <3>3, Zenon DEF PublishShuffle, PubType
    <2> QED
      BY <1>0, <1>24, <2>1, TypeFrame, Zenon DEF PublishShuffle
  <1>25. ASSUME NEW p \in Pubs, PublishSend(p) PROVE (TreeType /\ ClientType /\ SubType /\ DispType /\ UpcType /\ PubType)'
    <2>1. DispType'
      <3> DEFINE s == Head(list[p])
      <3>1. s \in Subs
        BY <1>0, <1>25 DEF PublishSend, PubType
      <3>2. mqueue[s] \in Seq(Pubs) /\ Len(mqueue[s]) <= QueueCap
        BY <1>0, <3>1, Zenon DEF DispType
      <3>3. Room(s) => Append(mqueue[s], p) \in Seq(Pubs) /\ Len(Append(mqueue[s], p)) <= QueueCap
        BY <3>2, TerminusAssumption DEF Room
      <3> HIDE DEF s
      <3>4. \/ UNCHANGED mqueue
            \/ Room(s) /\ mqueue' = [mqueue EXCEPT ![s] = Append(@, p)]
        BY <1>25, Zenon DEF PublishSend, Enqueue, s
      <3>5. mqueue' \in [Subs -> Seq(Pubs)] /\ \A u \in Subs : Len(mqueue'[u]) <= QueueCap
        BY <1>0, <3>1, <3>3, <3>4, Zenon DEF DispType
      <3>6. cancelled' \in SUBSET Subs
        BY <1>0, <1>25, <3>1, Zenon DEF PublishSend, DispType, s
      <3> QED
        BY <1>0, <1>25, <3>5, <3>6, Zenon DEF PublishSend, DispType
    <2>2. PubType'
      <3>1. list[p] \in Seq(Subs) /\ list[p] # <<>> /\ count[p] \in Nat
        BY <1>0, <1>25, Zenon DEF PublishSend, PubType
      <3>2. Tail(list[p]) \in Seq(Subs) /\ count[p] + 1 \in Nat
        BY <3>1
      <3> QED
        BY <1>0, <1>25, <3>2, Zenon DEF PublishSend, PubType
    <2> QED
      BY <1>0, <1>25, <2>1, <2>2, TypeFrame, Zenon DEF PublishSend
  <1>26. ASSUME NEW p \in Pubs, PublishEnd(p) PROVE (TreeType /\ ClientType /\ SubType /\ DispType /\ UpcType /\ PubType)'
    <2>1. PubType'
      BY <1>0, <1>26, Zenon DEF PublishEnd, PubType, pubVars
    <2> QED
      BY <1>0, <1>26, <2>1, TypeFrame, Zenon DEF PublishEnd
  <1>27. ASSUME NEW id \in SubIds, CallerUnsub(id) PROVE (TreeType /\ ClientType /\ SubType /\ DispType /\ UpcType /\ PubType)'
    <2>1. TreeType'
      <3>1. Caller(id) \in Thread
        BY ThreadType, Zenon
      <3> QED
        BY <1>0, <1>27, <3>1, UnsubscribeType, TypeFrame, Zenon DEF CallerUnsub
    <2>2. DispType'
      <3>1. Caller(id) \in Thread
        BY ThreadType, Zenon
      <3>2. toTerm \in [Thread -> SUBSET Subs] /\ cancelled \in SUBSET Subs
        BY <1>0, Zenon DEF DispType
      <3>3. toTerm' \in [Thread -> SUBSET Subs] /\ cancelled' \in SUBSET Subs
        BY <1>27, <3>1, <3>2, ToTermType, Zenon DEF CallerUnsub
      <3> QED
        BY <1>0, <1>27, <3>3, Zenon DEF CallerUnsub, DispType
    <2>3. UpcType'
      BY <1>0, <1>27, Zenon DEF CallerUnsub, UpcType, Caller
    <2> QED
      BY <1>0, <1>27, <2>1, <2>2, <2>3, TypeFrame, Zenon DEF CallerUnsub, treeVars
  <1>28. CASE UNCHANGED vars
    BY <1>0, <1>28, TypeFrame, Zenon DEF vars
  <1> QED
    BY <1>1, <1>2, <1>3, <1>4, <1>5, <1>6, <1>7, <1>8, <1>9, <1>10, <1>11, <1>12, <1>13, <1>14, <1>15, <1>16, <1>17, <1>18, <1>19, <1>20, <1>21, <1>22, <1>23, <1>24, <1>25, <1>26, <1>27, <1>28, TerminusAssumption, Zenon
       DEF Next, SubStep, DispatchStep, CleanupStep, ClientStep, PubStep

-----------------------------------------------------------------------------
(* The tree *)

\* A node knows a prefix of the URI it was allocated for.
LEMMA OwnPath ==
  ASSUME NEW n \in Node, NEW s \in Subs, n.by = s
  PROVE  /\ Len(n.path) \in 1 .. Len(uriOf[s])
         /\ n.path = SubSeq(uriOf[s], 1, Len(n.path))
  <1>1. n # Root
    BY TerminusAssumption DEF Root
  <1>2. PICK u \in Subs : \E k \in 1 .. Len(uriOf[u]) : n = [path |-> SubSeq(uriOf[u], 1, k), by |-> u]
    BY <1>1, Zenon DEF Node
  <1>3. PICK k \in 1 .. Len(uriOf[s]) : n.path = SubSeq(uriOf[s], 1, k)
    BY <1>2
  <1>4. Len(n.path) = k
    BY <1>3, UriType
  <1> QED
    BY <1>3, <1>4, Zenon

LEMMA PrefixAppend ==
  ASSUME NEW s \in Subs, NEW k \in 0 .. Len(uriOf[s]), k < Len(uriOf[s])
  PROVE  SubSeq(uriOf[s], 1, k + 1) = Append(SubSeq(uriOf[s], 1, k), uriOf[s][k + 1])
  <1>1. uriOf[s] \in Seq(STRING) /\ Len(uriOf[s]) \in Nat
    BY UriType, Zenon
  <1> QED
    BY <1>1

LEMMA FilteredOnPath ==
  ASSUME NEW q \in Seq(Subs), NEW path, OnPath(q, path), NEW keep \in SUBSET Subs,
         NEW r \in Filtered(q, keep)
  PROVE  OnPath(r, path)
  BY FilteredType DEF OnPath

LEMMA ReadShape ==
  ASSUME TypeOK, SubzShape, NEW t \in Thread, NEW id \in SubIds, NEW keep \in SUBSET Subs,
         NEW todo \in SUBSET SubIds, rstree[id] # Nil, Read(t, id, keep, todo), UNCHANGED subz
  PROVE  SubzShape'
  <1>1. rstree[id] \in Node /\ subz[rstree[id]] \in Seq(Subs)
    BY DEF TypeOK
  <1>2. PICK kept \in Filtered(subz[rstree[id]], keep) :
          rlock' = [owner |-> t, id |-> id, node |-> rstree[id], old |-> subz[rstree[id]],
                    kept |-> kept, todo |-> todo]
    BY Zenon DEF Read
  <1>3. OnPath(kept, rstree[id].path)
    BY <1>1, FilteredOnPath, Zenon DEF SubzShape
  <1>4. rlock'.kept = kept /\ rlock'.node = rstree[id]
    BY <1>2, Zenon
  <1> QED
    BY <1>3, <1>4, Zenon DEF SubzShape, OnPath

LEMMA StoreShape ==
  ASSUME TypeOK, SubzShape, rlock # Nil, Store
  PROVE  \A n \in Node : OnPath(subz'[n], n.path)
  <1> SUFFICES ASSUME NEW n \in Node PROVE OnPath(subz'[n], n.path)
    OBVIOUS
  <1>1. CASE rlock.node = n
    <2>1. OnPath(rlock.kept, n.path)
      BY <1>1, TerminusAssumption, Zenon DEF SubzShape
    <2>2. subz'[n] = rlock.kept
      BY <1>1, Zenon DEF Store, TypeOK
    <2> QED
      BY <2>1, <2>2, Zenon
  <1>2. CASE rlock.node # n
    <2>1. subz'[n] = subz[n]
      BY <1>2, Zenon DEF Store, TypeOK
    <2> QED
      BY <2>1, Zenon DEF SubzShape
  <1> QED
    BY <1>1, <1>2, Zenon

LEMMA UnsubscribeShape ==
  ASSUME TypeOK, SubzShape, NEW t \in Thread, NEW id \in SubIds
  PROVE  /\ UnsubscribeRead(t, id) => SubzShape'
         /\ UnsubscribeStore(t) => SubzShape'
  <1>1. ASSUME UnsubscribeRead(t, id) PROVE SubzShape'
    <2> DEFINE keep == {s \in Subs : idOf[s] # id}
    <2>1. rstree[id] # Nil /\ Read(t, id, keep, {}) /\ UNCHANGED subz
      BY <1>1, Zenon DEF UnsubscribeRead
    <2>2. keep \in SUBSET Subs /\ {} \in SUBSET SubIds
      OBVIOUS
    <2> HIDE DEF keep
    <2> QED
      BY <2>1, <2>2, ReadShape, Zenon
  <1>2. ASSUME UnsubscribeStore(t) PROVE SubzShape'
    <2>1. rlock # Nil /\ Store /\ rlock' = Nil
      BY <1>2, Zenon DEF UnsubscribeStore, Holds
    <2>2. \A n \in Node : OnPath(subz'[n], n.path)
      BY <2>1, StoreShape, Zenon
    <2> QED
      BY <2>1, <2>2, Zenon DEF SubzShape, OnPath
  <1> QED
    BY <1>1, <1>2, Zenon

LEMMA StepChildren ==
  ASSUME [Next]_vars
  PROVE  \/ UNCHANGED children
         \/ \E s \in Subs : AddSubBuild(s) \/ AddSubLink(s)
  <1> DEFINE Kept == UNCHANGED children
  <1>1. ASSUME NEW s \in Subs,
              SubscribeStart(s) \/ AddSubDescend(s) \/ AddSubRead(s) \/
              AddSubAppend(s) \/ AddSubRegister(s) \/ RecordSub(s)
        PROVE  Kept
    BY <1>1, Zenon DEF SubscribeStart, AddSubDescend, AddSubRead, AddSubAppend, AddSubRegister,
                RecordSub, treeVars, clientVars, subVars, dispVars, pubVars, GoTo
  <1>2. ASSUME NEW s \in Subs,
              DispatchTake(s) \/ DispatchHandle(s) \/ DispatchDone(s) \/
              DispatchUnsub(s) \/ DispatchEnd(s)
        PROVE  Kept
    BY <1>2, Zenon DEF DispatchTake, DispatchHandle, DispatchDone, DispatchUnsub, DispatchEnd, treeVars,
                clientVars, subVars, dispVars, pubVars, UnsubscribeRead, UnsubscribeStore,
                UnsubscribeTerm, GoTo
  <1>3. ASSUME NEW id \in Callers, CallerUnsub(id) PROVE Kept
    BY <1>3, Zenon DEF CallerUnsub, treeVars, clientVars, subVars, dispVars, pubVars, UnsubscribeRead,
                UnsubscribeStore, UnsubscribeTerm
  <1>4. ASSUME NEW c \in Clients,
              CreateClient(c) \/ ListClient(c) \/ CtxDone(c) \/ CleanupLock(c) \/
              CleanupRead(c) \/ CleanupStore(c) \/ CleanupUnlock(c) \/
              CleanupUnlist(c)
        PROVE  Kept
    BY <1>4, Zenon DEF CreateClient, ListClient, CtxDone, CleanupLock, CleanupRead, CleanupStore,
                CleanupUnlock, CleanupUnlist, treeVars, clientVars, subVars, dispVars, pubVars
  <1>5. ASSUME NEW p \in Pubs,
              PublishStart(p) \/ PublishMatch(p) \/ PublishShuffle(p) \/
              PublishSend(p) \/ PublishEnd(p)
        PROVE  Kept
    BY <1>5, Zenon DEF PublishStart, PublishMatch, PublishShuffle, PublishSend, PublishEnd, treeVars,
                clientVars, subVars, dispVars, pubVars
  <1>6. ASSUME UNCHANGED vars PROVE Kept
    BY <1>6, Zenon DEF vars, treeVars, clientVars, subVars, dispVars, pubVars
  <1> HIDE DEF Kept
  <1>7. CASE Next
    BY <1>1, <1>2, <1>3, <1>4, <1>5, <1>7, Zenon DEF Next, SubStep, DispatchStep, ClientStep, CleanupStep, PubStep, Kept
  <1> QED
    BY <1>6, <1>7, Zenon DEF Kept

LEMMA ChildrenStep == IInv /\ [Next]_vars => ChildrenShape'
  <1> SUFFICES ASSUME IInv, [Next]_vars PROVE ChildrenShape'
    OBVIOUS
  <1>0. TypeOK /\ ChildrenShape /\ Walks
    BY Zenon DEF IInv, Shape, ChildrenShape
  <1>1. ASSUME NEW s \in Subs, AddSubBuild(s) PROVE ChildrenShape'
    <2> SUFFICES ASSUME NEW n \in Node, NEW c \in Cell, children'[n][c] # Nil
                 PROVE  children'[n][c].path = Append(n.path, c)
      BY Zenon DEF ChildrenShape
    <2>1. CASE n.by = s /\ Len(n.path) \in Depth(s) + 1 .. Len(uriOf[s]) - 1 /\ c = uriOf[s][Len(n.path) + 1]
      <3>1. n.path = SubSeq(uriOf[s], 1, Len(n.path)) /\ Len(n.path) \in 0 .. Len(uriOf[s]) /\ Len(n.path) < Len(uriOf[s])
        BY <2>1, OwnPath, UriType
      <3>2. SubSeq(uriOf[s], 1, Len(n.path) + 1) = Append(n.path, c)
        BY <2>1, <3>1, PrefixAppend, Zenon
      <3>3. children'[n][c] = [path |-> SubSeq(uriOf[s], 1, Len(n.path) + 1), by |-> s]
        <4>1. children[n] \in [Cell -> Node \cup {Nil}]
          BY <1>0, Zenon DEF TypeOK
        <4> QED
          BY <1>1, <2>1, <4>1, Zenon DEF AddSubBuild
      <3> QED
        BY <3>2, <3>3
    <2>2. CASE ~(n.by = s /\ Len(n.path) \in Depth(s) + 1 .. Len(uriOf[s]) - 1 /\ c = uriOf[s][Len(n.path) + 1])
      <3>1. children'[n][c] = children[n][c]
        BY <1>0, <1>1, <2>2, ZenonT(30) DEF AddSubBuild, TypeOK
      <3> QED
        BY <1>0, <3>1, Zenon DEF ChildrenShape
    <2> QED
      BY <2>1, <2>2, Zenon
  <1>2. ASSUME NEW s \in Subs, AddSubLink(s) PROVE ChildrenShape'
    <2> SUFFICES ASSUME NEW n \in Node, NEW c \in Cell, children'[n][c] # Nil
                 PROVE  children'[n][c].path = Append(n.path, c)
      BY Zenon DEF ChildrenShape
    <2>1. CASE n = at[s] /\ c = NextCell(s)
      <3>1. Depth(s) \in 0 .. Len(uriOf[s]) /\ Depth(s) < Len(uriOf[s]) /\ at[s].path = SubSeq(uriOf[s], 1, Depth(s))
        BY <1>0, <1>2, Zenon DEF AddSubLink, Walks
      <3>2. SubSeq(uriOf[s], 1, Depth(s) + 1) = Append(n.path, c)
        BY <2>1, <3>1, PrefixAppend, Zenon DEF NextCell
      <3>3. children'[n][c] = [path |-> SubSeq(uriOf[s], 1, Depth(s) + 1), by |-> s]
        BY <1>0, <1>2, <2>1, Zenon DEF AddSubLink, TypeOK
      <3> QED
        BY <3>2, <3>3 DEF Depth
    <2>2. CASE ~(n = at[s] /\ c = NextCell(s))
      <3>1. children'[n][c] = children[n][c]
        BY <1>0, <1>2, <2>2, ZenonT(30) DEF AddSubLink, TypeOK
      <3> QED
        BY <1>0, <3>1, Zenon DEF ChildrenShape
    <2> QED
      BY <2>1, <2>2, Zenon
  <1>3. CASE UNCHANGED children
    BY <1>0, <1>3, Zenon DEF ChildrenShape
  <1> QED
    BY <1>1, <1>2, <1>3, StepChildren, Zenon

LEMMA StepSubz ==
  ASSUME [Next]_vars
  PROVE  \/ UNCHANGED <<subz, rlock>>
         \/ \E s \in Subs : AddSubBuild(s) \/ AddSubAppend(s) \/ DispatchUnsub(s)
         \/ \E id \in Callers : CallerUnsub(id)
         \/ \E c \in Clients :
              \/ CleanupLock(c) \/ CleanupRead(c) \/ CleanupStore(c) \/ CleanupUnlock(c)
  <1> DEFINE Kept == UNCHANGED <<subz, rlock>>
  <1>1. ASSUME NEW s \in Subs,
              SubscribeStart(s) \/ AddSubDescend(s) \/ AddSubLink(s) \/
              AddSubRead(s) \/ AddSubRegister(s) \/ RecordSub(s)
        PROVE  Kept
    BY <1>1, Zenon DEF SubscribeStart, AddSubDescend, AddSubLink, AddSubRead, AddSubRegister, RecordSub,
                treeVars, clientVars, subVars, dispVars, pubVars, GoTo
  <1>2. ASSUME NEW s \in Subs, DispatchTake(s) \/ DispatchHandle(s) \/ DispatchDone(s) \/ DispatchEnd(s) PROVE Kept
    BY <1>2, Zenon DEF DispatchTake, DispatchHandle, DispatchDone, DispatchEnd, treeVars, clientVars,
                subVars, dispVars, pubVars, GoTo
  <1>3. ASSUME NEW c \in Clients, CreateClient(c) \/ ListClient(c) \/ CtxDone(c) \/ CleanupUnlist(c) PROVE Kept
    BY <1>3, Zenon DEF CreateClient, ListClient, CtxDone, CleanupUnlist, treeVars, clientVars, subVars,
                dispVars, pubVars
  <1>4. ASSUME NEW p \in Pubs,
              PublishStart(p) \/ PublishMatch(p) \/ PublishShuffle(p) \/
              PublishSend(p) \/ PublishEnd(p)
        PROVE  Kept
    BY <1>4, Zenon DEF PublishStart, PublishMatch, PublishShuffle, PublishSend, PublishEnd, treeVars,
                clientVars, subVars, dispVars, pubVars
  <1>5. ASSUME UNCHANGED vars PROVE Kept
    BY <1>5, Zenon DEF vars, treeVars, clientVars, subVars, dispVars, pubVars
  <1> HIDE DEF Kept
  <1>6. CASE Next
    BY <1>1, <1>2, <1>3, <1>4, <1>6, Zenon DEF Next, SubStep, DispatchStep, ClientStep, CleanupStep, PubStep, Kept
  <1> QED
    BY <1>5, <1>6, Zenon DEF Kept

LEMMA SubzStep == IInv /\ [Next]_vars => SubzShape'
  <1> SUFFICES ASSUME IInv, [Next]_vars PROVE SubzShape'
    OBVIOUS
  <1>0. TypeOK /\ SubzShape /\ Walks
    BY Zenon DEF IInv, Shape, SubzShape
  <1>1. ASSUME NEW s \in Subs, AddSubBuild(s) PROVE SubzShape'
    <2>1. OnPath(<<s>>, uriOf[s])
      BY DEF OnPath
    <2> DEFINE leaf == [path |-> uriOf[s], by |-> s]
    <2>3. leaf.path = uriOf[s]
      OBVIOUS
    <2> HIDE DEF leaf
    <2>4. subz' = [subz EXCEPT ![leaf] = <<s>>]
      BY <1>1, Zenon DEF AddSubBuild, leaf
    <2>5. subz \in [Node -> Seq(Subs)]
      BY <1>0, Zenon DEF TypeOK
    <2>2. ASSUME NEW n \in Node PROVE OnPath(subz'[n], n.path)
      <3>1. OnPath(subz[n], n.path)
        BY <1>0, Zenon DEF SubzShape
      <3> QED
        BY <2>1, <2>3, <2>4, <2>5, <3>1, Zenon
    <2> QED
      BY <1>0, <1>1, <2>2, Zenon DEF AddSubBuild, SubzShape, OnPath
  <1>2. ASSUME NEW s \in Subs, AddSubAppend(s) PROVE SubzShape'
    <2> DEFINE now == subz[at[s]]
               inPlace == [i \in DOMAIN seen[s] |-> IF i \in DOMAIN now THEN now[i] ELSE seen[s][i]]
    <2>1. seen[s] \in Seq(Subs) /\ at[s] \in Node /\ now \in Seq(Subs) /\ at[s].path = uriOf[s]
      BY <1>0, <1>2, ZenonT(30) DEF TypeOK, Walks, AddSubAppend
    <2>2. OnPath(seen[s], uriOf[s]) /\ OnPath(now, uriOf[s])
      BY <1>0, <2>1, Zenon DEF IInv, Shape
    <2>3. inPlace \in Seq(Subs) /\ OnPath(inPlace, uriOf[s])
      <3>1. DOMAIN seen[s] = 1 .. Len(seen[s]) /\ Len(seen[s]) \in Nat
        BY <2>1
      <3>2. \A i \in DOMAIN seen[s] : (IF i \in DOMAIN now THEN now[i] ELSE seen[s][i]) \in Subs
        BY <2>1
      <3>3. inPlace \in [1 .. Len(seen[s]) -> Subs]
        BY <3>1, <3>2, Zenon
      <3> QED
        BY <2>2, <3>1, <3>3 DEF OnPath
    <2>4. PICK base \in {seen[s], inPlace} : subz' = [subz EXCEPT ![at[s]] = Append(base, s)]
      BY <1>2, Zenon DEF AddSubAppend
    <2>5. base \in Seq(Subs) /\ OnPath(base, uriOf[s])
      BY <2>1, <2>2, <2>3, <2>4, Zenon
    <2>6. OnPath(Append(base, s), uriOf[s])
      BY <2>5 DEF OnPath
    <2>7. ASSUME NEW n \in Node PROVE OnPath(subz'[n], n.path)
      BY <1>0, <2>1, <2>4, <2>6, ZenonT(30) DEF TypeOK, SubzShape
    <2> QED
      BY <1>0, <1>2, <2>7, Zenon DEF AddSubAppend, SubzShape, OnPath
  <1>3. ASSUME NEW s \in Subs, DispatchUnsub(s) PROVE SubzShape'
    <2>1. Dispatch(s) \in Thread /\ idOf[s] \in SubIds
      BY ThreadType, TerminusAssumption, Zenon
    <2>2. CASE UNCHANGED treeVars
      BY <1>0, <2>2, Zenon DEF SubzShape, treeVars
    <2> QED
      BY <1>0, <1>3, <2>1, <2>2, UnsubscribeShape, Zenon DEF DispatchUnsub
  <1>4. ASSUME NEW id \in Callers, CallerUnsub(id) PROVE SubzShape'
    <2>1. Caller(id) \in Thread /\ id \in SubIds
      BY ThreadType, TerminusAssumption, Zenon
    <2>2. CASE UNCHANGED treeVars
      BY <1>0, <2>2, Zenon DEF SubzShape, treeVars
    <2> QED
      BY <1>0, <1>4, <2>1, <2>2, UnsubscribeShape, Zenon DEF CallerUnsub
  <1>5. ASSUME NEW c \in Clients, CleanupLock(c) \/ CleanupUnlock(c) PROVE SubzShape'
    <2>1. UNCHANGED subz
      BY <1>5, Zenon DEF CleanupLock, CleanupUnlock
    <2>2. CleanupLock(c) => rlock'.node = Nil
      BY DEF CleanupLock
    <2>3. CleanupUnlock(c) => rlock' = Nil
      BY Zenon DEF CleanupUnlock
    <2> QED
      BY <1>0, <1>5, <2>1, <2>2, <2>3, Zenon DEF SubzShape, OnPath
  <1>6. ASSUME NEW c \in Clients, CleanupRead(c) PROVE SubzShape'
    <2>1. Cleanup(c) \in Thread /\ rlock \in Holding /\ rlock.node = Nil /\ UNCHANGED subz
      BY <1>0, <1>6, ThreadType, Zenon DEF CleanupRead, Holds, TypeOK
    <2>2. PICK id \in rlock.todo :
            \/ rstree[id] # Nil /\ Read(Cleanup(c), id, {s \in Subs : clientOf[s] # c}, rlock.todo \ {id})
            \/ rlock' = [rlock EXCEPT !.todo = @ \ {id}]
      BY <1>6, Zenon DEF CleanupRead
    <2>3. id \in SubIds /\ rlock.todo \ {id} \in SUBSET SubIds
      BY <2>1, <2>2, Zenon DEF Holding
    <2>4. CASE rlock' = [rlock EXCEPT !.todo = @ \ {id}]
      <3>1. rlock'.node = Nil
        BY <2>1, <2>4, Zenon DEF Holding
      <3> QED
        BY <1>0, <2>1, <3>1, Zenon DEF SubzShape, OnPath
    <2>5. CASE rstree[id] # Nil /\ Read(Cleanup(c), id, {s \in Subs : clientOf[s] # c}, rlock.todo \ {id})
      BY <1>0, <2>1, <2>3, <2>5, ReadShape, Zenon
    <2> QED
      BY <2>2, <2>4, <2>5, Zenon
  <1>7. ASSUME NEW c \in Clients, CleanupStore(c) PROVE SubzShape'
    <2>1. \A n \in Node : OnPath(subz'[n], n.path)
      BY <1>0, <1>7, StoreShape, Zenon DEF CleanupStore, Holds
    <2>2. rlock \in Holding
      BY <1>0, <1>7, Zenon DEF CleanupStore, Holds, TypeOK
    <2>3. rlock'.node = Nil
      BY <1>7, <2>2, Zenon DEF CleanupStore, Holding
    <2> QED
      BY <2>1, <2>3, Zenon DEF SubzShape, OnPath
  <1>8. CASE UNCHANGED <<subz, rlock>>
    BY <1>0, <1>8, Zenon DEF SubzShape
  <1> QED
    BY <1>1, <1>2, <1>3, <1>4, <1>5, <1>6, <1>7, <1>8, StepSubz, Zenon

LEMMA StepSeen ==
  ASSUME [Next]_vars
  PROVE  \/ UNCHANGED seen
         \/ \E s \in Subs : AddSubRead(s) \/ AddSubAppend(s)
  <1> DEFINE Kept == UNCHANGED seen
  <1>1. ASSUME NEW s \in Subs,
              SubscribeStart(s) \/ AddSubDescend(s) \/ AddSubBuild(s) \/
              AddSubLink(s) \/ AddSubRegister(s) \/ RecordSub(s)
        PROVE  Kept
    BY <1>1, Zenon DEF SubscribeStart, AddSubDescend, AddSubBuild, AddSubLink, AddSubRegister,
                RecordSub, treeVars, clientVars, subVars, dispVars, pubVars, GoTo
  <1>2. ASSUME NEW s \in Subs,
              DispatchTake(s) \/ DispatchHandle(s) \/ DispatchDone(s) \/
              DispatchUnsub(s) \/ DispatchEnd(s)
        PROVE  Kept
    BY <1>2, Zenon DEF DispatchTake, DispatchHandle, DispatchDone, DispatchUnsub, DispatchEnd, treeVars,
                clientVars, subVars, dispVars, pubVars, UnsubscribeRead, UnsubscribeStore,
                UnsubscribeTerm, GoTo
  <1>3. ASSUME NEW id \in Callers, CallerUnsub(id) PROVE Kept
    BY <1>3, Zenon DEF CallerUnsub, treeVars, clientVars, subVars, dispVars, pubVars, UnsubscribeRead,
                UnsubscribeStore, UnsubscribeTerm
  <1>4. ASSUME NEW c \in Clients,
              CreateClient(c) \/ ListClient(c) \/ CtxDone(c) \/ CleanupLock(c) \/
              CleanupRead(c) \/ CleanupStore(c) \/ CleanupUnlock(c) \/
              CleanupUnlist(c)
        PROVE  Kept
    BY <1>4, Zenon DEF CreateClient, ListClient, CtxDone, CleanupLock, CleanupRead, CleanupStore,
                CleanupUnlock, CleanupUnlist, treeVars, clientVars, subVars, dispVars, pubVars
  <1>5. ASSUME NEW p \in Pubs,
              PublishStart(p) \/ PublishMatch(p) \/ PublishShuffle(p) \/
              PublishSend(p) \/ PublishEnd(p)
        PROVE  Kept
    BY <1>5, Zenon DEF PublishStart, PublishMatch, PublishShuffle, PublishSend, PublishEnd, treeVars,
                clientVars, subVars, dispVars, pubVars
  <1>6. ASSUME UNCHANGED vars PROVE Kept
    BY <1>6, Zenon DEF vars, treeVars, clientVars, subVars, dispVars, pubVars
  <1> HIDE DEF Kept
  <1>7. CASE Next
    BY <1>1, <1>2, <1>3, <1>4, <1>5, <1>7, Zenon DEF Next, SubStep, DispatchStep, ClientStep, CleanupStep, PubStep, Kept
  <1> QED
    BY <1>6, <1>7, Zenon DEF Kept

LEMMA ShapeStep == IInv /\ [Next]_vars => Shape'
  <1> SUFFICES ASSUME IInv, [Next]_vars PROVE Shape'
    OBVIOUS
  <1>0. TypeOK /\ Shape /\ Walks /\ SeenShape
    BY Zenon DEF IInv, Shape, SeenShape
  <1>1. ASSUME NEW s \in Subs, AddSubRead(s) PROVE SeenShape'
    <2>1. at[s] \in Node /\ at[s].path = uriOf[s]
      BY <1>0, <1>1, UriType, Zenon DEF AddSubRead, Walks, TypeOK
    <2>2. \A v \in Views(at[s]) : OnPath(v, uriOf[s])
      BY <1>0, <2>1, ViewsOnPath, Zenon
    <2> QED
      BY <1>0, <1>1, <2>2, ZenonT(30) DEF AddSubRead, TypeOK, SeenShape
  <1>2. ASSUME NEW s \in Subs, AddSubAppend(s) PROVE SeenShape'
    BY <1>0, <1>2 DEF AddSubAppend, TypeOK, SeenShape, OnPath
  <1>3. ASSUME UNCHANGED seen PROVE SeenShape'
    BY <1>0, <1>3, Zenon DEF SeenShape
  <1>4. SeenShape'
    BY <1>1, <1>2, <1>3, StepSeen, Zenon
  <1> QED
    BY <1>4, ChildrenStep, SubzStep, Zenon DEF Shape, ChildrenShape, SubzShape, SeenShape

LEMMA StepWalks ==
  ASSUME [Next]_vars
  PROVE  \/ UNCHANGED <<pc, at>>
         \/ \E s \in Subs :
              \/ SubscribeStart(s) \/ AddSubDescend(s) \/ AddSubBuild(s) \/ AddSubLink(s)
              \/ AddSubRead(s) \/ AddSubAppend(s) \/ AddSubRegister(s) \/ RecordSub(s)
  <1> DEFINE Kept == UNCHANGED <<pc, at>>
  <1>1. ASSUME NEW s \in Subs,
              DispatchTake(s) \/ DispatchHandle(s) \/ DispatchDone(s) \/
              DispatchUnsub(s) \/ DispatchEnd(s)
        PROVE  Kept
    BY <1>1, Zenon DEF DispatchTake, DispatchHandle, DispatchDone, DispatchUnsub, DispatchEnd, treeVars,
                clientVars, subVars, dispVars, pubVars, UnsubscribeRead, UnsubscribeStore,
                UnsubscribeTerm, GoTo
  <1>2. ASSUME NEW id \in Callers, CallerUnsub(id) PROVE Kept
    BY <1>2, Zenon DEF CallerUnsub, treeVars, clientVars, subVars, dispVars, pubVars, UnsubscribeRead,
                UnsubscribeStore, UnsubscribeTerm
  <1>3. ASSUME NEW c \in Clients,
              CreateClient(c) \/ ListClient(c) \/ CtxDone(c) \/ CleanupLock(c) \/
              CleanupRead(c) \/ CleanupStore(c) \/ CleanupUnlock(c) \/
              CleanupUnlist(c)
        PROVE  Kept
    BY <1>3, Zenon DEF CreateClient, ListClient, CtxDone, CleanupLock, CleanupRead, CleanupStore,
                CleanupUnlock, CleanupUnlist, treeVars, clientVars, subVars, dispVars, pubVars
  <1>4. ASSUME NEW p \in Pubs,
              PublishStart(p) \/ PublishMatch(p) \/ PublishShuffle(p) \/
              PublishSend(p) \/ PublishEnd(p)
        PROVE  Kept
    BY <1>4, Zenon DEF PublishStart, PublishMatch, PublishShuffle, PublishSend, PublishEnd, treeVars,
                clientVars, subVars, dispVars, pubVars
  <1>5. ASSUME UNCHANGED vars PROVE Kept
    BY <1>5, Zenon DEF vars, treeVars, clientVars, subVars, dispVars, pubVars
  <1> HIDE DEF Kept
  <1>6. CASE Next
    BY <1>1, <1>2, <1>3, <1>4, <1>6, Zenon DEF Next, SubStep, DispatchStep, ClientStep, CleanupStep, PubStep, Kept
  <1> QED
    BY <1>5, <1>6, Zenon DEF Kept

LEMMA WalksStep == IInv /\ [Next]_vars => Walks'
  <1> SUFFICES ASSUME IInv, [Next]_vars PROVE Walks'
    OBVIOUS
  <1>0. TypeOK /\ ChildrenShape /\ Walks
    BY Zenon DEF IInv, Shape, ChildrenShape
  <1>1. ASSUME NEW s \in Subs, SubscribeStart(s) PROVE Walks'
    BY <1>0, <1>1, ZenonT(30) DEF SubscribeStart, TypeOK, Walks, Depth
  <1>2. ASSUME NEW s \in Subs, AddSubDescend(s) PROVE Walks'
    <2> DEFINE n == children[at[s]][NextCell(s)]
    <2>1. /\ Depth(s) \in 0 .. Len(uriOf[s]) /\ Depth(s) < Len(uriOf[s])
          /\ at[s].path = SubSeq(uriOf[s], 1, Depth(s)) /\ at[s] \in Node
      BY <1>0, <1>2, Zenon DEF AddSubDescend, Walks, TypeOK
    <2>2. n.path = Append(at[s].path, NextCell(s))
      BY <1>0, <1>2, <2>1, NextCellType, Zenon DEF AddSubDescend, ChildrenShape
    <2>3. n.path = SubSeq(uriOf[s], 1, Depth(s) + 1)
      BY <2>1, <2>2, PrefixAppend, Zenon DEF NextCell
    <2>4. Depth(s) + 1 \in 1 .. Len(uriOf[s]) /\ Len(n.path) = Depth(s) + 1
      BY <2>1, <2>3, UriType
    <2> HIDE DEF n
    <2>5. at' = [at EXCEPT ![s] = n] /\ UNCHANGED pc /\ pc[s] = "walk"
      BY <1>2, Zenon DEF AddSubDescend, n
    <2>6. at'[s] = n /\ \A u \in Subs : u # s => at'[u] = at[u]
      BY <1>0, <2>5, ZenonT(30) DEF TypeOK
    <2>7. Depth(s)' = Len(n.path) /\ \A u \in Subs : u # s => Depth(u)' = Depth(u)
      BY <2>6, Zenon DEF Depth
    <2>8. /\ Depth(s)' \in 0 .. Len(uriOf[s])
          /\ at'[s].path = SubSeq(uriOf[s], 1, Depth(s)')
      BY <2>3, <2>4, <2>6, <2>7, UriType
    <2>9. ASSUME NEW u \in Subs, u # s
          PROVE  at'[u] = at[u] /\ Depth(u)' = Depth(u) /\ pc'[u] = pc[u]
      BY <2>5, <2>6, <2>7, <2>9, Zenon
    <2> QED
      BY <1>0, <2>5, <2>8, <2>9, Zenon DEF Walks
  <1>3. ASSUME NEW s \in Subs, AddSubBuild(s) PROVE Walks'
    BY <1>0, <1>3, ZenonT(30) DEF AddSubBuild, TypeOK, Walks, Depth
  <1>4. ASSUME NEW s \in Subs, AddSubLink(s) PROVE Walks'
    BY <1>0, <1>4, ZenonT(30) DEF AddSubLink, TypeOK, Walks, Depth
  <1>5. ASSUME NEW s \in Subs, AddSubRead(s) PROVE Walks'
    <2>1. at[s].path = uriOf[s]
      BY <1>0, <1>5, UriType, Zenon DEF AddSubRead, Walks
    <2> QED
      BY <1>0, <1>5, <2>1, ZenonT(60) DEF AddSubRead, TypeOK, Walks, Depth
  <1>6. ASSUME NEW s \in Subs, AddSubAppend(s) \/ AddSubRegister(s) \/ RecordSub(s) PROVE Walks'
    <2>1. /\ UNCHANGED at
          /\ \E phase \in {"register", "record", "done"} : pc' = [pc EXCEPT ![s] = phase]
      BY <1>6, Zenon DEF AddSubAppend, AddSubRegister, RecordSub
    <2>2. /\ pc'[s] \in {"register", "record", "done"}
          /\ \A u \in Subs : u # s => pc'[u] = pc[u]
      BY <1>0, <2>1, ZenonT(30) DEF TypeOK
    <2>3. \A u \in Subs : at'[u] = at[u] /\ Depth(u)' = Depth(u)
      BY <2>1, Zenon DEF Depth
    <2> QED
      BY <1>0, <2>2, <2>3, Zenon DEF Walks
  <1>7. CASE UNCHANGED <<pc, at>>
    BY <1>0, <1>7, Zenon DEF Walks, Depth
  <1> QED
    BY <1>1, <1>2, <1>3, <1>4, <1>5, <1>6, <1>7, StepWalks, Zenon

-----------------------------------------------------------------------------
(* What Publish lists, queues and hands over stays within what matches. *)

\* The empty pattern consumes nothing: where rmatchSubs starts, at the root.
THEOREM MatchEmpty ==
  ASSUME NEW uri \in Seq(STRING)
  PROVE  MatchesUpTo(<<>>, uri, 0)
  <1> DEFINE f == [i \in 0 .. 0 |-> 0]
  <1>1. Len(uri) \in Nat /\ Len(<<>>) = 0
    OBVIOUS
  <1>2. f \in Splits(<<>>, uri)
    BY <1>1 DEF Splits
  <1>3. f[Len(<<>>)] = 0
    BY <1>1
  <1> QED
    BY <1>2, <1>3, Zenon DEF MatchesUpTo

\* One step down the tree: "*" consumes any number of further cells, "+" any
\* one cell and another cell exactly itself.
THEOREM MatchExtend ==
  ASSUME NEW S, NEW path \in Seq(S), NEW uri \in Seq(S), NEW c \in S,
         NEW k \in 0 .. Len(uri), NEW j \in 0 .. Len(uri),
         MatchesUpTo(path, uri, k),
         \/ c = "*" /\ k <= j
         \/ c # "*" /\ j = k + 1 /\ (c = "+" \/ c = uri[j])
  PROVE  MatchesUpTo(Append(path, c), uri, j)
  <1> DEFINE L == Len(path)
             p == Append(path, c)
  <1>1. PICK f \in Splits(path, uri) : f[L] = k
    BY Zenon DEF MatchesUpTo
  <1> DEFINE g == [i \in 0 .. L + 1 |-> IF i <= L THEN f[i] ELSE j]
  <1>2. /\ L \in Nat
        /\ Len(p) = L + 1
        /\ p[L + 1] = c
        /\ \A i \in 1 .. L : p[i] = path[i]
    OBVIOUS
  <1>3. /\ f \in [0 .. L -> 0 .. Len(uri)]
        /\ f[0] = 0
        /\ \A i \in 1 .. L : IF path[i] = "*" THEN f[i-1] <= f[i]
                             ELSE /\ f[i] = f[i-1] + 1
                                  /\ path[i] = "+" \/ path[i] = uri[f[i]]
    BY <1>1, Zenon DEF Splits
  <1>4. g \in [0 .. Len(p) -> 0 .. Len(uri)] /\ g[0] = 0 /\ g[Len(p)] = j
    BY <1>2, <1>3
  <1>5. ASSUME NEW i \in 1 .. Len(p)
        PROVE  IF p[i] = "*" THEN g[i-1] <= g[i]
               ELSE /\ g[i] = g[i-1] + 1
                    /\ p[i] = "+" \/ p[i] = uri[g[i]]
    <2>1. CASE i <= L
      <3>1. g[i] = f[i] /\ g[i-1] = f[i-1] /\ p[i] = path[i] /\ i \in 1 .. L
        BY <1>2, <2>1
      <3> QED
        BY <1>3, <3>1, Zenon
    <2>2. CASE i = L + 1
      <3>1. g[i] = j /\ g[i-1] = k /\ p[i] = c
        BY <1>1, <1>2, <2>2
      <3> QED
        BY <3>1, Zenon
    <2> QED
      BY <1>2, <2>1, <2>2
  <1>6. g \in Splits(p, uri)
    BY <1>4, <1>5, Zenon DEF Splits
  <1> QED
    BY <1>4, <1>6, Zenon DEF MatchesUpTo

-----------------------------------------------------------------------------
(* Routing *)

LEMMA RootReached ==
  ASSUME NEW p \in Pubs
  PROVE  [node |-> Root, pos |-> 0] \in Reached(p)
  <1>1. topicOf[p] \in Seq(STRING) /\ Len(topicOf[p]) \in Nat
    BY TerminusAssumption
  <1>2. MatchesUpTo(<<>>, topicOf[p], 0)
    BY <1>1, MatchEmpty, Zenon
  <1> QED
    BY <1>1, <1>2 DEF Reached, Frame, Node, Root

LEMMA ConcatIsSeq ==
  ASSUME NEW S, NEW a \in Seq(S), NEW b \in Seq(S)
  PROVE  a \o b \in Seq(S)
  OBVIOUS

LEMMA FunctionIsSeq ==
  ASSUME NEW S, NEW m \in Nat, NEW f \in [1 .. m -> S]
  PROVE  f \in Seq(S)
  OBVIOUS

\* The calls rmatchSubs makes for one child extend the match by its cell.
LEMMA CallsReached ==
  ASSUME TypeOK, ChildrenShape, NEW p \in Pubs, NEW f \in Reached(p), NEW cell,
         NEW from \in Nat, NEW to \in Nat, to <= Len(topicOf[p]),
         \/ cell = "*" /\ from = f.pos
         \/ from = f.pos + 1 /\ to = f.pos + 1 /\ (cell = "+" \/ cell = topicOf[p][f.pos + 1])
  PROVE  Calls(f.node, cell, from, to) \in Seq(Reached(p))
  <1> DEFINE n == Child(f.node, cell)
  <1>0. topicOf[p] \in Seq(STRING) /\ Len(topicOf[p]) \in Nat
    BY TerminusAssumption
  <1>1. CASE n = Nil
    BY <1>1 DEF Calls
  <1>2. CASE n # Nil
    <2>1. f.node \in Node /\ f.pos \in 0 .. Len(topicOf[p]) /\ MatchesUpTo(f.node.path, topicOf[p], f.pos)
      BY Zenon DEF Reached, Frame
    <2>2. n \in Node /\ n.path = Append(f.node.path, cell)
      <3>1. children[f.node] \in [Cell -> Node \cup {Nil}]
        BY <2>1, ZenonT(30) DEF TypeOK
      <3> QED
        BY <1>2, <2>1, <3>1, Zenon DEF Child, ChildrenShape
    <2> HIDE DEF n
    <2> DEFINE S == STRING \cup {cell}
    <2>3. f.node.path \in Seq(S) /\ topicOf[p] \in Seq(S) /\ cell \in S
      BY <1>0, <2>1, NodePath
    <2> HIDE DEF S
    <2>4. ASSUME NEW i \in 1 .. to - from + 1
          PROVE  [node |-> n, pos |-> from + i - 1] \in Reached(p)
      <3> DEFINE j == from + i - 1
      <3>1. j \in 0 .. Len(topicOf[p]) /\ j <= to /\ from <= j
        BY <1>0
      <3>2. \/ cell = "*" /\ f.pos <= j
            \/ cell # "*" /\ j = f.pos + 1 /\ (cell = "+" \/ cell = topicOf[p][j])
        <4>1. CASE cell = "*" /\ from = f.pos
          BY <3>1, <4>1, Zenon
        <4>2. CASE from = f.pos + 1 /\ to = f.pos + 1 /\ (cell = "+" \/ cell = topicOf[p][f.pos + 1])
          <5>1. j = f.pos + 1
            BY <2>1, <3>1, <4>2
          <5> HIDE DEF j
          <5>2. f.pos <= j
            BY <2>1, <5>1
          <5> QED
            BY <4>2, <5>1, <5>2, Zenon
        <4> QED
          BY <4>1, <4>2, Zenon
      <3>3. MatchesUpTo(n.path, topicOf[p], j)
        BY <1>0, <2>1, <2>2, <2>3, <3>1, <3>2, MatchExtend, Zenon
      <3> HIDE DEF j
      <3>4. [node |-> n, pos |-> j] \in Frame
        BY <2>2, <3>1 DEF Frame
      <3>5. [node |-> n, pos |-> j] \in Reached(p)
        BY <3>1, <3>3, <3>4, Zenon DEF Reached
      <3> QED
        BY <3>5, Zenon DEF j
    <2>5. CASE from <= to + 1
      <3>1. to - from + 1 \in Nat
        BY <2>5
      <3>2. Calls(f.node, cell, from, to) = [i \in 1 .. to - from + 1 |-> [node |-> n, pos |-> from + i - 1]]
        BY <1>2, Zenon DEF Calls, n
      <3>3. [i \in 1 .. to - from + 1 |-> [node |-> n, pos |-> from + i - 1]]
              \in [1 .. to - from + 1 -> Reached(p)]
        BY <2>4, Zenon
      <3> QED
        BY <3>1, <3>2, <3>3, FunctionIsSeq, Zenon
    <2>6. CASE ~(from <= to + 1)
      <3>1. 1 .. to - from + 1 = {}
        BY <2>6
      <3>2. Calls(f.node, cell, from, to) = <<>>
        BY <1>2, <3>1 DEF Calls, n
      <3> QED
        BY <3>2
    <2> QED
      BY <2>5, <2>6, Zenon
  <1> QED
    BY <1>1, <1>2, Zenon

\* What rmatchSubs appends at the end of the topic fits it.
LEMMA ViewsFit ==
  ASSUME TypeOK, Shape, NEW p \in Pubs, NEW f \in Reached(p), AtEnd(p, f), NEW v \in Views(f.node)
  PROVE  v \in Seq({s \in Subs : p \in Fits(s)})
  <1>1. f.node \in Node /\ Matches(f.node.path, topicOf[p])
    BY Zenon DEF Reached, Frame, AtEnd, Matches
  <1>2. v \in Seq(Subs) /\ OnPath(v, f.node.path)
    BY <1>1, ViewsType, ViewsOnPath, Zenon
  <1>3. \A i \in DOMAIN v : v[i] \in {s \in Subs : p \in Fits(s)}
    BY <1>1, <1>2 DEF OnPath, Fits
  <1> QED
    BY <1>2, <1>3

LEMMA StepRoutes ==
  ASSUME [Next]_vars
  PROVE  \/ UNCHANGED <<stack, list, mqueue, cur, log>>
         \/ \E s \in Subs : DispatchTake(s) \/ DispatchHandle(s) \/ DispatchEnd(s)
         \/ \E p \in Pubs :
              \/ PublishStart(p) \/ PublishMatch(p) \/ PublishShuffle(p) \/ PublishSend(p)
  <1> DEFINE Kept == UNCHANGED <<stack, list, mqueue, cur, log>>
  <1>1. ASSUME NEW s \in Subs,
              SubscribeStart(s) \/ AddSubDescend(s) \/ AddSubBuild(s) \/
              AddSubLink(s) \/ AddSubRead(s) \/ AddSubAppend(s) \/ AddSubRegister(s)
              \/ RecordSub(s)
        PROVE  Kept
    BY <1>1, Zenon DEF SubscribeStart, AddSubDescend, AddSubBuild, AddSubLink, AddSubRead, AddSubAppend,
                AddSubRegister, RecordSub, treeVars, clientVars, subVars, dispVars, pubVars, GoTo
  <1>2. ASSUME NEW s \in Subs, DispatchDone(s) \/ DispatchUnsub(s) PROVE Kept
    BY <1>2, Zenon DEF DispatchDone, DispatchUnsub, treeVars, clientVars, subVars, dispVars, pubVars,
                UnsubscribeRead, UnsubscribeStore, UnsubscribeTerm, GoTo
  <1>3. ASSUME NEW id \in Callers, CallerUnsub(id) PROVE Kept
    BY <1>3, Zenon DEF CallerUnsub, treeVars, clientVars, subVars, dispVars, pubVars, UnsubscribeRead,
                UnsubscribeStore, UnsubscribeTerm
  <1>4. ASSUME NEW c \in Clients,
              CreateClient(c) \/ ListClient(c) \/ CtxDone(c) \/ CleanupLock(c) \/
              CleanupRead(c) \/ CleanupStore(c) \/ CleanupUnlock(c) \/
              CleanupUnlist(c)
        PROVE  Kept
    BY <1>4, Zenon DEF CreateClient, ListClient, CtxDone, CleanupLock, CleanupRead, CleanupStore,
                CleanupUnlock, CleanupUnlist, treeVars, clientVars, subVars, dispVars, pubVars
  <1>5. ASSUME NEW p \in Pubs, PublishEnd(p) PROVE Kept
    BY <1>5, Zenon DEF PublishEnd, treeVars, clientVars, subVars, dispVars, pubVars
  <1>6. ASSUME UNCHANGED vars PROVE Kept
    BY <1>6, Zenon DEF vars, treeVars, clientVars, subVars, dispVars, pubVars
  <1> HIDE DEF Kept
  <1>7. CASE Next
    BY <1>1, <1>2, <1>3, <1>4, <1>5, <1>7, Zenon DEF Next, SubStep, DispatchStep, ClientStep, CleanupStep, PubStep, Kept
  <1> QED
    BY <1>6, <1>7, Zenon DEF Kept

LEMMA RoutesStep == IInv /\ [Next]_vars => Routes'
  <1> SUFFICES ASSUME IInv, [Next]_vars PROVE Routes'
    OBVIOUS
  <1>0. TypeOK /\ Shape /\ ChildrenShape /\ Routes
    BY Zenon DEF IInv, Shape, ChildrenShape
  <1>1. ASSUME NEW s \in Subs, DispatchTake(s) PROVE Routes'
    <2>1. mqueue[s] \in Seq(Fits(s)) /\ mqueue[s] # <<>>
      BY <1>0, <1>1, Zenon DEF DispatchTake, Routes
    <2>2. Tail(mqueue[s]) \in Seq(Fits(s)) /\ Head(mqueue[s]) \in Fits(s)
      BY <2>1
    <2>3. \A u \in Subs : mqueue'[u] \in Seq(Fits(u)) /\ cur'[u] \in Fits(u) \cup {Nil}
      <3>1. /\ mqueue'[s] = Tail(mqueue[s]) /\ cur'[s] \in {cur[s], Head(mqueue[s])}
            /\ \A u \in Subs : u # s => mqueue'[u] = mqueue[u] /\ cur'[u] = cur[u]
        BY <1>0, <1>1 DEF DispatchTake, TypeOK
      <3> QED
        BY <1>0, <2>2, <3>1, Zenon DEF Routes
    <2> QED
      BY <1>0, <1>1, <2>3, Zenon DEF DispatchTake, Routes, pubVars
  <1>2. ASSUME NEW s \in Subs, DispatchHandle(s) PROVE Routes'
    <2>1. Append(log[s], cur[s]) \in Seq(Fits(s) \cup {Nil})
      BY <1>0 DEF Routes
    <2>2. \A u \in Subs : log'[u] \in Seq(Fits(u) \cup {Nil}) /\ cur'[u] \in Fits(u) \cup {Nil}
      BY <1>0, <1>2, <2>1, ZenonT(30) DEF DispatchHandle, Routes, TypeOK
    <2> QED
      BY <1>0, <1>2, <2>2, Zenon DEF DispatchHandle, Routes, pubVars
  <1>3. ASSUME NEW s \in Subs, DispatchEnd(s) PROVE Routes'
    <2>1. Append(log[s], Nil) \in Seq(Fits(s) \cup {Nil})
      BY <1>0 DEF Routes
    <2>2. \A u \in Subs : log'[u] \in Seq(Fits(u) \cup {Nil})
      BY <1>0, <1>3, <2>1, ZenonT(30) DEF DispatchEnd, Routes, TypeOK
    <2> QED
      BY <1>0, <1>3, <2>2, Zenon DEF DispatchEnd, Routes, pubVars
  <1>4. ASSUME NEW p \in Pubs, PublishStart(p) PROVE Routes'
    <2>1. <<[node |-> Root, pos |-> 0]>> \in Seq(Reached(p))
      BY RootReached
    <2>2. \A q \in Pubs : stack'[q] \in Seq(Reached(q))
      BY <1>0, <1>4, <2>1, ZenonT(30) DEF PublishStart, Routes, TypeOK
    <2> QED
      BY <1>0, <1>4, <2>2, Zenon DEF PublishStart, Routes, dispVars
  <1>5. ASSUME NEW p \in Pubs, PublishMatch(p) PROVE Routes'
    <2> DEFINE f == Head(stack[p])
               Fitting == {s \in Subs : p \in Fits(s)}
    <2>1. stack[p] \in Seq(Reached(p)) /\ stack[p] # <<>> /\ list[p] \in Seq(Fitting)
      BY <1>0, <1>5, Zenon DEF PublishMatch, Routes
    <2>2. Tail(stack[p]) \in Seq(Reached(p)) /\ f \in Reached(p)
      BY <2>1
    <2>3. stack'[p] \in Seq(Reached(p)) /\ list'[p] \in Seq(Fitting)
      <3>1. CASE AtEnd(p, f)
        <4>1. PICK v \in Views(f.node) : list' = [list EXCEPT ![p] = @ \o v]
          BY <1>5, <3>1, Zenon DEF PublishMatch
        <4>2. v \in Seq(Fitting)
          BY <1>0, <2>2, <3>1, <4>1, ViewsFit, Zenon
        <4>3. list[p] \o v \in Seq(Fitting)
          BY <2>1, <4>2, ConcatIsSeq, Zenon
        <4>4. list'[p] = list[p] \o v
          BY <1>0, <4>1, Zenon DEF TypeOK
        <4>5. stack'[p] = Tail(stack[p])
          BY <1>0, <1>5, <3>1, Zenon DEF PublishMatch, TypeOK
        <4> QED
          BY <2>2, <4>3, <4>4, <4>5, Zenon
      <3>2. CASE ~AtEnd(p, f)
        <4> DEFINE a == Calls(f.node, topicOf[p][f.pos + 1], f.pos + 1, f.pos + 1)
                   b == Calls(f.node, "+", f.pos + 1, f.pos + 1)
                   d == Calls(f.node, "*", f.pos, Len(topicOf[p]))
        <4>1. stack' = [stack EXCEPT ![p] = a \o b \o d \o Tail(stack[p])] /\ UNCHANGED list
          BY <1>5, <3>2, Zenon DEF PublishMatch
        <4>2. topicOf[p] \in Seq(STRING) /\ Len(topicOf[p]) \in Nat
          BY TerminusAssumption
        <4>3. f.pos \in 0 .. Len(topicOf[p])
          BY <2>2, Zenon DEF Reached
        <4>4. f.pos + 1 \in 1 .. Len(topicOf[p])
          BY <3>2, <4>2, <4>3 DEF AtEnd
        <4>5. a \in Seq(Reached(p)) /\ b \in Seq(Reached(p)) /\ d \in Seq(Reached(p))
          <5> HIDE DEF f
          <5>0. /\ f.pos \in Nat /\ f.pos + 1 \in Nat /\ f.pos + 1 <= Len(topicOf[p])
                /\ Len(topicOf[p]) <= Len(topicOf[p])
            BY <4>2, <4>3, <4>4
          <5>1. a \in Seq(Reached(p))
            BY <1>0, <2>2, <5>0, CallsReached, Zenon
          <5>2. b \in Seq(Reached(p))
            BY <1>0, <2>2, <5>0, CallsReached, Zenon
          <5>3. d \in Seq(Reached(p))
            BY <1>0, <2>2, <4>2, <5>0, CallsReached, Zenon
          <5> QED
            BY <5>1, <5>2, <5>3, Zenon
        <4> HIDE DEF a, b, d
        <4>6. a \o b \o d \o Tail(stack[p]) \in Seq(Reached(p))
          BY <2>2, <4>5
        <4>7. stack'[p] = a \o b \o d \o Tail(stack[p])
          BY <1>0, <4>1, Zenon DEF TypeOK
        <4> QED
          BY <2>1, <4>1, <4>6, <4>7, Zenon
      <3> QED
        BY <3>1, <3>2, Zenon
    <2>4. \A q \in Pubs : q # p => stack'[q] = stack[q] /\ list'[q] = list[q]
      BY <1>0, <1>5, ZenonT(60) DEF PublishMatch, TypeOK
    <2> QED
      BY <1>0, <1>5, <2>3, <2>4, ZenonT(60) DEF PublishMatch, Routes, dispVars
  <1>6. ASSUME NEW p \in Pubs, PublishShuffle(p) PROVE Routes'
    <2> DEFINE Fitting == {s \in Subs : p \in Fits(s)}
    <2>1. list[p] \in Seq(Subs) /\ list[p] \in Seq(Fitting)
      BY <1>0, Zenon DEF TypeOK, Routes
    <2>2. PICK q \in IF consumers[p] # 0 THEN Permuted(list[p]) ELSE {list[p]} :
            list' = [list EXCEPT ![p] = q]
      BY <1>6, Zenon DEF PublishShuffle
    <2>3. q \in Seq(Fitting)
      <3>1. CASE q = list[p]
        BY <2>1, <3>1, Zenon
      <3>2. CASE q \in Permuted(list[p])
        <4>1. DOMAIN q = 1 .. Len(q) /\ q \in Seq(Subs)
          BY <2>1, <3>2, PermutedType
        <4>2. \A i \in DOMAIN q : q[i] \in Fitting
          BY <2>1, <3>2, PermutedType
        <4> QED
          BY <4>1, <4>2
      <3> QED
        BY <2>2, <3>1, <3>2, Zenon
    <2>4. \A r \in Pubs : list'[r] \in Seq({s \in Subs : r \in Fits(s)})
      BY <1>0, <2>2, <2>3 DEF Routes, TypeOK
    <2> QED
      BY <1>0, <1>6, <2>4, Zenon DEF PublishShuffle, Routes, dispVars
  <1>7. ASSUME NEW p \in Pubs, PublishSend(p) PROVE Routes'
    <2> DEFINE s == Head(list[p])
               Fitting == {u \in Subs : p \in Fits(u)}
    <2>1. list[p] \in Seq(Fitting) /\ list[p] # <<>>
      BY <1>0, <1>7, Zenon DEF PublishSend, Routes
    <2>2. s \in Fitting /\ Tail(list[p]) \in Seq(Fitting)
      BY <2>1
    <2>3. \A r \in Pubs : list'[r] \in Seq({u \in Subs : r \in Fits(u)})
      <3>1. list' = [list EXCEPT ![p] = Tail(list[p])]
        BY <1>7, Zenon DEF PublishSend
      <3>2. /\ list'[p] = Tail(list[p])
            /\ \A r \in Pubs : r # p => list'[r] = list[r]
        BY <1>0, <3>1, Zenon DEF TypeOK
      <3>3. \A r \in Pubs : list[r] \in Seq({u \in Subs : r \in Fits(u)})
        BY <1>0, Zenon DEF Routes
      <3> QED
        BY <2>2, <3>2, <3>3, Zenon
    <2>4. Append(mqueue[s], p) \in Seq(Fits(s))
      <3>1. mqueue[s] \in Seq(Fits(s)) /\ p \in Fits(s)
        BY <1>0, <2>2, Zenon DEF Routes
      <3> QED
        BY <3>1
    <2> HIDE DEF s
    <2>5. UNCHANGED mqueue \/ mqueue' = [mqueue EXCEPT ![s] = Append(@, p)]
      BY <1>7, Zenon DEF PublishSend, Enqueue, s
    <2>6. \A u \in Subs : mqueue'[u] \in Seq(Fits(u))
      BY <1>0, <2>4, <2>5, Zenon DEF Routes, TypeOK
    <2> QED
      BY <1>0, <1>7, <2>3, <2>6, Zenon DEF PublishSend, Routes
  <1>8. CASE UNCHANGED <<stack, list, mqueue, cur, log>>
    BY <1>0, <1>8, Zenon DEF Routes
  <1> QED
    BY <1>1, <1>2, <1>3, <1>4, <1>5, <1>6, <1>7, <1>8, StepRoutes, Zenon

-----------------------------------------------------------------------------
(* The end of a subscription *)

LEMMA StepEnds ==
  ASSUME [Next]_vars
  PROVE  \/ UNCHANGED <<pc, gpc, cur, log>>
         \/ \E s \in Subs :
              \/ SubscribeStart(s) \/ AddSubBuild(s) \/ AddSubLink(s) \/ AddSubRead(s)
              \/ AddSubAppend(s) \/ AddSubRegister(s) \/ RecordSub(s) \/ DispatchTake(s)
              \/ DispatchHandle(s) \/ DispatchDone(s) \/ DispatchUnsub(s) \/ DispatchEnd(s)
  <1> DEFINE Kept == UNCHANGED <<pc, gpc, cur, log>>
  <1>1. ASSUME NEW s \in Subs, AddSubDescend(s) PROVE Kept
    BY <1>1, Zenon DEF AddSubDescend, treeVars, clientVars, subVars, dispVars, pubVars, GoTo
  <1>2. ASSUME NEW id \in Callers, CallerUnsub(id) PROVE Kept
    BY <1>2, Zenon DEF CallerUnsub, treeVars, clientVars, subVars, dispVars, pubVars, UnsubscribeRead,
                UnsubscribeStore, UnsubscribeTerm
  <1>3. ASSUME NEW c \in Clients,
              CreateClient(c) \/ ListClient(c) \/ CtxDone(c) \/ CleanupLock(c) \/
              CleanupRead(c) \/ CleanupStore(c) \/ CleanupUnlock(c) \/
              CleanupUnlist(c)
        PROVE  Kept
    BY <1>3, Zenon DEF CreateClient, ListClient, CtxDone, CleanupLock, CleanupRead, CleanupStore,
                CleanupUnlock, CleanupUnlist, treeVars, clientVars, subVars, dispVars, pubVars
  <1>4. ASSUME NEW p \in Pubs,
              PublishStart(p) \/ PublishMatch(p) \/ PublishShuffle(p) \/
              PublishSend(p) \/ PublishEnd(p)
        PROVE  Kept
    BY <1>4, Zenon DEF PublishStart, PublishMatch, PublishShuffle, PublishSend, PublishEnd, treeVars,
                clientVars, subVars, dispVars, pubVars
  <1>5. ASSUME UNCHANGED vars PROVE Kept
    BY <1>5, Zenon DEF vars, treeVars, clientVars, subVars, dispVars, pubVars
  <1> HIDE DEF Kept
  <1>6. CASE Next
    BY <1>1, <1>2, <1>3, <1>4, <1>6, Zenon DEF Next, SubStep, DispatchStep, ClientStep, CleanupStep, PubStep, Kept
  <1> QED
    BY <1>5, <1>6, Zenon DEF Kept

LEMMA EndsStep == IInv /\ [Next]_vars => Ends'
  <1> SUFFICES ASSUME IInv, [Next]_vars PROVE Ends'
    OBVIOUS
  <1>0. TypeOK /\ Ends /\ Nil \notin Pubs
    BY TerminusAssumption, Zenon DEF IInv
  <1>1. ASSUME NEW s \in Subs, SubscribeStart(s) PROVE Ends'
    BY <1>0, <1>1, ZenonT(60) DEF SubscribeStart, Ends, TypeOK
  <1>2. ASSUME NEW s \in Subs,
               \/ AddSubBuild(s) \/ AddSubLink(s) \/ AddSubRead(s)
               \/ AddSubAppend(s) \/ AddSubRegister(s) \/ RecordSub(s)
        PROVE  Ends'
    <2>1. /\ \E phase \in {"link", "append", "register", "record", "done"} : pc' = [pc EXCEPT ![s] = phase]
          /\ UNCHANGED <<gpc, cur, log>>
      BY <1>2, Zenon DEF AddSubBuild, AddSubLink, AddSubRead, AddSubAppend, AddSubRegister, RecordSub, dispVars
    <2> QED
      BY <1>0, <2>1 DEF Ends, TypeOK
  <1>3. ASSUME NEW s \in Subs, DispatchTake(s) PROVE Ends'
    <2>1. mqueue[s] \in Seq(Pubs) /\ mqueue[s] # <<>>
      BY <1>0, <1>3, Zenon DEF DispatchTake, TypeOK
    <2>2. Head(mqueue[s]) \in Pubs
      BY <2>1
    <2>3. /\ gpc[s] = "run" /\ UNCHANGED <<pc, log>>
          /\ \/ gpc' = [gpc EXCEPT ![s] = "unsub"] /\ UNCHANGED cur
             \/ gpc' = [gpc EXCEPT ![s] = "handle"] /\ cur' = [cur EXCEPT ![s] = Head(mqueue[s])]
      BY <1>3, Zenon DEF DispatchTake, GoTo, subVars
    <2>4. pc[s] # "idle"
      BY <1>0, <2>3, Zenon DEF Ends
    <2>5. /\ gpc'[s] = "unsub" \/ (gpc'[s] = "handle" /\ cur'[s] # Nil)
          /\ \A u \in Subs : u # s => gpc'[u] = gpc[u] /\ cur'[u] = cur[u]
      BY <1>0, <2>2, <2>3 DEF TypeOK
    <2> QED
      BY <1>0, <2>3, <2>4, <2>5, Zenon DEF Ends
  <1>4. ASSUME NEW s \in Subs, DispatchHandle(s) PROVE Ends'
    <2>1. gpc[s] = "handle" /\ cur[s] # Nil /\ \A i \in DOMAIN log[s] : log[s][i] # Nil
      BY <1>0, <1>4, Zenon DEF DispatchHandle, Ends
    <2>2. log[s] \in Seq(Pubs \cup {Nil}) /\ cur[s] \in Pubs \cup {Nil}
      BY <1>0, Zenon DEF TypeOK
    <2>3. \A i \in DOMAIN Append(log[s], cur[s]) : Append(log[s], cur[s])[i] # Nil
      BY <2>1, <2>2
    <2>4. /\ log' = [log EXCEPT ![s] = Append(log[s], cur[s])]
          /\ cur' = [cur EXCEPT ![s] = Nil] /\ gpc' = [gpc EXCEPT ![s] = "run"] /\ UNCHANGED pc
      BY <1>4, Zenon DEF DispatchHandle, GoTo, subVars
    <2>5. pc[s] # "idle"
      BY <1>0, <2>1, Zenon DEF Ends
    <2>7. DOMAIN gpc = Subs /\ DOMAIN log = Subs /\ DOMAIN cur = Subs
      BY <1>0, Zenon DEF TypeOK
    <2>6. /\ gpc'[s] = "run" /\ log'[s] = Append(log[s], cur[s])
          /\ \A u \in Subs : u # s => gpc'[u] = gpc[u] /\ log'[u] = log[u] /\ cur'[u] = cur[u]
      BY <2>7, <2>4, Zenon
    <2> QED
      BY <1>0, <2>3, <2>4, <2>5, <2>6 DEF Ends
  <1>5. ASSUME NEW s \in Subs, DispatchDone(s) PROVE Ends'
    BY <1>0, <1>5, ZenonT(30) DEF DispatchDone, GoTo, Ends, TypeOK, subVars
  <1>6. ASSUME NEW s \in Subs, DispatchUnsub(s) PROVE Ends'
    <2>1. /\ gpc[s] \in {"unsub", "locked", "term"}
          /\ \E phase \in {"locked", "term", "ending"} : gpc' = [gpc EXCEPT ![s] = phase]
          /\ UNCHANGED <<pc, cur, log>>
      BY <1>6, Zenon DEF DispatchUnsub, GoTo, subVars
    <2> QED
      BY <1>0, <2>1 DEF Ends, TypeOK
  <1>7. ASSUME NEW s \in Subs, DispatchEnd(s) PROVE Ends'
    <2>1. gpc[s] = "ending" /\ \A i \in DOMAIN log[s] : log[s][i] # Nil
      BY <1>0, <1>7, Zenon DEF DispatchEnd, Ends
    <2>2. log[s] \in Seq(Pubs \cup {Nil})
      BY <1>0, Zenon DEF TypeOK
    <2>3. \A i \in DOMAIN Append(log[s], Nil) : Append(log[s], Nil)[i] = Nil => i = Len(Append(log[s], Nil))
      BY <2>1, <2>2
    <2>4. /\ log' = [log EXCEPT ![s] = Append(log[s], Nil)]
          /\ gpc' = [gpc EXCEPT ![s] = "ended"] /\ UNCHANGED <<pc, cur>>
      BY <1>7, Zenon DEF DispatchEnd, GoTo, subVars
    <2>5. pc[s] # "idle"
      BY <1>0, <2>1, Zenon DEF Ends
    <2>7. DOMAIN gpc = Subs /\ DOMAIN log = Subs /\ DOMAIN cur = Subs
      BY <1>0, Zenon DEF TypeOK
    <2>6. /\ gpc'[s] = "ended" /\ log'[s] = Append(log[s], Nil)
          /\ \A u \in Subs : u # s => gpc'[u] = gpc[u] /\ log'[u] = log[u]
      BY <2>7, <2>4, Zenon
    <2> QED
      BY <1>0, <2>3, <2>4, <2>5, <2>6, ZenonT(30) DEF Ends
  <1>8. CASE UNCHANGED <<pc, gpc, cur, log>>
    BY <1>0, <1>8, Zenon DEF Ends
  <1> QED
    BY <1>1, <1>2, <1>3, <1>4, <1>5, <1>6, <1>7, <1>8, StepEnds, Zenon

LEMMA StepLates ==
  ASSUME [Next]_vars
  PROVE  \/ UNCHANGED <<gpc, cancelled, ctxdone, late>>
         \/ \E s \in Subs :
              \/ SubscribeStart(s) \/ DispatchTake(s) \/ DispatchHandle(s)
              \/ DispatchDone(s) \/ DispatchUnsub(s) \/ DispatchEnd(s)
         \/ \E id \in Callers : CallerUnsub(id)
         \/ \E c \in Clients : CtxDone(c)
         \/ \E p \in Pubs : PublishSend(p)
  <1> DEFINE Kept == UNCHANGED <<gpc, cancelled, ctxdone, late>>
  <1>1. ASSUME NEW s \in Subs,
              AddSubDescend(s) \/ AddSubBuild(s) \/ AddSubLink(s) \/ AddSubRead(s)
              \/ AddSubAppend(s) \/ AddSubRegister(s) \/ RecordSub(s)
        PROVE  Kept
    BY <1>1, Zenon DEF AddSubDescend, AddSubBuild, AddSubLink, AddSubRead, AddSubAppend, AddSubRegister,
                RecordSub, treeVars, clientVars, subVars, dispVars, pubVars, GoTo
  <1>2. ASSUME NEW c \in Clients,
              CreateClient(c) \/ ListClient(c) \/ CleanupLock(c) \/ CleanupRead(c)
              \/ CleanupStore(c) \/ CleanupUnlock(c) \/ CleanupUnlist(c)
        PROVE  Kept
    BY <1>2, Zenon DEF CreateClient, ListClient, CleanupLock, CleanupRead, CleanupStore, CleanupUnlock,
                CleanupUnlist, treeVars, clientVars, subVars, dispVars, pubVars
  <1>3. ASSUME NEW p \in Pubs, PublishStart(p) \/ PublishMatch(p) \/ PublishShuffle(p) \/ PublishEnd(p) PROVE Kept
    BY <1>3, Zenon DEF PublishStart, PublishMatch, PublishShuffle, PublishEnd, treeVars, clientVars,
                subVars, dispVars, pubVars
  <1>4. ASSUME UNCHANGED vars PROVE Kept
    BY <1>4, Zenon DEF vars, treeVars, clientVars, subVars, dispVars, pubVars
  <1> HIDE DEF Kept
  <1>5. CASE Next
    BY <1>1, <1>2, <1>3, <1>5, Zenon DEF Next, SubStep, DispatchStep, ClientStep, CleanupStep, PubStep, Kept
  <1> QED
    BY <1>4, <1>5, Zenon DEF Kept

LEMMA LatesStep == IInv /\ [Next]_vars => Lates'
  <1> SUFFICES ASSUME IInv, [Next]_vars PROVE Lates'
    OBVIOUS
  <1>0. TypeOK /\ Ends /\ Lates
    BY Zenon DEF IInv
  <1>1. ASSUME NEW s \in Subs, SubscribeStart(s) \/ DispatchDone(s) PROVE Lates'
    <2>1. /\ \E phase \in {"run", "unsub"} : gpc' = [gpc EXCEPT ![s] = phase]
          /\ UNCHANGED <<cancelled, ctxdone, late>>
      BY <1>1, Zenon DEF SubscribeStart, DispatchDone, GoTo, clientVars
    <2> QED
      BY <1>0, <2>1, ZenonT(30) DEF Lates, Done, TypeOK
  <1>2. ASSUME NEW s \in Subs, DispatchTake(s) PROVE Lates'
    <2>1. /\ \/ gpc' = [gpc EXCEPT ![s] = "unsub"]
             \/ ~Done(s) /\ gpc' = [gpc EXCEPT ![s] = "handle"]
          /\ UNCHANGED <<cancelled, ctxdone, late>>
      BY <1>2, Zenon DEF DispatchTake, GoTo, clientVars
    <2> QED
      BY <1>0, <2>1, ZenonT(30) DEF Lates, Done, TypeOK
  <1>3. ASSUME NEW s \in Subs, DispatchHandle(s) PROVE Lates'
    <2>1. late[s] \in Nat /\ late[s] <= 1 /\ late[s] # 1
      BY <1>0, <1>3, Zenon DEF DispatchHandle, Lates, TypeOK
    <2>2. late[s] = 0
      BY <2>1
    <2>3. /\ late' = [late EXCEPT ![s] = IF Done(s) THEN 1 ELSE 0]
          /\ gpc' = [gpc EXCEPT ![s] = "run"]
          /\ UNCHANGED <<cancelled, ctxdone>>
      BY <1>3, <2>2 DEF DispatchHandle, GoTo, clientVars
    <2> QED
      BY <1>0, <2>3 DEF Lates, Done, TypeOK
  <1>4. ASSUME NEW s \in Subs, DispatchUnsub(s) PROVE Lates'
    <2>1. /\ \E phase \in {"locked", "term", "ending"} : gpc' = [gpc EXCEPT ![s] = phase]
          /\ cancelled \subseteq cancelled' /\ UNCHANGED <<ctxdone, late>>
      BY <1>4, Zenon DEF DispatchUnsub, GoTo, clientVars, UnsubscribeTerm
    <2> QED
      BY <1>0, <2>1, ZenonT(30) DEF Lates, Done, TypeOK
  <1>5. ASSUME NEW s \in Subs, DispatchEnd(s) PROVE Lates'
    BY <1>0, <1>5, ZenonT(30) DEF DispatchEnd, GoTo, clientVars, Lates, Done, TypeOK
  <1>6. ASSUME NEW id \in Callers, CallerUnsub(id) PROVE Lates'
    <2>1. cancelled \subseteq cancelled' /\ UNCHANGED <<ctxdone, gpc, late>>
      BY <1>6, Zenon DEF CallerUnsub, clientVars, UnsubscribeTerm
    <2> QED
      BY <1>0, <2>1, Zenon DEF Lates, Done
  <1>7. ASSUME NEW c \in Clients, CtxDone(c) PROVE Lates'
    BY <1>0, <1>7, Zenon DEF CtxDone, dispVars, Lates, Done
  <1>8. ASSUME NEW p \in Pubs, PublishSend(p) PROVE Lates'
    <2>1. cancelled \subseteq cancelled' /\ UNCHANGED <<ctxdone, gpc, late>>
      BY <1>8, Zenon DEF PublishSend, clientVars
    <2> QED
      BY <1>0, <2>1, Zenon DEF Lates, Done
  <1>9. CASE UNCHANGED <<gpc, cancelled, ctxdone, late>>
    BY <1>0, <1>9, Zenon DEF Lates, Done
  <1> QED
    BY <1>1, <1>2, <1>3, <1>4, <1>5, <1>6, <1>7, <1>8, <1>9, StepLates, Zenon

-----------------------------------------------------------------------------
(* The order in which messages are handled *)

LEMMA InOrderNil == ASSUME NEW x \in Pubs \cup {Nil} PROVE InOrder(x, Nil) /\ InOrder(Nil, x)
  BY TerminusAssumption DEF InOrder

LEMMA AppendIs ==
  ASSUME NEW S, NEW q \in Seq(S), NEW e
  PROVE  /\ \A i \in DOMAIN q : i \in Nat /\ i < Len(q) + 1
         /\ \A i \in DOMAIN Append(q, e) :
              (i \in DOMAIN q /\ Append(q, e)[i] = q[i]) \/ (i = Len(q) + 1 /\ Append(q, e)[i] = e)
  <1>1. DOMAIN q = 1 .. Len(q) /\ Len(q) \in Nat /\ DOMAIN Append(q, e) = 1 .. Len(q) + 1
    OBVIOUS
  <1>2. Append(q, e)[Len(q) + 1] = e /\ \A i \in 1 .. Len(q) : Append(q, e)[i] = q[i]
    OBVIOUS
  <1> QED
    BY <1>1, <1>2

LEMMA TailIs ==
  ASSUME NEW S, NEW q \in Seq(S), q # <<>>
  PROVE  /\ 1 \in DOMAIN q /\ Head(q) = q[1] /\ Tail(q) \in Seq(S) /\ Head(q) \in S
         /\ \A i \in DOMAIN q : i \in Nat
         /\ \A i \in DOMAIN Tail(q) : i \in Nat /\ i + 1 \in DOMAIN q /\ 1 < i + 1 /\ Tail(q)[i] = q[i + 1]
  <1>1. DOMAIN q = 1 .. Len(q) /\ Len(q) \in Nat \ {0} /\ DOMAIN Tail(q) = 1 .. Len(q) - 1
    OBVIOUS
  <1>2. \A i \in 1 .. Len(q) - 1 : Tail(q)[i] = q[i + 1]
    OBVIOUS
  <1>3. Head(q) = q[1] /\ Tail(q) \in Seq(S) /\ Head(q) \in S
    OBVIOUS
  <1> QED
    BY <1>1, <1>2, <1>3

LEMMA OrderedTake ==
  ASSUME NEW l, NEW c, NEW q \in Seq(Pubs), q # <<>>, Ordered(l, c, q)
  PROVE  Ordered(l, c, Tail(q)) /\ Ordered(l, Head(q), Tail(q))
  <1>1. /\ 1 \in DOMAIN q /\ Head(q) = q[1] /\ \A i \in DOMAIN q : i \in Nat
        /\ \A i \in DOMAIN Tail(q) : i \in Nat /\ i + 1 \in DOMAIN q /\ 1 < i + 1 /\ Tail(q)[i] = q[i + 1]
    BY TailIs
  <1> DEFINE t == Tail(q)
  <1> HIDE DEF t
  <1>2. \A i, j \in DOMAIN t : i < j => i + 1 < j + 1
    BY <1>1 DEF t
  <1>3. \A i, j \in DOMAIN t : i < j => InOrder(t[i], t[j])
    BY <1>1, <1>2 DEF t, Ordered
  <1>4. \A j \in DOMAIN t : InOrder(q[1], t[j])
    BY <1>1 DEF t, Ordered
  <1>5. \A i \in DOMAIN l, j \in DOMAIN t : InOrder(l[i], t[j])
    BY <1>1 DEF t, Ordered
  <1>6. \A j \in DOMAIN t : InOrder(c, t[j])
    BY <1>1 DEF t, Ordered
  <1>7. (\A i \in DOMAIN l : InOrder(l[i], q[1])) /\ \A i \in DOMAIN l : InOrder(l[i], c)
    BY <1>1 DEF Ordered
  <1>8. \A i, j \in DOMAIN l : i < j => InOrder(l[i], l[j])
    BY DEF Ordered
  <1>9. Ordered(l, c, t) /\ Ordered(l, q[1], t)
    BY <1>3, <1>4, <1>5, <1>6, <1>7, <1>8 DEF Ordered
  <1> QED
    BY <1>1, <1>9 DEF t

LEMMA OrderedLog ==
  ASSUME NEW l \in Seq(Pubs \cup {Nil}), NEW c \in Pubs \cup {Nil}, NEW q \in Seq(Pubs), Ordered(l, c, q)
  PROVE  Ordered(Append(l, c), Nil, q) /\ Ordered(Append(l, Nil), c, q)
  <1>1. ASSUME NEW e, NEW d, e \in {c, Nil}, d \in {c, Nil}, e = Nil \/ d = Nil
        PROVE  Ordered(Append(l, e), d, q)
    <2> DEFINE m == Append(l, e)
    <2>1. /\ \A i \in DOMAIN l : i \in Nat /\ i < Len(l) + 1 /\ l[i] \in Pubs \cup {Nil}
          /\ \A i \in DOMAIN m : (i \in DOMAIN l /\ m[i] = l[i]) \/ (i = Len(l) + 1 /\ m[i] = e)
      BY AppendIs
    <2>2. (\A i \in DOMAIN l : InOrder(l[i], e) /\ InOrder(l[i], d)) /\ InOrder(e, d)
      BY <1>1, <2>1, InOrderNil DEF Ordered
    <2>3. \A j \in DOMAIN q : q[j] \in Pubs
      OBVIOUS
    <2>4. \A j \in DOMAIN q : InOrder(e, q[j]) /\ InOrder(d, q[j])
      BY <1>1, <2>3, InOrderNil DEF Ordered
    <2> HIDE DEF m
    <2>5. Len(l) \in Nat
      OBVIOUS
    <2>6. \A i, j \in DOMAIN m : i < j => InOrder(m[i], m[j])
      <3> SUFFICES ASSUME NEW i \in DOMAIN m, NEW j \in DOMAIN m, i < j PROVE InOrder(m[i], m[j])
        OBVIOUS
      <3>1. i \in DOMAIN l /\ m[i] = l[i]
        BY <2>1, <2>5
      <3>2. CASE j \in DOMAIN l /\ m[j] = l[j]
        BY <3>1, <3>2 DEF Ordered
      <3>3. CASE m[j] = e
        BY <2>2, <3>1, <3>3
      <3> QED
        BY <2>1, <3>2, <3>3
    <2>7. \A i \in DOMAIN m : InOrder(m[i], d)
      BY <2>1, <2>2
    <2>8. \A i \in DOMAIN m, j \in DOMAIN q : InOrder(m[i], q[j])
      <3> SUFFICES ASSUME NEW i \in DOMAIN m, NEW j \in DOMAIN q PROVE InOrder(m[i], q[j])
        OBVIOUS
      <3>1. CASE i \in DOMAIN l /\ m[i] = l[i]
        BY <3>1 DEF Ordered
      <3>2. CASE m[i] = e
        BY <2>4, <3>2
      <3> QED
        BY <2>1, <3>1, <3>2
    <2>9. \A i, j \in DOMAIN q : i < j => InOrder(q[i], q[j])
      BY DEF Ordered
    <2> QED
      BY <2>4, <2>6, <2>7, <2>8, <2>9 DEF Ordered, m
  <1> QED
    BY <1>1

LEMMA OrderedSend ==
  ASSUME NEW l, NEW c, NEW q \in Seq(Pubs), Ordered(l, c, q), NEW p,
         \A i \in DOMAIN l : InOrder(l[i], p), InOrder(c, p), \A j \in DOMAIN q : InOrder(q[j], p)
  PROVE  Ordered(l, c, Append(q, p))
  <1> DEFINE r == Append(q, p)
  <1>1. /\ \A i \in DOMAIN q : i \in Nat /\ i < Len(q) + 1
        /\ \A i \in DOMAIN r : (i \in DOMAIN q /\ r[i] = q[i]) \/ (i = Len(q) + 1 /\ r[i] = p)
    BY AppendIs
  <1>2. Len(q) \in Nat
    OBVIOUS
  <1> HIDE DEF r
  <1>3. \A i, j \in DOMAIN r : i < j => InOrder(r[i], r[j])
    <2> SUFFICES ASSUME NEW i \in DOMAIN r, NEW j \in DOMAIN r, i < j PROVE InOrder(r[i], r[j])
      OBVIOUS
    <2>1. i \in DOMAIN q /\ r[i] = q[i]
      BY <1>1, <1>2
    <2>2. CASE j \in DOMAIN q /\ r[j] = q[j]
      BY <2>1, <2>2 DEF Ordered
    <2>3. CASE r[j] = p
      BY <2>1, <2>3
    <2> QED
      BY <1>1, <2>2, <2>3
  <1>4. \A i \in DOMAIN l, j \in DOMAIN r : InOrder(l[i], r[j])
    BY <1>1 DEF Ordered
  <1>5. \A j \in DOMAIN r : InOrder(c, r[j])
    BY <1>1 DEF Ordered
  <1> QED
    BY <1>3, <1>4, <1>5 DEF Ordered, r

LEMMA StepOrders ==
  ASSUME [Next]_vars
  PROVE  \/ UNCHANGED <<mqueue, cur, log, ppc, count>>
         \/ \E s \in Subs : DispatchTake(s) \/ DispatchHandle(s) \/ DispatchEnd(s)
         \/ \E p \in Pubs : PublishStart(p) \/ PublishShuffle(p) \/ PublishSend(p) \/ PublishEnd(p)
  <1> DEFINE Kept == UNCHANGED <<mqueue, cur, log, ppc, count>>
  <1>1. ASSUME NEW s \in Subs,
              SubscribeStart(s) \/ AddSubDescend(s) \/ AddSubBuild(s) \/ AddSubLink(s) \/ AddSubRead(s)
              \/ AddSubAppend(s) \/ AddSubRegister(s) \/ RecordSub(s)
        PROVE  Kept
    BY <1>1, Zenon DEF SubscribeStart, AddSubDescend, AddSubBuild, AddSubLink, AddSubRead, AddSubAppend,
                AddSubRegister, RecordSub, dispVars, pubVars
  <1>2. ASSUME NEW s \in Subs, DispatchDone(s) \/ DispatchUnsub(s) PROVE Kept
    BY <1>2, Zenon DEF DispatchDone, DispatchUnsub, pubVars
  <1>3. ASSUME NEW id \in Callers, CallerUnsub(id) PROVE Kept
    BY <1>3, Zenon DEF CallerUnsub, pubVars
  <1>4. ASSUME NEW c \in Clients, ClientStep(c) PROVE Kept
    BY <1>4, Zenon DEF ClientStep, CleanupStep, CreateClient, ListClient, CtxDone, CleanupLock, CleanupRead,
                CleanupStore, CleanupUnlock, CleanupUnlist, dispVars, pubVars
  <1>5. ASSUME NEW p \in Pubs, PublishMatch(p) PROVE Kept
    BY <1>5, Zenon DEF PublishMatch, dispVars
  <1>6. ASSUME UNCHANGED vars PROVE Kept
    BY <1>6, Zenon DEF vars, dispVars, pubVars
  <1> HIDE DEF Kept
  <1>7. CASE Next
    BY <1>1, <1>2, <1>3, <1>4, <1>5, <1>7, Zenon DEF Next, SubStep, DispatchStep, PubStep, Kept
  <1> QED
    BY <1>6, <1>7, Zenon DEF Kept

\* Every subscription's part, from that of the one that changed.
LEMMA OrdersStep == TypeOK /\ TypeOK' /\ Orders /\ [Next]_vars => Orders'
  <1> SUFFICES ASSUME TypeOK, TypeOK', Orders, [Next]_vars PROVE Orders'
    OBVIOUS
  <1>0. /\ \A s \in Subs : /\ mqueue[s] \in Seq(Pubs) /\ cur[s] \in Pubs \cup {Nil}
                           /\ log[s] \in Seq(Pubs \cup {Nil})
        /\ mqueue \in [Subs -> Seq(Pubs)] /\ cur \in [Subs -> Pubs \cup {Nil}]
        /\ log \in [Subs -> Seq(Pubs \cup {Nil})]
        /\ ppc \in [Pubs -> {"idle", "match", "send", "done"}]
        /\ list \in [Pubs -> Seq(Subs)]
    BY Zenon DEF TypeOK
  <1>o. /\ \A p \in Pubs : ppc[p] # "idle" => \A q \in after[p] : ppc[q] = "done"
        /\ \A s \in Subs : Began(log[s], cur[s], mqueue[s]) /\ Ordered(log[s], cur[s], mqueue[s])
    BY Zenon DEF Orders, Began
  \* A step that leaves every call at its phase has only the queues to keep.
  <1>q. ASSUME ppc' = ppc,
              \A s \in Subs : Began(log'[s], cur'[s], mqueue'[s]) /\ Ordered(log'[s], cur'[s], mqueue'[s])
        PROVE  Orders'
    BY <1>o, <1>q, Zenon DEF Orders, Began, Sent
  \* A step of one subscription.
  <1>s. ASSUME ppc' = ppc, NEW s \in Subs,
              \A u \in Subs \ {s} : log'[u] = log[u] /\ cur'[u] = cur[u] /\ mqueue'[u] = mqueue[u],
              Began(log'[s], cur'[s], mqueue'[s]), Ordered(log'[s], cur'[s], mqueue'[s])
        PROVE  Orders'
    BY <1>o, <1>q, <1>s, Zenon
  \* A step of a call that changes no queue.
  <1>c. ASSUME UNCHANGED <<mqueue, cur, log>>,
              \A x \in Pubs : ppc[x] \in {"send", "done"} => ppc'[x] \in {"send", "done"},
              \A p \in Pubs : ppc'[p] # "idle" => \A q \in after[p] : ppc'[q] = "done"
        PROVE  Orders'
    <2>1. \A x \in Pubs \cup {Nil} : Sent(x) => Sent(x)'
      BY <1>c, Zenon DEF Sent
    <2>2. ASSUME NEW s \in Subs
          PROVE  /\ \A i \in DOMAIN log[s] : log[s][i] \in Pubs \cup {Nil}
                 /\ \A i \in DOMAIN mqueue[s] : mqueue[s][i] \in Pubs \cup {Nil}
      BY <1>0
    <2> QED
      BY <1>0, <1>c, <1>o, <2>1, <2>2, Zenon DEF Orders, Began
  <1>1. ASSUME NEW s \in Subs, DispatchTake(s) PROVE Orders'
    <2>1. /\ mqueue[s] # <<>> /\ ppc' = ppc /\ log' = log
          /\ mqueue' = [mqueue EXCEPT ![s] = Tail(mqueue[s])]
          /\ cur' = cur \/ cur' = [cur EXCEPT ![s] = Head(mqueue[s])]
      BY <1>1, Zenon DEF DispatchTake, pubVars
    <2>2. /\ \A u \in Subs \ {s} : log'[u] = log[u] /\ cur'[u] = cur[u] /\ mqueue'[u] = mqueue[u]
          /\ log'[s] = log[s] /\ mqueue'[s] = Tail(mqueue[s]) /\ cur'[s] \in {cur[s], Head(mqueue[s])}
      BY <1>0, <2>1, Zenon
    <2>3. Ordered(log'[s], cur'[s], mqueue'[s])
      BY <1>0, <1>o, <2>1, <2>2, OrderedTake, Zenon
    <2>4. /\ 1 \in DOMAIN mqueue[s] /\ Head(mqueue[s]) = mqueue[s][1]
          /\ \A i \in DOMAIN Tail(mqueue[s]) : i + 1 \in DOMAIN mqueue[s] /\ Tail(mqueue[s])[i] = mqueue[s][i + 1]
      BY <1>0, <2>1, TailIs
    <2>5. Began(log'[s], cur'[s], mqueue'[s])
      BY <1>o, <2>2, <2>4, Zenon DEF Began
    <2> QED
      BY <1>s, <2>1, <2>2, <2>3, <2>5, Zenon
  <1>2. ASSUME NEW s \in Subs, DispatchHandle(s) \/ DispatchEnd(s) PROVE Orders'
    <2>1. /\ ppc' = ppc /\ mqueue' = mqueue
          /\ \/ log' = [log EXCEPT ![s] = Append(log[s], cur[s])] /\ cur' = [cur EXCEPT ![s] = Nil]
             \/ log' = [log EXCEPT ![s] = Append(log[s], Nil)] /\ cur' = cur
      BY <1>2, Zenon DEF DispatchHandle, DispatchEnd, pubVars
    <2>2. /\ \A u \in Subs \ {s} : log'[u] = log[u] /\ cur'[u] = cur[u] /\ mqueue'[u] = mqueue[u]
          /\ mqueue'[s] = mqueue[s]
          /\ \/ log'[s] = Append(log[s], cur[s]) /\ cur'[s] = Nil
             \/ log'[s] = Append(log[s], Nil) /\ cur'[s] = cur[s]
      BY <1>0, <2>1, Zenon
    <2>3. Ordered(log'[s], cur'[s], mqueue'[s])
      BY <1>0, <1>o, <2>2, OrderedLog, Zenon
    <2>4. \A e : \A i \in DOMAIN Append(log[s], e) :
            (i \in DOMAIN log[s] /\ Append(log[s], e)[i] = log[s][i]) \/ Append(log[s], e)[i] = e
      BY <1>0, AppendIs
    <2>5. Sent(Nil)
      BY Zenon DEF Sent
    <2>6. ASSUME NEW e, Sent(e) PROVE \A i \in DOMAIN Append(log[s], e) : Sent(Append(log[s], e)[i])
      BY <1>o, <2>4, <2>6, Zenon DEF Began
    <2>7. Began(log'[s], cur'[s], mqueue'[s])
      BY <1>o, <2>2, <2>5, <2>6, Zenon DEF Began
    <2> QED
      BY <1>s, <2>1, <2>2, <2>3, <2>7, Zenon
  <1>3. ASSUME NEW p \in Pubs, PublishStart(p) PROVE Orders'
    <2>1. /\ UNCHANGED <<mqueue, cur, log>> /\ ppc[p] = "idle" /\ ppc' = [ppc EXCEPT ![p] = "match"]
          /\ \A q \in after[p] : ppc[q] = "done"
      BY <1>3, Zenon DEF PublishStart, dispVars
    <2>2. after[p] \subseteq Pubs /\ \A x \in Pubs : after[x] \subseteq Pubs
      BY TerminusAssumption, Zenon
    <2>3. \A x \in Pubs : ppc[x] # "idle" => ppc'[x] = ppc[x]
      BY <1>0, <2>1, Zenon
    <2>4. \A x \in Pubs : ppc'[x] # "idle" => x = p \/ ppc[x] # "idle"
      BY <1>0, <2>1, Zenon
    <2>5. "done" # "idle" /\ "send" # "idle"
      OBVIOUS
    <2> QED
      BY <1>c, <1>o, <2>1, <2>2, <2>3, <2>4, <2>5, Zenon
  <1>4. ASSUME NEW p \in Pubs, PublishShuffle(p) \/ PublishEnd(p) PROVE Orders'
    <2>1. /\ UNCHANGED <<mqueue, cur, log>>
          /\ \/ ppc[p] = "match" /\ ppc' = [ppc EXCEPT ![p] = "send"]
             \/ ppc[p] = "send" /\ ppc' = [ppc EXCEPT ![p] = "done"]
      BY <1>4, Zenon DEF PublishShuffle, PublishEnd, dispVars
    <2>2. \A x \in Pubs : after[x] \subseteq Pubs
      BY TerminusAssumption, Zenon
    <2>3. /\ \A x \in Pubs : ppc[x] = "done" => ppc'[x] = "done"
          /\ \A x \in Pubs : ppc'[x] # "idle" => ppc[x] # "idle"
          /\ \A x \in Pubs : ppc[x] \in {"send", "done"} => ppc'[x] \in {"send", "done"}
      BY <1>0, <2>1
    <2> QED
      BY <1>c, <1>o, <2>1, <2>2, <2>3, Zenon
  <1>5. ASSUME NEW p \in Pubs, PublishSend(p) PROVE Orders'
    <2>1. /\ UNCHANGED <<ppc, cur, log>> /\ ppc[p] = "send" /\ list[p] # <<>>
          /\ \/ mqueue' = mqueue
             \/ mqueue' = [mqueue EXCEPT ![Head(list[p])] = Append(mqueue[Head(list[p])], p)]
      BY <1>5, Zenon DEF PublishSend, Enqueue
    <2>2. CASE mqueue' = mqueue
      BY <1>o, <1>q, <2>1, <2>2, Zenon
    <2>3. CASE mqueue' # mqueue
      <3>0. list[p] \in Seq(Subs)
        BY <1>0, Zenon
      <3>1. Head(list[p]) \in Subs
        BY <2>1, <3>0
      <3>2. PICK s \in Subs : mqueue' = [mqueue EXCEPT ![s] = Append(mqueue[s], p)]
        BY <2>1, <2>3, <3>1, Zenon
      \* p is being sent, so no call that has begun to send was made before it.
      <3>3. \A x \in Pubs \cup {Nil} : Sent(x) => InOrder(x, p)
        <4>1. "send" # "done" /\ "send" # "idle" /\ "done" # "idle"
          OBVIOUS
        <4> QED
          BY <1>o, <2>1, <4>1, Zenon DEF Sent, InOrder
      <3>4. /\ \A i \in DOMAIN log[s] : log[s][i] \in Pubs \cup {Nil}
            /\ \A i \in DOMAIN mqueue[s] : mqueue[s][i] \in Pubs \cup {Nil}
        BY <1>0
      <3>5. /\ \A i \in DOMAIN log[s] : InOrder(log[s][i], p)
            /\ InOrder(cur[s], p)
            /\ \A j \in DOMAIN mqueue[s] : InOrder(mqueue[s][j], p)
        BY <1>0, <1>o, <3>3, <3>4, Zenon DEF Began
      <3>6. /\ \A u \in Subs \ {s} : log'[u] = log[u] /\ cur'[u] = cur[u] /\ mqueue'[u] = mqueue[u]
            /\ log'[s] = log[s] /\ cur'[s] = cur[s] /\ mqueue'[s] = Append(mqueue[s], p)
        BY <1>0, <2>1, <3>2, Zenon
      <3>7. Ordered(log[s], cur[s], Append(mqueue[s], p))
        BY <1>0, <1>o, <3>5, OrderedSend, Zenon
      <3>8. \A i \in DOMAIN Append(mqueue[s], p) :
              (i \in DOMAIN mqueue[s] /\ Append(mqueue[s], p)[i] = mqueue[s][i]) \/ Append(mqueue[s], p)[i] = p
        BY <1>0, AppendIs
      <3>9. Sent(p)
        BY <2>1, Zenon DEF Sent
      <3>10. Began(log'[s], cur'[s], mqueue'[s])
        BY <1>o, <3>6, <3>8, <3>9, Zenon DEF Began
      <3> QED
        BY <1>s, <2>1, <3>6, <3>7, <3>10, Zenon
    <2> QED
      BY <2>2, <2>3, Zenon
  <1>6. CASE UNCHANGED <<mqueue, cur, log, ppc, count>>
    BY <1>o, <1>q, <1>6, Zenon
  <1> QED
    BY <1>1, <1>2, <1>3, <1>4, <1>5, <1>6, StepOrders, Zenon

LEMMA InitOrders == Init => Orders
  <1> SUFFICES ASSUME Init PROVE Orders
    OBVIOUS
  <1>1. \A s \in Subs : log[s] = <<>> /\ cur[s] = Nil /\ mqueue[s] = <<>>
    BY Zenon DEF Init
  <1>2. \A p \in Pubs : ppc[p] = "idle"
    BY Zenon DEF Init
  <1>3. DOMAIN <<>> = {}
    OBVIOUS
  <1> QED
    BY <1>1, <1>2, <1>3, Zenon DEF Orders, Ordered, Sent

-----------------------------------------------------------------------------
(* The copies of a message *)

LEMMA GivenIs ==
  ASSUME NEW p
  PROVE  Given(p) = Held(p, {s \in Subs : ~tap[s]}, log, mqueue, cur)
  BY Zenon DEF Given, Copies

LEMMA HeldIs ==
  ASSUME NEW p, NEW S, NEW l, NEW q, NEW c, NEW x
  PROVE  x \in Held(p, S, l, q, c) <=> CopyOf(x, p, S, l, q, c)
  <1>1. x \in HandledBy(p, S, l) <=> \E s \in S : \E i \in DOMAIN l[s] : x = <<s, "handled", i>> /\ l[s][i] = p
    BY DEF HandledBy
  <1>2. x \in QueuedBy(p, S, q) <=> \E s \in S : \E i \in DOMAIN q[s] : x = <<s, "queued", i>> /\ q[s][i] = p
    BY DEF QueuedBy
  <1>3. x \in TakenBy(p, S, c) <=> \E s \in S : x = <<s, "taken", 0>> /\ c[s] = p
    BY DEF TakenBy
  <1> QED
    BY <1>1, <1>2, <1>3, Zenon DEF CopyOf, Held

LEMMA MapBound ==
  ASSUME NEW C, IsFiniteSet(C), NEW D, Moved(C, D)
  PROVE  IsFiniteSet(D) /\ Cardinality(D) \in Nat /\ Cardinality(D) <= Cardinality(C)
  <1>0. PICK f : \A d \in D : \E x \in C : f[x] = d
    BY Zenon DEF Moved
  <1> DEFINE T == {f[x] : x \in C}
             g == [x \in C |-> f[x]]
  <1>1. g \in Surjection(C, T)
    BY Zenon DEF Surjection
  <1>2. D \in SUBSET T
    BY <1>0, Zenon
  <1> HIDE DEF T, g
  <1>3. IsFiniteSet(T) /\ Cardinality(T) <= Cardinality(C)
    BY <1>1, FS_Surjection, Zenon
  <1>4. IsFiniteSet(D) /\ Cardinality(D) <= Cardinality(T)
    BY <1>2, <1>3, FS_Subset, Zenon
  <1>5. Cardinality(T) \in Nat /\ Cardinality(C) \in Nat /\ Cardinality(D) \in Nat
    BY <1>3, <1>4, FS_CardinalityType, Zenon
  <1> QED
    BY <1>3, <1>4, <1>5

\* A message moved from the queue into the hand, or dropped, is one copy still.
LEMMA HeldTake ==
  ASSUME NEW p, NEW l, NEW q, NEW c, NEW c2, NEW s \in Subs, NEW S \in SUBSET Subs, q \in [Subs -> Seq(Pubs)], q[s] # <<>>,
         c \in [Subs -> Pubs \cup {Nil}],
         c2 = c \/ c2 = [c EXCEPT ![s] = Head(q[s])]
  PROVE  Moved(Held(p, S, l, q, c), Held(p, S, l, [q EXCEPT ![s] = Tail(q[s])], c2))
  <1> DEFINE C == Held(p, S, l, q, c)
             q2 == [q EXCEPT ![s] = Tail(q[s])]
             f == [x \in C |-> IF x[1] = s /\ x[2] = "queued"
                               THEN IF x[3] = 1 THEN <<s, "taken", 0>> ELSE <<s, "queued", x[3] - 1>>
                               ELSE x]
  <1>1. /\ 1 \in DOMAIN q[s] /\ Head(q[s]) = q[s][1]
        /\ \A i \in DOMAIN Tail(q[s]) : i \in Nat /\ i + 1 \in DOMAIN q[s] /\ 1 < i + 1 /\ Tail(q[s])[i] = q[s][i + 1]
    BY TailIs
  <1>t. \A i \in DOMAIN Tail(q[s]) :
          i + 1 \in DOMAIN q[s] /\ q[s][i + 1] = Tail(q[s])[i] /\ i + 1 \in Nat /\ i + 1 # 1 /\ (i + 1) - 1 = i
    BY <1>1
  <1> SUFFICES ASSUME NEW d \in Held(p, S, l, q2, c2) PROVE \E x \in C : f[x] = d
    BY Zenon DEF Moved
  <1>c. CopyOf(d, p, S, l, q2, c2)
    <2> HIDE DEF q2
    <2> QED
      BY HeldIs
  <1>2. PICK u \in S :
             /\ \/ \E i \in DOMAIN l[u] : d = <<u, "handled", i>> /\ l[u][i] = p
                \/ \E i \in DOMAIN q2[u] : d = <<u, "queued", i>> /\ q2[u][i] = p
                \/ d = <<u, "taken", 0>> /\ c2[u] = p
    <2> HIDE DEF q2
    <2> QED
      BY <1>c, Zenon DEF CopyOf
  <1>3. ASSUME d \in C, ~(d[1] = s /\ d[2] = "queued") PROVE \E x \in C : f[x] = d
    BY <1>3, Zenon
  <1>4. ASSUME NEW i \in DOMAIN l[u], d = <<u, "handled", i>>, l[u][i] = p PROVE \E x \in C : f[x] = d
    <2>1. d[2] = "handled"
      BY <1>4
    <2>2. d \in C
      BY <1>2, <1>4, HeldIs, Zenon DEF CopyOf
    <2> QED
      BY <1>3, <2>1, <2>2
  <1>5. ASSUME d = <<u, "taken", 0>>, c[u] = p PROVE \E x \in C : f[x] = d
    <2>1. d[2] = "taken"
      BY <1>5
    <2>2. d \in C
      BY <1>2, <1>5, HeldIs, Zenon DEF CopyOf
    <2> QED
      BY <1>3, <2>1, <2>2
  <1>6. ASSUME u # s, NEW i \in DOMAIN q2[u], d = <<u, "queued", i>>, q2[u][i] = p PROVE \E x \in C : f[x] = d
    <2>1. d[1] = u /\ d[1] # s
      BY <1>6
    <2>2. q2[u] = q[u]
      BY <1>6, Zenon
    <2>3. d \in C
      BY <1>2, <1>6, <2>2, HeldIs, Zenon DEF CopyOf
    <2> QED
      BY <1>3, <2>1, <2>3, Zenon
  <1>7. ASSUME u = s, NEW i \in DOMAIN q2[u], d = <<u, "queued", i>>, q2[u][i] = p PROVE \E x \in C : f[x] = d
    <2> DEFINE x == <<s, "queued", i + 1>>
    <2>1. q2[s] = Tail(q[s])
      BY Zenon
    <2>i. i \in DOMAIN Tail(q[s]) /\ Tail(q[s])[i] = p
      BY <1>7, <2>1, Zenon
    <2>2. i + 1 \in DOMAIN q[s] /\ q[s][i + 1] = p /\ i + 1 \in Nat /\ i + 1 # 1 /\ (i + 1) - 1 = i
      BY <1>t, <2>i, Zenon
    <2>3. x \in C
      BY <1>2, <1>7, <2>2, HeldIs, Zenon DEF CopyOf
    <2>4. x[1] = s /\ x[2] = "queued" /\ x[3] = i + 1
      OBVIOUS
    <2>5. f[x] = <<s, "queued", i>>
      <3> HIDE DEF x, C
      <3>1. f[x] = <<s, "queued", x[3] - 1>>
        BY <2>2, <2>3, <2>4, Zenon
      <3> QED
        BY <2>2, <2>4, <3>1, Zenon
    <2> QED
      BY <1>7, <2>3, <2>5, Zenon
  <1>8. ASSUME u = s, d = <<u, "taken", 0>>, c2 = [c EXCEPT ![s] = Head(q[s])], c2[u] = p
        PROVE  \E x \in C : f[x] = d
    <2> DEFINE x == <<s, "queued", 1>>
    <2>1. q[s][1] = p /\ 1 \in Nat
      BY <1>1, <1>8
    <2>2. x \in C
      BY <1>1, <1>2, <1>8, <2>1, HeldIs, Zenon DEF CopyOf
    <2>3. x[1] = s /\ x[2] = "queued" /\ x[3] = 1
      OBVIOUS
    <2>4. f[x] = <<s, "taken", 0>>
      <3> HIDE DEF x, C
      <3> QED
        BY <2>2, <2>3, Zenon
    <2> QED
      BY <1>8, <2>2, <2>4, Zenon
  <1>9. u # s \/ c2 = c => c2[u] = c[u]
    BY Zenon
  <1> QED
    BY <1>2, <1>4, <1>5, <1>6, <1>7, <1>8, <1>9, Zenon

\* A message handed to the handler is one copy still; handler(nil) is none.
LEMMA HeldHandle ==
  ASSUME NEW p \in Pubs, NEW l \in [Subs -> Seq(Pubs \cup {Nil})], NEW q, NEW c \in [Subs -> Pubs \cup {Nil}],
         NEW s \in Subs, NEW S \in SUBSET Subs, NEW l2, NEW c2,
         \/ l2 = [l EXCEPT ![s] = Append(l[s], c[s])] /\ c2 = [c EXCEPT ![s] = Nil]
         \/ l2 = [l EXCEPT ![s] = Append(l[s], Nil)] /\ c2 = c
  PROVE  Moved(Held(p, S, l, q, c), Held(p, S, l2, q, c2))
  <1> DEFINE C == Held(p, S, l, q, c)
             last == <<s, "handled", Len(l[s]) + 1>>
             f == [x \in C |-> IF x = <<s, "taken", 0>> /\ c2 # c THEN last ELSE x]
  <1> SUFFICES ASSUME NEW d \in Held(p, S, l2, q, c2) PROVE \E x \in C : f[x] = d
    BY Zenon DEF Moved
  <1>n. p # Nil
    BY TerminusAssumption, Zenon
  <1>1. CopyOf(d, p, S, l2, q, c2)
    BY HeldIs
  <1>2. PICK u \in S :
          \/ \E i \in DOMAIN l2[u] : d = <<u, "handled", i>> /\ l2[u][i] = p
          \/ \E i \in DOMAIN q[u] : d = <<u, "queued", i>> /\ q[u][i] = p
          \/ d = <<u, "taken", 0>> /\ c2[u] = p
    BY <1>1, Zenon DEF CopyOf
  <1>3. ASSUME d \in C, d # <<s, "taken", 0>> \/ c2 = c PROVE \E x \in C : f[x] = d
    BY <1>3, Zenon
  <1>4. \A i, j : <<u, "handled", i>> # <<s, "taken", j>> /\ <<u, "queued", i>> # <<s, "taken", j>>
    OBVIOUS
  <1>5. ASSUME NEW i \in DOMAIN l[u], d = <<u, "handled", i>>, l[u][i] = p PROVE \E x \in C : f[x] = d
    <2>1. d \in C
      BY <1>5, HeldIs, Zenon DEF CopyOf
    <2> QED
      BY <1>3, <1>4, <1>5, <2>1, Zenon
  <1>6. ASSUME NEW i \in DOMAIN q[u], d = <<u, "queued", i>>, q[u][i] = p PROVE \E x \in C : f[x] = d
    <2>1. d \in C
      BY <1>6, HeldIs, Zenon DEF CopyOf
    <2> QED
      BY <1>3, <1>4, <1>6, <2>1, Zenon
  <1>7. ASSUME d = <<u, "taken", 0>>, c2[u] = p PROVE \E x \in C : f[x] = d
    <2>1. c2 = c \/ u # s
      BY <1>n, <1>7, Zenon
    <2>2. c[u] = p
      BY <1>7, <2>1, Zenon
    <2>3. d \in C
      BY <1>7, <2>2, HeldIs, Zenon DEF CopyOf
    <2>4. u # s => d # <<s, "taken", 0>>
      BY <1>7
    <2> QED
      BY <1>3, <2>1, <2>3, <2>4, Zenon
  <1>8. ASSUME u = s, d = last, c[s] = p, l2 = [l EXCEPT ![s] = Append(l[s], c[s])], c2 = [c EXCEPT ![s] = Nil]
        PROVE  \E x \in C : f[x] = d
    <2>1. <<s, "taken", 0>> \in C
      BY <1>8, HeldIs, Zenon DEF CopyOf
    <2>2. c2[s] # c[s]
      BY <1>n, <1>8, Zenon
    <2> HIDE DEF last, C
    <2>3. f[<<s, "taken", 0>>] = last
      BY <2>1, <2>2, Zenon
    <2> QED
      BY <1>8, <2>1, <2>3, Zenon
  <1>9. ASSUME NEW i \in DOMAIN l2[u], d = <<u, "handled", i>>, l2[u][i] = p PROVE \E x \in C : f[x] = d
    <2>1. CASE u # s
      <3>1. l2[u] = l[u]
        BY <2>1, Zenon
      <3> QED
        BY <1>5, <1>9, <3>1, Zenon
    <2>2. CASE u = s
      <3>a. \/ /\ l2[s] = Append(l[s], c[s])
               /\ l2 = [l EXCEPT ![s] = Append(l[s], c[s])] /\ c2 = [c EXCEPT ![s] = Nil]
            \/ l2[s] = Append(l[s], Nil)
        BY Zenon
      <3>1. PICK e : /\ l2[s] = Append(l[s], e)
                     /\ e = Nil \/ (e = c[s] /\ l2 = [l EXCEPT ![s] = Append(l[s], c[s])]
                                    /\ c2 = [c EXCEPT ![s] = Nil])
        BY <3>a, Zenon
      <3>2. l[s] \in Seq(Pubs \cup {Nil})
        BY Zenon
      <3>i. i \in DOMAIN Append(l[s], e)
        BY <1>9, <2>2, <3>1, Zenon
      <3>3. (i \in DOMAIN l[s] /\ Append(l[s], e)[i] = l[s][i]) \/ (i = Len(l[s]) + 1 /\ Append(l[s], e)[i] = e)
        BY <3>2, <3>i, AppendIs, Zenon
      <3>4. CASE i \in DOMAIN l[s] /\ Append(l[s], e)[i] = l[s][i]
        BY <1>5, <1>9, <2>2, <3>1, <3>4, Zenon
      <3>5. CASE i = Len(l[s]) + 1 /\ Append(l[s], e)[i] = e
        <4>1. e = p
          BY <1>9, <2>2, <3>1, <3>5, Zenon
        <4> QED
          BY <1>n, <1>8, <1>9, <2>2, <3>1, <3>5, <4>1, Zenon
      <3> QED
        BY <3>3, <3>4, <3>5, Zenon
    <2> QED
      BY <2>1, <2>2, Zenon
  <1> QED
    BY <1>2, <1>6, <1>7, <1>9, Zenon

\* A send adds at most one copy, of the message sent, and none for a
\* subscription outside S.
LEMMA HeldSend ==
  ASSUME NEW p \in Pubs, NEW r \in Pubs, NEW l, NEW q \in [Subs -> Seq(Pubs)], NEW c,
         NEW s \in Subs, NEW S \in SUBSET Subs
  PROVE  LET C == Held(r, S, l, q, c)
             D == Held(r, S, l, [q EXCEPT ![s] = Append(q[s], p)], c)
         IN  /\ D \subseteq C \cup {<<s, "queued", Len(q[s]) + 1>>}
             /\ r # p \/ s \notin S => D \subseteq C
  <1> DEFINE C == Held(r, S, l, q, c)
             q2 == [q EXCEPT ![s] = Append(q[s], p)]
             new == <<s, "queued", Len(q[s]) + 1>>
  <1>1. ASSUME NEW d \in Held(r, S, l, q2, c) PROVE d \in C \/ (r = p /\ s \in S /\ d = new)
    <2> HIDE DEF q2
    <2>1. CopyOf(d, r, S, l, q2, c)
      BY <1>1, HeldIs
    <2>2. PICK u \in S :
            \/ \E i \in DOMAIN l[u] : d = <<u, "handled", i>> /\ l[u][i] = r
            \/ \E i \in DOMAIN q2[u] : d = <<u, "queued", i>> /\ q2[u][i] = r
            \/ d = <<u, "taken", 0>> /\ c[u] = r
      BY <2>1, Zenon DEF CopyOf
    <2>3. ASSUME NEW i \in DOMAIN q2[u], d = <<u, "queued", i>>, q2[u][i] = r
          PROVE  d \in C \/ (r = p /\ s \in S /\ d = new)
      <3>1. CASE u # s
        <4>1. q2[u] = q[u]
          BY <3>1, Zenon DEF q2
        <4> QED
          BY <2>3, <4>1, HeldIs, Zenon DEF CopyOf
      <3>2. CASE u = s
        <4>1. q2[s] = Append(q[s], p) /\ q[s] \in Seq(Pubs)
          BY Zenon DEF q2
        <4>2. (i \in DOMAIN q[s] /\ q2[s][i] = q[s][i]) \/ (i = Len(q[s]) + 1 /\ q2[s][i] = p)
          BY <2>3, <3>2, <4>1, AppendIs, Zenon
        <4>3. CASE i \in DOMAIN q[s] /\ q2[s][i] = q[s][i]
          BY <2>3, <3>2, <4>3, HeldIs, Zenon DEF CopyOf
        <4>4. CASE i = Len(q[s]) + 1 /\ q2[s][i] = p
          BY <2>3, <3>2, <4>4, Zenon
        <4> QED
          BY <4>2, <4>3, <4>4, Zenon
      <3> QED
        BY <3>1, <3>2, Zenon
    <2> QED
      BY <2>2, <2>3, HeldIs, Zenon DEF CopyOf
  <1> HIDE DEF C, q2, new
  <1>2. /\ Held(r, S, l, q2, c) \subseteq C \cup {new}
        /\ r # p \/ s \notin S => Held(r, S, l, q2, c) \subseteq C
    BY <1>1, Zenon
  <1> QED
    BY <1>2, Zenon DEF C, q2, new

LEMMA LimitsStep == TypeOK /\ Limits /\ [Next]_vars => Limits'
  <1> SUFFICES ASSUME TypeOK, Limits, [Next]_vars, NEW r \in Pubs
               PROVE  /\ IsFiniteSet(Given(r)')
                      /\ Cardinality(Given(r)') <= count'[r]
                      /\ consumers[r] # 0 => Cardinality(Given(r)') <= consumers[r]
    BY Zenon DEF Limits
  <1> DEFINE S == {s \in Subs : ~tap[s]}
             C == Held(r, S, log, mqueue, cur)
             D == Held(r, S, log', mqueue', cur')
             Fine(X, n) == /\ IsFiniteSet(X) /\ Cardinality(X) <= n
                           /\ consumers[r] # 0 => Cardinality(X) <= consumers[r]
  <1>g. Given(r) = C /\ Given(r)' = D
    BY Zenon DEF Given, Copies
  <1>S. S \in SUBSET Subs
    BY Zenon
  <1>0. /\ mqueue \in [Subs -> Seq(Pubs)] /\ cur \in [Subs -> Pubs \cup {Nil}]
        /\ log \in [Subs -> Seq(Pubs \cup {Nil})]
        /\ list \in [Pubs -> Seq(Subs)] /\ count \in [Pubs -> Nat] /\ count[r] \in Nat
    BY Zenon DEF TypeOK
  <1>k. consumers[r] \in Nat
    BY TerminusAssumption, Zenon
  <1> HIDE DEF S, C, D
  <1>f. Fine(C, count[r]) /\ Cardinality(C) \in Nat
    BY <1>g, FS_CardinalityType, Zenon DEF Limits
  <1> SUFFICES Fine(D, count'[r])
    BY <1>g, Zenon
  \* A step that moves copies about leaves no more of them.
  <1>m. ASSUME Moved(C, D), count'[r] = count[r]
        PROVE  Fine(D, count'[r])
    <2>1. IsFiniteSet(D) /\ Cardinality(D) \in Nat /\ Cardinality(D) <= Cardinality(C)
      BY <1>f, <1>m, MapBound, Zenon
    <2> QED
      BY <1>0, <1>f, <1>k, <1>m, <2>1
  <1>e. ASSUME D \subseteq C, NEW n \in Nat, count[r] <= n PROVE Fine(D, n)
    <2>1. IsFiniteSet(D) /\ Cardinality(D) <= Cardinality(C) /\ Cardinality(D) \in Nat
      BY <1>e, <1>f, FS_Subset, FS_CardinalityType, Zenon
    <2> QED
      BY <1>0, <1>e, <1>f, <1>k, <2>1
  <1>1. ASSUME NEW s \in Subs, DispatchTake(s) PROVE Fine(D, count'[r])
    <2>1. /\ mqueue[s] # <<>> /\ count' = count /\ log' = log
          /\ mqueue' = [mqueue EXCEPT ![s] = Tail(mqueue[s])]
          /\ cur' = cur \/ cur' = [cur EXCEPT ![s] = Head(mqueue[s])]
      BY <1>1, Zenon DEF DispatchTake, pubVars
    <2>2. Moved(C, Held(r, S, log, [mqueue EXCEPT ![s] = Tail(mqueue[s])], cur'))
      BY <1>0, <1>S, <2>1, HeldTake, Zenon DEF C
    <2> QED
      BY <1>m, <2>1, <2>2, Zenon DEF D
  <1>2. ASSUME NEW s \in Subs, DispatchHandle(s) \/ DispatchEnd(s) PROVE Fine(D, count'[r])
    <2>1. /\ count' = count /\ mqueue' = mqueue
          /\ \/ log' = [log EXCEPT ![s] = Append(log[s], cur[s])] /\ cur' = [cur EXCEPT ![s] = Nil]
             \/ log' = [log EXCEPT ![s] = Append(log[s], Nil)] /\ cur' = cur
      BY <1>2, Zenon DEF DispatchHandle, DispatchEnd, pubVars
    <2>2. Moved(C, Held(r, S, log', mqueue, cur'))
      BY <1>0, <1>S, <2>1, HeldHandle, Zenon DEF C
    <2> QED
      BY <1>m, <2>1, <2>2, Zenon DEF D
  <1>3. ASSUME NEW p \in Pubs, PublishStart(p) \/ PublishShuffle(p) \/ PublishEnd(p) PROVE Fine(D, count'[r])
    <2>1. UNCHANGED <<mqueue, cur, log, count>>
      BY <1>3, Zenon DEF PublishStart, PublishShuffle, PublishEnd, dispVars
    <2> QED
      BY <1>f, <2>1, Zenon DEF C, D
  <1>4. ASSUME NEW p \in Pubs, PublishSend(p) PROVE Fine(D, count'[r])
    <2> DEFINE s == Head(list[p])
    <2>1. /\ UNCHANGED <<cur, log>> /\ list[p] # <<>>
          /\ \/ UNCHANGED <<mqueue, count>>
             \/ /\ ~LimitHit(p, s) /\ count' = [count EXCEPT ![p] = @ + 1]
                /\ mqueue' = mqueue \/ mqueue' = [mqueue EXCEPT ![s] = Append(mqueue[s], p)]
      BY <1>4, Zenon DEF PublishSend, Enqueue
    <2>2. s \in Subs
      <3>1. list[p] \in Seq(Subs)
        BY <1>0, Zenon
      <3> QED
        BY <2>1, <3>1
    <2> HIDE DEF s
    <2>3. CASE UNCHANGED <<mqueue, count>>
      BY <1>f, <2>1, <2>3, Zenon DEF C, D
    <2>4. ASSUME ~LimitHit(p, s), count' = [count EXCEPT ![p] = @ + 1] PROVE Fine(D, count'[r])
      <3>1. count'[r] \in Nat /\ count[r] <= count'[r] /\ (r = p => count'[r] = count[r] + 1)
        BY <1>0, <2>4
      <3>2. CASE mqueue' = mqueue
        <4>1. D \subseteq C
          BY <2>1, <3>2, Zenon DEF C, D
        <4> QED
          BY <1>e, <3>1, <4>1, Zenon
      <3>3. CASE mqueue' = [mqueue EXCEPT ![s] = Append(mqueue[s], p)]
        <4>1. /\ D \subseteq C \cup {<<s, "queued", Len(mqueue[s]) + 1>>}
              /\ r # p \/ s \notin S => D \subseteq C
          BY <1>0, <1>S, <2>1, <2>2, <3>3, HeldSend, Zenon DEF C, D
        <4>2. CASE r # p \/ s \notin S
          BY <1>e, <3>1, <4>1, <4>2, Zenon
        \* The limit was not reached, and the copies were counted.
        <4>3. CASE r = p /\ s \in S
          <5> DEFINE new == <<s, "queued", Len(mqueue[s]) + 1>>
                     E == C \cup {new}
          <5>1. IsFiniteSet(E) /\ Cardinality(E) <= Cardinality(C) + 1
            <6> HIDE DEF new
            <6>1. IsFiniteSet(E) /\ Cardinality(E) = IF new \in C THEN Cardinality(C) ELSE Cardinality(C) + 1
              BY <1>f, FS_AddElement, Zenon
            <6> HIDE DEF E
            <6> QED
              BY <1>f, <6>1
          <5> HIDE DEF E
          <5>2. IsFiniteSet(D) /\ Cardinality(D) <= Cardinality(E) /\ Cardinality(D) \in Nat /\ Cardinality(E) \in Nat
            BY <4>1, <5>1, FS_Subset, FS_CardinalityType, Zenon DEF E
          <5>3. consumers[r] # 0 => ~(count[r] >= consumers[r])
            BY <2>4, <4>3, Zenon DEF LimitHit, S
          <5> QED
            BY <1>0, <1>f, <1>k, <3>1, <4>3, <5>1, <5>2, <5>3
        <4> QED
          BY <4>2, <4>3, Zenon
      <3> QED
        BY <2>1, <2>3, <3>2, <3>3, Zenon
    <2> QED
      BY <2>1, <2>3, <2>4, Zenon
  <1>5. CASE UNCHANGED <<mqueue, cur, log, ppc, count>>
    BY <1>f, <1>5, Zenon DEF C, D
  <1> QED
    BY <1>1, <1>2, <1>3, <1>4, <1>5, StepOrders, Zenon

LEMMA InitLimits == Init => Limits
  <1> SUFFICES ASSUME Init, NEW p \in Pubs
               PROVE  /\ IsFiniteSet(Given(p)) /\ Cardinality(Given(p)) <= count[p]
                      /\ consumers[p] # 0 => Cardinality(Given(p)) <= consumers[p]
    BY Zenon DEF Limits
  <1> DEFINE S == {s \in Subs : ~tap[s]}
  <1>1. \A s \in S : log[s] = <<>> /\ cur[s] = Nil /\ mqueue[s] = <<>>
    BY Zenon DEF Init
  <1>2. count[p] = 0 /\ consumers[p] \in Nat /\ p # Nil
    BY TerminusAssumption, Zenon DEF Init
  <1>3. DOMAIN <<>> = {}
    OBVIOUS
  <1>4. Given(p) = Held(p, S, log, mqueue, cur)
    BY GivenIs, Zenon
  <1> HIDE DEF S
  <1>5. \A x : ~CopyOf(x, p, S, log, mqueue, cur)
    BY <1>1, <1>2, <1>3, Zenon DEF CopyOf
  <1>6. Given(p) = {}
    BY <1>4, <1>5, HeldIs
  <1>7. IsFiniteSet(Given(p)) /\ Cardinality(Given(p)) = 0
    BY <1>6, FS_EmptySet, Zenon
  <1> QED
    BY <1>2, <1>7

-----------------------------------------------------------------------------
(* The theorems *)

LEMMA IInvHolds == Spec => []IInv
  <1>1. IInv /\ [Next]_vars => IInv'
    BY TypeStep, ShapeStep, WalksStep, RoutesStep, EndsStep, LatesStep, Zenon DEF IInv
  <1> QED
    BY InitIInv, <1>1, PTL DEF Spec

\* Type correctness of the tree, the lock, every goroutine and every call; a
\* subscription's queue never holds more than its channel's capacity.
THEOREM TypeCorrect == Spec => []TypeOK
  <1>1. IInv => TypeOK
    BY Zenon DEF IInv
  <1> QED
    BY <1>1, IInvHolds, PTL

\* However subscribes, unsubscribes, cleanups and publishes race in the tree, a
\* handler is only given messages whose topic matches its subscription.
THEOREM OnlyMatchesDelivered == Spec => []DeliveredMatches
  <1>1. IInv => DeliveredMatches
    <2> SUFFICES ASSUME IInv, NEW s \in Subs, NEW i \in DOMAIN log[s], log[s][i] # Nil
                 PROVE  Matches(uriOf[s], topicOf[log[s][i]])
      BY Zenon DEF DeliveredMatches
    <2>1. log[s] \in Seq(Fits(s) \cup {Nil})
      BY Zenon DEF IInv, Routes
    <2>2. log[s][i] \in Fits(s)
      BY <2>1
    <2> QED
      BY <2>2, Zenon DEF Fits
  <1> QED
    BY <1>1, IInvHolds, PTL

\* handler(nil) is the last call a subscription's handler gets.
THEOREM EndOnce == Spec => []EndIsLast
  <1>1. IInv => EndIsLast
    BY Zenon DEF IInv, Ends, EndIsLast
  <1> QED
    BY <1>1, IInvHolds, PTL

\* At most one message is handled after a subscription's context is done.
THEOREM OneLate == Spec => []AtMostOneLate
  <1>1. IInv => AtMostOneLate
    BY Zenon DEF IInv, Lates, AtMostOneLate
  <1> QED
    BY <1>1, IInvHolds, PTL

\* Messages that one caller publishes one after the other are handled in that
\* order by every subscription, whichever of them are lost or listed twice.
THEOREM OrderKept == Spec => []PublisherOrder
  <1>1. Orders => PublisherOrder
    BY Zenon DEF Orders, Ordered, InOrder, PublisherOrder
  <1>2. Spec => []Orders
    BY InitOrders, OrdersStep, TypeCorrect, PTL DEF Spec
  <1> QED
    BY <1>1, <1>2, PTL

\* A publication with a consumer limit is given to at most that many
\* subscriptions that are not taps: Publish counts every copy it queues.
THEOREM LimitKept == Spec => []ConsumerLimit
  <1>1. Limits => ConsumerLimit
    BY Zenon DEF Limits, Given, ConsumerLimit
  <1>2. Spec => []Limits
    BY InitLimits, LimitsStep, TypeCorrect, PTL DEF Spec
  <1> QED
    BY <1>1, <1>2, PTL
=============================================================================
