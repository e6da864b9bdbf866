-------------------------------- MODULE Store --------------------------------
(***************************************************************************)
(* Writers of the message store (PutMessage of internal/store/store.go).   *)
(*                                                                         *)
(* A message is kept under its topic in one column family and under the    *)
(* interlaced topic (first cell, last cell, second cell, ...) in another.  *)
(* Wildcard queries walk these keys cell by cell, so each proper prefix of *)
(* a key needs an entry too: a dummy where there is no message.  PutMessage*)
(* writes the two messages and then the missing prefixes, longest first,   *)
(* up to the first that exists.  Every access of the database is a step,   *)
(* any number of puts run at once, and the process may stop between steps. *)
(***************************************************************************)
EXTENDS Naturals, Sequences

CONSTANTS Puts,      \* calls of PutMessage; a call also stands for its payload
          topicOf,   \* [Puts -> topics]
          None,      \* no entry
          Dummy      \* the one-byte entry of a prefix (IsDummy)

ASSUME StoreAssumption ==
  /\ \A w \in Puts : topicOf[w] \in Seq(STRING) /\ topicOf[w] # <<>>
  /\ None \notin Puts /\ Dummy \notin Puts /\ None # Dummy

Family == {"Msg", "MsgI"}

InterlaceURI(uri) ==
  [i \in 1 .. Len(uri) |-> IF i % 2 = 1 THEN uri[(i + 1) \div 2] ELSE uri[Len(uri) + 1 - i \div 2]]

Path(cf, w) == IF cf = "Msg" THEN topicOf[w] ELSE InterlaceURI(topicOf[w])
Depth(w) == Len(topicOf[w])

Prefix(uri, n) == [i \in 1 .. n |-> uri[i]]

KeysOf(cf, w) == {Prefix(Path(cf, w), n) : n \in 1 .. Depth(w)}
Key == UNION {KeysOf(cf, w) : cf \in Family, w \in Puts}

VARIABLES db,        \* the column families
          pc,        \* where a put is
          at,        \* the length of the prefix it has come to
          overlap    \* history: puts that ran at the same time

storeVars == <<db, pc, at, overlap>>

Running == {w \in Puts : pc[w] \notin {"idle", "done", "torn"}}

\* Each message is a put's, in "Msg" under that put's topic; prefixes are cut
\* from the put's own topic.
StoreTypeOK ==
  /\ db \in [Family -> [Key -> Puts \cup {None, Dummy}]]
  /\ pc \in [Puts -> {"idle", "leaf", "check", "dummy", "checkI", "dummyI", "done", "torn"}]
  /\ at \in [Puts -> Nat] /\ \A w \in Puts : at[w] < Depth(w)
  /\ overlap \subseteq Puts \X Puts

\* The database as completed puts leave it, one after the other.
Contents(stored) ==
  [cf \in Family |-> [k \in Key |->
     IF \E w \in stored : Path(cf, w) = k THEN CHOOSE w \in stored : Path(cf, w) = k
     ELSE IF \E w \in stored : \E n \in 1 .. Depth(w) : Prefix(Path(cf, w), n) = k THEN Dummy
     ELSE None]]

StoreInit(stored) ==
  /\ db = Contents(stored)
  /\ pc = [w \in Puts |-> IF w \in stored THEN "done" ELSE "idle"]
  /\ at = [w \in Puts |-> 0]
  /\ overlap = {}

Put(cf, k, v) == db' = [db EXCEPT ![cf][k] = v]
Exists(cf, k) == db[cf][k] # None

\* The message under its interlaced topic ...
PutStart(w) ==
  /\ pc[w] = "idle"
  /\ Put("MsgI", Path("MsgI", w), w)
  /\ pc' = [pc EXCEPT ![w] = "leaf"]
  /\ overlap' = overlap \cup ({w} \X Running) \cup (Running \X {w})
  /\ UNCHANGED at

\* Where the loop over the prefixes of a family goes with i still to do.
CheckOf(cf) == IF cf = "Msg" THEN "check" ELSE "checkI"
Loop(w, cf, i) ==
  \/ /\ i > 0
     /\ pc' = [pc EXCEPT ![w] = CheckOf(cf)] /\ at' = [at EXCEPT ![w] = i]
  \/ /\ i = 0 /\ cf = "Msg" /\ Depth(w) > 1
     /\ pc' = [pc EXCEPT ![w] = "checkI"] /\ at' = [at EXCEPT ![w] = Depth(w) - 1]
  \/ /\ i = 0 /\ (cf = "MsgI" \/ Depth(w) = 1)
     /\ pc' = [pc EXCEPT ![w] = "done"] /\ at' = [at EXCEPT ![w] = 0]

\* bug: the loop begins at the message itself
PutLeafFull(w) ==
  /\ pc[w] = "leaf"
  /\ Put("Msg", Path("Msg", w), w)
  /\ Loop(w, "Msg", Depth(w))
  /\ UNCHANGED overlap

\* ... and under its topic.
PutLeaf(w) ==
  /\ pc[w] = "leaf"
  /\ Put("Msg", Path("Msg", w), w)
  /\ Loop(w, "Msg", Depth(w) - 1)
  /\ UNCHANGED overlap

\* bug: the dummy is written whatever is there
PutCheckBlind(w, cf, check, dummy) ==
  /\ pc[w] = check
  /\ pc' = [pc EXCEPT ![w] = dummy]
  /\ UNCHANGED <<db, at, overlap>>

\* bug: the shortest prefix is left out
PutCheckShort(w, cf, check, dummy) ==
  /\ pc[w] = check
  /\ IF Exists(cf, Prefix(Path(cf, w), at[w])) \/ at[w] = 1
     THEN Loop(w, cf, 0)
     ELSE pc' = [pc EXCEPT ![w] = dummy] /\ UNCHANGED at
  /\ UNCHANGED <<db, overlap>>

\* "We assume that if a path exists, all its parents exist"
PutCheck(w, cf, check, dummy) ==
  /\ pc[w] = check
  /\ IF Exists(cf, Prefix(Path(cf, w), at[w]))
     THEN Loop(w, cf, 0)
     ELSE pc' = [pc EXCEPT ![w] = dummy] /\ UNCHANGED at
  /\ UNCHANGED <<db, overlap>>

PutDummy(w, cf, dummy) ==
  /\ pc[w] = dummy
  /\ Put(cf, Prefix(Path(cf, w), at[w]), Dummy)
  /\ Loop(w, cf, at[w] - 1)
  /\ UNCHANGED overlap

PutMessage(w) ==
  \/ PutStart(w) \/ PutLeaf(w)
  \/ PutCheck(w, "Msg", "check", "dummy") \/ PutDummy(w, "Msg", "dummy")
  \/ PutCheck(w, "MsgI", "checkI", "dummyI") \/ PutDummy(w, "MsgI", "dummyI")

\* The process stops; what was written stays.
Crash ==
  /\ Running # {}
  /\ pc' = [w \in Puts |-> IF w \in Running THEN "torn" ELSE pc[w]]
  /\ UNCHANGED <<db, at, overlap>>

StoreNext == Crash \/ \E w \in Puts : PutMessage(w)

StoreSpec == (\E stored \in SUBSET Puts : StoreInit(stored)) /\ [][StoreNext]_storeVars

-----------------------------------------------------------------------------
(* Properties *)

Above(k) == {Prefix(k, n) : n \in 1 .. Len(k) - 1}

\* The assumption at which PutMessage stops its loop: once no put is under way
\* each prefix of an entry has one, in both families.  A prefix can only be
\* missing if it is one of a put that a crash interrupted.
PathsClosed ==
  Running = {} =>
    \A cf \in Family : \A k \in Key : db[cf][k] # None =>
      \A a \in Above(k) :
        db[cf][a] # None \/ \E w \in Puts : pc[w] = "torn" /\ a \in Above(Path(cf, w))

\* PutMessage looks whether a prefix exists and then writes the dummy: it may
\* overwrite a message, but only that of a put that ran at the same time.  What
\* was stored alone stays.
LostOnlyToRace ==
  \A u \in Puts :
    pc[u] = "done" /\ db["Msg"][topicOf[u]] = Dummy =>
      \E w \in Puts : <<u, w>> \in overlap /\ topicOf[u] \in Above(topicOf[w])
=============================================================================
