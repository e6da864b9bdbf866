--------------------------- MODULE RegistryProofs ---------------------------
(***************************************************************************)
(* What no transaction of the registry undoes, for any objects and any     *)
(* chains of DOTs.                                                         *)
(***************************************************************************)
EXTENDS Resolution, FiniteSetTheorems, WellFoundedInduction, NaturalsInduction, TLAPS

-----------------------------------------------------------------------------
(* Induction *)

LEMMA Least ==
  ASSUME NEW T, T \subseteq Nat, T # {}
  PROVE  \E x \in T : \A y \in T : x <= y
<1>1. PICK x \in T : \A y \in T : ~(<<y, x>> \in OpToRel(<, Nat))
  BY NatLessThanWellFounded, WFMin, Zenon
<1>2. ASSUME NEW y \in T PROVE x <= y
  <2>1. x \in Nat /\ y \in Nat
    OBVIOUS
  <2>2. y < x => <<y, x>> \in OpToRel(<, Nat)
    BY <2>1, Zenon DEF OpToRel
  <2>3. ~(y < x)
    BY <1>1, <2>2, Zenon
  <2> QED
    BY <2>1, <2>3
<1> QED
  BY <1>2, Zenon

\* What holds at first and is kept by each step holds up to N.
LEMMA UpTo ==
  ASSUME NEW N \in Nat, NEW T, 0 \in T, \A n \in 1 .. N : n - 1 \in T => n \in T
  PROVE  0 .. N \subseteq T
<1> SUFFICES ASSUME (0 .. N) \ T # {} PROVE FALSE
  OBVIOUS
<1>1. (0 .. N) \ T \subseteq Nat
  OBVIOUS
<1>2. PICK x \in (0 .. N) \ T : \A y \in (0 .. N) \ T : x <= y
  BY <1>1, Least, Zenon
<1>3. x \in 1 .. N /\ x - 1 \in 0 .. N /\ ~(x <= x - 1)
  BY <1>2
<1>4. x - 1 \in T
  BY <1>2, <1>3, Zenon
<1> QED
  BY <1>2, <1>3, <1>4, Zenon

\* f goes from b along g.
Follows(N, b, g, f) == f[0] = b /\ \A n \in 1 .. N : f[n] = g[<<n, f[n - 1]>>]

\* There is such an f: recursive functions over 0 .. N are defined.
LEMMA Recursion ==
  ASSUME NEW N \in Nat, NEW S, NEW b \in S, NEW g \in [(1 .. N) \X S -> S]
  PROVE  \E f \in [0 .. N -> S] : Follows(N, b, g, f)
<1> DEFINE T == {m \in 0 .. N : \E f \in [0 .. m -> S] : Follows(m, b, g, f)}
<1>1. 0 \in T
  <2> DEFINE f0 == [k \in 0 .. 0 |-> b]
  <2>1. f0 \in [0 .. 0 -> S] /\ Follows(0, b, g, f0)
    BY DEF Follows
  <2> HIDE DEF f0
  <2> QED
    BY <2>1
<1>2. ASSUME NEW m \in 1 .. N, m - 1 \in T PROVE m \in T
  <2>1. PICK f \in [0 .. m - 1 -> S] : Follows(m - 1, b, g, f)
    BY <1>2, Zenon
  <2>2. f[m - 1] \in S /\ <<m, f[m - 1]>> \in (1 .. N) \X S
    OBVIOUS
  <2> DEFINE h == [k \in 0 .. m |-> IF k = m THEN g[<<m, f[m - 1]>>] ELSE f[k]]
  <2>3. h \in [0 .. m -> S] /\ h[0] = b
    BY <2>1, <2>2 DEF Follows
  <2>4. ASSUME NEW n \in 1 .. m PROVE h[n] = g[<<n, h[n - 1]>>]
    <3>1. CASE n = m
      BY <2>2, <3>1
    <3>2. CASE n # m
      BY <2>1, <3>2 DEF Follows
    <3> QED
      BY <3>1, <3>2, Zenon
  <2> HIDE DEF h
  <2> QED
    BY <2>3, <2>4 DEF Follows
<1>3. N \in T
  <2> HIDE DEF T
  <2> QED
    BY <1>1, <1>2, UpTo
<1> QED
  BY <1>3, Zenon

-----------------------------------------------------------------------------
(* What transactions keep *)

\* What may become of the validity of an object in time.
Ages(a, b) == a = b \/ a = "Unknown" \/ (a = "Valid" /\ b # "Unknown")

Extends(q, r) == Len(q) <= Len(r) /\ \A i \in 1 .. Len(q) : r[i] = q[i]

\* Validities age, and lists of grants only get longer.
Grows(old, new) ==
  /\ \A e \in Entities : Ages(old.entity[e], new.entity[e]) /\ Extends(old.granted[e], new.granted[e])
  /\ \A d \in DOTs : Ages(old.dot[d], new.dot[d])

\* The DOTs that are known are listed, once, under their givers.
Listed(reg) ==
  /\ \A e \in Entities :
       /\ IsInjective(reg.granted[e])
       /\ \A i \in DOMAIN reg.granted[e] :
            giver[reg.granted[e][i]] = e /\ reg.dot[reg.granted[e][i]] # "Unknown"
  /\ \A d \in DOTs : reg.dot[d] # "Unknown" => \E i \in DOMAIN reg.granted[giver[d]] : reg.granted[giver[d]][i] = d

Step(old, new) == new \in Storage /\ Grows(old, new) /\ (Listed(old) => Listed(new))

\* Nothing is revoked and no DOT becomes known.
Silent(old, new) ==
  /\ \A e \in Entities : new.entity[e] = "Revoked" => old.entity[e] = "Revoked"
  /\ \A d \in DOTs : new.dot[d] = "Revoked" => old.dot[d] = "Revoked"
  /\ \A d \in DOTs : old.dot[d] = "Unknown" => new.dot[d] = "Unknown"

\* What the events tell of the way from one storage to another.
Logged(old, new, logs) ==
  /\ \A e \in Entities : new.entity[e] = "Revoked" /\ old.entity[e] # "Revoked" => <<"RevokeEntity", e>> \in Range(logs)
  /\ \A d \in DOTs : new.dot[d] = "Revoked" /\ old.dot[d] # "Revoked" => <<"RevokeDOT", d>> \in Range(logs)
  /\ \A d \in DOTs : new.dot[d] # "Unknown" /\ old.dot[d] = "Unknown" => <<"AddDOT", d>> \in Range(logs)

LEMMA StorageIs ==
  ASSUME NEW reg \in Storage
  PROVE  /\ \A e \in Entities : reg.entity[e] \in Validity /\ reg.granted[e] \in Seq(DOTs)
         /\ \A d \in DOTs : reg.dot[d] \in Validity
         /\ \A c \in Chains : reg.chain[c] \in Validity
BY Zenon DEF Storage

LEMMA ExtendsSelf ==
  ASSUME NEW q \in Seq(DOTs)
  PROVE  Extends(q, q)
BY DEF Extends

LEMMA ExtendsOn ==
  ASSUME NEW q \in Seq(DOTs), NEW r \in Seq(DOTs), NEW s \in Seq(DOTs), Extends(q, r), Extends(r, s)
  PROVE  Extends(q, s)
BY DEF Extends

LEMMA StepSelf ==
  ASSUME NEW reg \in Storage
  PROVE  Step(reg, reg) /\ Silent(reg, reg)
BY StorageIs, ExtendsSelf, Zenon DEF Step, Grows, Ages, Silent

LEMMA StepOn ==
  ASSUME NEW a \in Storage, NEW b, NEW c, Step(a, b), Step(b, c)
  PROVE  Step(a, c)
<1>1. b \in Storage /\ c \in Storage
  BY Zenon DEF Step
<1>2. ASSUME NEW e \in Entities PROVE Ages(a.entity[e], c.entity[e]) /\ Extends(a.granted[e], c.granted[e])
  <2>1. Ages(a.entity[e], b.entity[e]) /\ Ages(b.entity[e], c.entity[e])
    BY Zenon DEF Step, Grows
  <2>2. Extends(a.granted[e], b.granted[e]) /\ Extends(b.granted[e], c.granted[e])
    BY Zenon DEF Step, Grows
  <2>3. a.granted[e] \in Seq(DOTs) /\ b.granted[e] \in Seq(DOTs) /\ c.granted[e] \in Seq(DOTs)
    BY <1>1, StorageIs, Zenon
  <2> QED
    BY <2>1, <2>2, <2>3, ExtendsOn, Zenon DEF Ages
<1>3. ASSUME NEW d \in DOTs PROVE Ages(a.dot[d], c.dot[d])
  BY Zenon DEF Step, Grows, Ages
<1> QED
  BY <1>1, <1>2, <1>3, Zenon DEF Step, Grows

LEMMA SilentOn ==
  ASSUME NEW a, NEW b, NEW c, Silent(a, b), Silent(b, c)
  PROVE  Silent(a, c)
BY Zenon DEF Silent

LEMMA SilentLogged ==
  ASSUME NEW a, NEW b, Silent(a, b), NEW logs
  PROVE  Logged(a, b, logs)
BY Zenon DEF Silent, Logged

-----------------------------------------------------------------------------
(* What assignments to the storage keep *)

LEMMA SetEntity ==
  ASSUME NEW reg \in Storage, NEW e \in Entities, NEW v \in Validity, Ages(reg.entity[e], v)
  PROVE  /\ Step(reg, [reg EXCEPT !.entity[e] = v])
         /\ v # "Revoked" => Silent(reg, [reg EXCEPT !.entity[e] = v])
<1> DEFINE new == [reg EXCEPT !.entity[e] = v]
<1>1. new \in Storage
  BY Zenon DEF Storage
<1>2. /\ \A x \in Entities : new.entity[x] = IF x = e THEN v ELSE reg.entity[x]
      /\ new.dot = reg.dot /\ new.granted = reg.granted
  BY Zenon DEF Storage
<1> HIDE DEF new
<1>3. Grows(reg, new)
  BY <1>2, StorageIs, ExtendsSelf, Zenon DEF Grows, Ages
<1>4. Listed(reg) => Listed(new)
  BY <1>2 DEF Listed
<1>5. v # "Revoked" => Silent(reg, new)
  BY <1>2, Zenon DEF Silent
<1> QED
  BY <1>1, <1>3, <1>4, <1>5, Zenon DEF Step, new

LEMMA SetDOT ==
  ASSUME NEW reg \in Storage, NEW d \in DOTs, NEW v \in Validity, reg.dot[d] = "Valid", v # "Unknown"
  PROVE  /\ Step(reg, [reg EXCEPT !.dot[d] = v])
         /\ v # "Revoked" => Silent(reg, [reg EXCEPT !.dot[d] = v])
<1> DEFINE new == [reg EXCEPT !.dot[d] = v]
<1>1. new \in Storage
  BY Zenon DEF Storage
<1>2. /\ \A x \in DOTs : new.dot[x] = IF x = d THEN v ELSE reg.dot[x]
      /\ new.entity = reg.entity /\ new.granted = reg.granted
  BY Zenon DEF Storage
<1> HIDE DEF new
<1>3. Grows(reg, new)
  BY <1>2, StorageIs, ExtendsSelf, Zenon DEF Grows, Ages
<1>4. Listed(reg) => Listed(new)
  BY <1>2, StorageIs DEF Listed
<1>5. v # "Revoked" => Silent(reg, new)
  BY <1>2, Zenon DEF Silent
<1> QED
  BY <1>1, <1>3, <1>4, <1>5, Zenon DEF Step, new

LEMMA SetChain ==
  ASSUME NEW reg \in Storage, NEW c \in Chains
  PROVE  Step(reg, [reg EXCEPT !.chain[c] = "Valid"]) /\ Silent(reg, [reg EXCEPT !.chain[c] = "Valid"])
<1> DEFINE new == [reg EXCEPT !.chain[c] = "Valid"]
<1>1. new \in Storage
  BY Zenon DEF Storage, Validity
<1>2. new.dot = reg.dot /\ new.entity = reg.entity /\ new.granted = reg.granted
  BY Zenon DEF Storage
<1> HIDE DEF new
<1>3. Grows(reg, new) /\ Silent(reg, new)
  BY <1>2, StorageIs, ExtendsSelf, Zenon DEF Grows, Ages, Silent
<1>4. Listed(reg) => Listed(new)
  BY <1>2 DEF Listed
<1> QED
  BY <1>1, <1>3, <1>4, Zenon DEF Step, new

LEMMA Appended ==
  ASSUME NEW S, NEW q \in Seq(S), NEW x \in S
  PROVE  /\ Append(q, x) \in Seq(S) /\ Len(q) \in Nat
         /\ DOMAIN q = 1 .. Len(q) /\ DOMAIN Append(q, x) = 1 .. Len(q) + 1 /\ Len(Append(q, x)) = Len(q) + 1
         /\ \A i \in 1 .. Len(q) : Append(q, x)[i] = q[i] /\ q[i] \in S
         /\ Append(q, x)[Len(q) + 1] = x
OBVIOUS

LEMMA SetGrant ==
  ASSUME NEW reg \in Storage, NEW d \in DOTs, reg.dot[d] = "Unknown"
  PROVE  LET new == [reg EXCEPT !.dot[d] = "Valid", !.granted[giver[d]] = Append(@, d)]
         IN /\ Step(reg, new)
            /\ new.entity = reg.entity
            /\ \A x \in DOTs : new.dot[x] = IF x = d THEN "Valid" ELSE reg.dot[x]
<1> DEFINE new == [reg EXCEPT !.dot[d] = "Valid", !.granted[giver[d]] = Append(@, d)]
<1>0. giver[d] \in Entities /\ giver \in [DOTs -> Entities]
  BY RegistryAssumption, Zenon
<1>3. \A e \in Entities : reg.granted[e] \in Seq(DOTs)
  BY StorageIs, Zenon
<1>1. new \in Storage
  <2>1. Append(reg.granted[giver[d]], d) \in Seq(DOTs)
    BY <1>0, <1>3, Appended, Zenon
  <2> QED
    BY <1>0, <2>1, Zenon DEF Storage, Validity
<1>2. /\ \A x \in DOTs : new.dot[x] = IF x = d THEN "Valid" ELSE reg.dot[x]
      /\ \A e \in Entities : new.granted[e] = IF e = giver[d] THEN Append(reg.granted[e], d) ELSE reg.granted[e]
      /\ new.entity = reg.entity
  BY <1>0, Zenon DEF Storage
<1> HIDE DEF new
<1>4. ASSUME NEW e \in Entities PROVE Extends(reg.granted[e], new.granted[e])
  <2>1. Extends(reg.granted[e], Append(reg.granted[e], d))
    BY <1>3, Appended DEF Extends
  <2> QED
    BY <1>2, <1>3, <2>1, ExtendsSelf, Zenon
<1>5. Grows(reg, new)
  BY <1>2, <1>4, Zenon DEF Grows, Ages
<1>6. ASSUME Listed(reg) PROVE Listed(new)
  <2>1. ASSUME NEW e \in Entities
        PROVE  /\ IsInjective(new.granted[e])
               /\ \A i \in DOMAIN new.granted[e] :
                    giver[new.granted[e][i]] = e /\ new.dot[new.granted[e][i]] # "Unknown"
    <3>1. /\ IsInjective(reg.granted[e])
          /\ \A i \in DOMAIN reg.granted[e] :
               giver[reg.granted[e][i]] = e /\ reg.dot[reg.granted[e][i]] # "Unknown" /\ reg.granted[e][i] # d
      BY <1>6 DEF Listed
    <3>2. CASE e # giver[d]
      BY <1>2, <1>3, <3>1, <3>2
    <3>3. CASE e = giver[d]
      <4> DEFINE q == reg.granted[e]
      <4>1. /\ new.granted[e] = Append(q, d) /\ q \in Seq(DOTs)
            /\ IsInjective(q)
            /\ \A i \in DOMAIN q : giver[q[i]] = e /\ reg.dot[q[i]] # "Unknown" /\ q[i] # d /\ q[i] \in DOTs
        <5>1. new.granted[e] = Append(q, d) /\ q \in Seq(DOTs)
          BY <1>2, <1>3, <3>3, Zenon
        <5>2. \A i \in DOMAIN q : q[i] \in DOTs
          BY <5>1, Appended, ZenonT(30)
        <5> QED
          BY <3>1, <5>1, <5>2, Zenon
      <4> HIDE DEF q
      <4>2. /\ DOMAIN q = 1 .. Len(q) /\ Len(q) \in Nat /\ DOMAIN Append(q, d) = 1 .. Len(q) + 1
            /\ \A i \in 1 .. Len(q) : Append(q, d)[i] = q[i]
            /\ Append(q, d)[Len(q) + 1] = d
        BY <4>1, Appended
      <4>3. \A i \in 1 .. Len(q) + 1 : i \in 1 .. Len(q) \/ i = Len(q) + 1
        BY <4>2
      <4>4. IsInjective(Append(q, d))
        BY <4>1, <4>2, <4>3 DEF IsInjective
      <4>5. \A i \in DOMAIN Append(q, d) : giver[Append(q, d)[i]] = e /\ new.dot[Append(q, d)[i]] # "Unknown"
        BY <1>2, <3>3, <4>1, <4>2, <4>3
      <4> QED
        BY <4>1, <4>4, <4>5, Zenon
    <3> QED
      BY <3>2, <3>3, Zenon
  <2>2. ASSUME NEW x \in DOTs, new.dot[x] # "Unknown"
        PROVE  \E i \in DOMAIN new.granted[giver[x]] : new.granted[giver[x]][i] = x
    <3>1. giver[x] \in Entities /\ reg.granted[giver[x]] \in Seq(DOTs)
      BY <1>0, <1>3, Zenon
    <3>2. CASE x = d
      <4> DEFINE q == reg.granted[giver[x]]
      <4>1. new.granted[giver[x]] = Append(q, x)
        BY <1>2, <3>1, <3>2, Zenon
      <4>2. q \in Seq(DOTs)
        BY <3>1, Zenon
      <4> HIDE DEF q
      <4>3. Len(q) \in Nat /\ DOMAIN Append(q, x) = 1 .. Len(q) + 1 /\ Append(q, x)[Len(q) + 1] = x
        BY <4>2, Appended
      <4>4. Len(q) + 1 \in DOMAIN Append(q, x)
        BY <4>3
      <4> HIDE DEF new
      <4> QED
        BY <4>1, <4>3, <4>4, Zenon
    <3>3. CASE x # d
      <4>1. PICK i \in DOMAIN reg.granted[giver[x]] : reg.granted[giver[x]][i] = x
        BY <1>2, <1>6, <2>2, <3>3, Zenon DEF Listed
      <4>2. i \in DOMAIN new.granted[giver[x]] /\ new.granted[giver[x]][i] = x
        <5>1. new.granted[giver[x]] \in {reg.granted[giver[x]], Append(reg.granted[giver[x]], d)}
          BY <1>2, <3>1, Zenon
        <5>2. i \in DOMAIN Append(reg.granted[giver[x]], d) /\ Append(reg.granted[giver[x]], d)[i] = x
          BY <3>1, <4>1, Appended
        <5> QED
          BY <4>1, <5>1, <5>2, Zenon
      <4> QED
        BY <4>2, Zenon
    <3> QED
      BY <3>2, <3>3, Zenon
  <2> QED
    BY <2>1, <2>2, Zenon DEF Listed
<1> QED
  BY <1>1, <1>2, <1>5, <1>6, Zenon DEF Step, new

-----------------------------------------------------------------------------
(* Transactions *)

LEMMA CheckEntityKeeps ==
  ASSUME NEW reg \in Storage, NEW e \in Entities, NEW time
  PROVE  Step(reg, CheckEntity(reg, e, time)) /\ Silent(reg, CheckEntity(reg, e, time))
BY SetEntity, StepSelf, Zenon DEF CheckEntity, Ages, Validity

LEMMA CheckDOTKeeps ==
  ASSUME NEW reg \in Storage, NEW d \in DOTs, NEW time
  PROVE  Step(reg, CheckDOT(reg, d, time)) /\ Silent(reg, CheckDOT(reg, d, time))
BY SetDOT, StepSelf, Zenon DEF CheckDOT, Validity

LEMMA CheckEntitiesKeeps ==
  ASSUME NEW reg \in Storage, NEW d \in DOTs, NEW time
  PROVE  /\ Step(reg, CheckEntities(reg, d, time)) /\ Silent(reg, CheckEntities(reg, d, time))
         /\ CheckEntities(reg, d, time).dot = reg.dot
<1> DEFINE one == CheckEntity(reg, giver[d], time)
           two == CheckEntity(one, receiver[d], time)
<1>0. giver[d] \in Entities /\ receiver[d] \in Entities
  BY RegistryAssumption, Zenon
<1>1. Step(reg, one) /\ Silent(reg, one) /\ one \in Storage
  BY <1>0, CheckEntityKeeps, Zenon DEF Step
<1>2. Step(one, two) /\ Silent(one, two)
  <2> HIDE DEF one
  <2> QED
    BY <1>0, <1>1, CheckEntityKeeps, Zenon
<1>3. one.dot = reg.dot
  BY Zenon DEF CheckEntity, Storage
<1>4. two.dot = one.dot
  <2> HIDE DEF one
  <2> QED
    BY <1>1, Zenon DEF CheckEntity, Storage
<1>5. CheckEntities(reg, d, time) = two
  BY Zenon DEF CheckEntities
<1> HIDE DEF one, two
<1> QED
  BY <1>1, <1>2, <1>3, <1>4, <1>5, StepOn, SilentOn, Zenon

LEMMA AddEntityKeeps ==
  ASSUME NEW reg \in Storage, NEW e \in Entities, NEW time
  PROVE  Step(reg, AddEntity(reg, e, time)) /\ Silent(reg, AddEntity(reg, e, time))
BY SetEntity, StepSelf, Zenon DEF AddEntity, Ages, Validity

\* Only the DOT that is added becomes known.
Adds(old, new, d) ==
  /\ \A e \in Entities : new.entity[e] = "Revoked" => old.entity[e] = "Revoked"
  /\ \A x \in DOTs : new.dot[x] = "Revoked" => old.dot[x] = "Revoked"
  /\ \A x \in DOTs \ {d} : old.dot[x] = "Unknown" => new.dot[x] = "Unknown"

LEMMA AddDOTKeeps ==
  ASSUME NEW reg \in Storage, NEW d \in DOTs, NEW time
  PROVE  Step(reg, AddDOT(reg, d, time)) /\ Adds(reg, AddDOT(reg, d, time), d)
<1> DEFINE checked == CheckEntities(reg, d, time)
           new == [checked EXCEPT !.dot[d] = "Valid", !.granted[giver[d]] = Append(@, d)]
<1>1. Step(reg, checked) /\ Silent(reg, checked) /\ checked \in Storage
  BY CheckEntitiesKeeps, Zenon DEF Step
<1>2. AddDOT(reg, d, time) = checked \/ (checked.dot[d] = "Unknown" /\ AddDOT(reg, d, time) = new)
  BY Zenon DEF AddDOT
<1>3. Adds(reg, checked, d)
  <2> HIDE DEF checked
  <2> QED
    BY <1>1, Zenon DEF Silent, Adds
<1>4. ASSUME checked.dot[d] = "Unknown" PROVE Step(reg, new) /\ Adds(reg, new, d)
  <2> HIDE DEF checked
  <2>1. /\ Step(checked, new) /\ new.entity = checked.entity
        /\ \A x \in DOTs : new.dot[x] = IF x = d THEN "Valid" ELSE checked.dot[x]
    BY <1>1, <1>4, SetGrant, Zenon
  <2> HIDE DEF new
  <2>2. Step(reg, new)
    BY <1>1, <2>1, StepOn, Zenon
  <2>3. Adds(reg, new, d)
    BY <1>1, <2>1, Zenon DEF Silent, Adds
  <2> QED
    BY <2>2, <2>3, Zenon
<1> HIDE DEF checked, new
<1> QED
  BY <1>1, <1>2, <1>3, <1>4, Zenon

\* What is known of a chain that is being checked.
Checking(reg, acc) == acc \in [ok : BOOLEAN, reg : Storage] /\ Step(reg, acc.reg) /\ Silent(reg, acc.reg)

LEMMA ChainDOTKeeps ==
  ASSUME NEW reg \in Storage, NEW acc, Checking(reg, acc), NEW d \in DOTs, NEW time
  PROVE  Checking(reg, ChainDOT(acc, d, time))
<1> DEFINE dot == CheckDOT(acc.reg, d, time)
           both == CheckEntities(dot, d, time)
<1>1. acc.reg \in Storage /\ Step(reg, acc.reg) /\ Silent(reg, acc.reg)
  BY Zenon DEF Checking
<1>2. dot \in Storage /\ Step(acc.reg, dot) /\ Silent(acc.reg, dot)
  BY <1>1, CheckDOTKeeps, Zenon DEF Step
<1>3. both \in Storage /\ Step(dot, both) /\ Silent(dot, both)
  <2> HIDE DEF dot
  <2> QED
    BY <1>2, CheckEntitiesKeeps, Zenon DEF Step
<1>4. ChainDOT(acc, d, time) \in {acc, [ok |-> FALSE, reg |-> dot], [ok |-> EntitiesValid(both, d), reg |-> both]}
  BY Zenon DEF ChainDOT
<1>5. EntitiesValid(both, d) \in BOOLEAN
  BY Zenon DEF EntitiesValid
<1> HIDE DEF dot, both
<1>6. Step(reg, dot) /\ Silent(reg, dot)
  BY <1>1, <1>2, StepOn, SilentOn, Zenon
<1>7. Step(reg, both) /\ Silent(reg, both)
  BY <1>3, <1>6, StepOn, SilentOn, Zenon
<1>8. Checking(reg, [ok |-> FALSE, reg |-> dot])
  BY <1>2, <1>6, Zenon DEF Checking
<1>9. Checking(reg, [ok |-> EntitiesValid(both, d), reg |-> both])
  BY <1>3, <1>5, <1>7, Zenon DEF Checking
<1> QED
  BY <1>4, <1>8, <1>9, Zenon

LEMMA ChainDOTsKeeps ==
  ASSUME NEW reg \in Storage, NEW c \in Chains, NEW time
  PROVE  Checking(reg, ChainDOTs(reg, c, time)[Len(dotsOf[c])])
<1> DEFINE N == Len(dotsOf[c])
           All == {acc \in [ok : BOOLEAN, reg : Storage] : Checking(reg, acc)}
           b == [ok |-> TRUE, reg |-> reg]
           g == [z \in (1 .. N) \X All |-> ChainDOT(z[2], dotsOf[c][z[1]], time)]
           Rec(f) == f = [n \in 0 .. N |-> IF n = 0 THEN b ELSE ChainDOT(f[n - 1], dotsOf[c][n], time)]
<1>1. N \in Nat /\ \A n \in 1 .. N : dotsOf[c][n] \in DOTs
  BY RegistryAssumption
<1>2. b \in All
  BY StepSelf, Zenon DEF Checking
<1>3. \A acc \in All, n \in 1 .. N : ChainDOT(acc, dotsOf[c][n], time) \in All
  <2> SUFFICES ASSUME NEW acc \in All, NEW n \in 1 .. N PROVE ChainDOT(acc, dotsOf[c][n], time) \in All
    OBVIOUS
  <2>1. Checking(reg, ChainDOT(acc, dotsOf[c][n], time))
    BY <1>1, ChainDOTKeeps, Zenon
  <2> QED
    BY <2>1, Zenon DEF Checking
<1>4. g \in [(1 .. N) \X All -> All]
  <2> HIDE DEF All, N
  <2> QED
    BY <1>3, Zenon
<1>5. PICK f \in [0 .. N -> All] : Follows(N, b, g, f)
  <2> HIDE DEF All, N, b, g
  <2> QED
    BY <1>1, <1>2, <1>4, Recursion, Zenon
<1>6. Rec(f)
  <2> HIDE DEF All, N, b
  <2>1. f[0] = b
    BY <1>5, Zenon DEF Follows
  <2>2. ASSUME NEW n \in 1 .. N PROVE f[n] = ChainDOT(f[n - 1], dotsOf[c][n], time)
    <3>1. f[n - 1] \in All /\ <<n, f[n - 1]>> \in (1 .. N) \X All
      BY <1>1
    <3>2. f[n] = g[<<n, f[n - 1]>>]
      BY <1>5, Zenon DEF Follows
    <3> QED
      BY <3>1, <3>2, Zenon
  <2>3. \A n \in 0 .. N : f[n] = IF n = 0 THEN b ELSE ChainDOT(f[n - 1], dotsOf[c][n], time)
    BY <1>1, <2>1, <2>2
  <2> QED
    BY <2>3, Zenon
<1> DEFINE h == ChainDOTs(reg, c, time)
<1>7. h = CHOOSE x : Rec(x)
  BY Zenon DEF ChainDOTs
<1>8. Rec(h)
  <2> HIDE DEF Rec
  <2> QED
    BY <1>6, <1>7, Zenon
<1>9. h[0] = b /\ \A n \in 1 .. N : h[n] = ChainDOT(h[n - 1], dotsOf[c][n], time)
  <2> HIDE DEF h, N, b
  <2> QED
    BY <1>1, <1>8
<1> DEFINE T == {n \in 0 .. N : h[n] \in All}
<1>10. 0 .. N \subseteq T
  <2> HIDE DEF h, N, b, All
  <2>1. 0 \in T
    BY <1>1, <1>2, <1>9
  <2>2. \A n \in 1 .. N : n - 1 \in T => n \in T
    BY <1>1, <1>3, <1>9
  <2> HIDE DEF T
  <2> QED
    BY <1>1, <2>1, <2>2, UpTo, Zenon
<1>11. h[N] \in All
  <2> HIDE DEF h, N, All
  <2> QED
    BY <1>1, <1>10
<1> QED
  BY <1>11, Zenon

LEMMA AddChainKeeps ==
  ASSUME NEW reg \in Storage, NEW c \in Chains, NEW time
  PROVE  Step(reg, AddChain(reg, c, time)) /\ Silent(reg, AddChain(reg, c, time))
<1> DEFINE all == ChainDOTs(reg, c, time)[Len(dotsOf[c])]
           new == [all.reg EXCEPT !.chain[c] = "Valid"]
<1>1. all.reg \in Storage /\ Step(reg, all.reg) /\ Silent(reg, all.reg)
  BY ChainDOTsKeeps, Zenon DEF Checking
<1>2. AddChain(reg, c, time) \in {reg, all.reg, new}
  BY Zenon DEF AddChain
<1> HIDE DEF all
<1>3. Step(all.reg, new) /\ Silent(all.reg, new)
  BY <1>1, SetChain, Zenon
<1> HIDE DEF new
<1>4. Step(reg, new) /\ Silent(reg, new)
  BY <1>1, <1>3, StepOn, SilentOn, Zenon
<1> QED
  BY <1>1, <1>2, <1>4, StepSelf, Zenon

\* Only what is named in the transaction is revoked.
RevokesOnly(old, new, es, ds) ==
  /\ \A e \in Entities \ es : new.entity[e] = "Revoked" => old.entity[e] = "Revoked"
  /\ \A x \in DOTs \ ds : new.dot[x] = "Revoked" => old.dot[x] = "Revoked"
  /\ \A x \in DOTs : old.dot[x] = "Unknown" => new.dot[x] = "Unknown"

LEMMA RevokeEntityKeeps ==
  ASSUME NEW reg \in Storage, NEW e \in Entities, NEW time
  PROVE  Step(reg, RevokeEntity(reg, e, time)) /\ RevokesOnly(reg, RevokeEntity(reg, e, time), {e}, {})
<1> DEFINE checked == CheckEntity(reg, e, time)
           new == [checked EXCEPT !.entity[e] = "Revoked"]
<1>1. Step(reg, checked) /\ Silent(reg, checked) /\ checked \in Storage
  BY CheckEntityKeeps, Zenon DEF Step
<1>2. RevokeEntity(reg, e, time) = checked \/ (checked.entity[e] = "Valid" /\ RevokeEntity(reg, e, time) = new)
  BY Zenon DEF RevokeEntity
<1> HIDE DEF checked
<1>3. ASSUME checked.entity[e] = "Valid" PROVE Step(checked, new)
  BY <1>1, <1>3, SetEntity, Zenon DEF Ages, Validity
<1>4. new.dot = checked.dot /\ \A x \in Entities : x # e => new.entity[x] = checked.entity[x]
  BY <1>1, Zenon DEF Storage
<1> HIDE DEF new
<1>5. RevokesOnly(reg, checked, {e}, {}) /\ RevokesOnly(reg, new, {e}, {})
  BY <1>1, <1>4, Zenon DEF Silent, RevokesOnly
<1> QED
  BY <1>1, <1>2, <1>3, <1>5, StepOn, Zenon

LEMMA RevokeDOTKeeps ==
  ASSUME NEW reg \in Storage, NEW d \in DOTs, NEW time
  PROVE  Step(reg, RevokeDOT(reg, d, time)) /\ RevokesOnly(reg, RevokeDOT(reg, d, time), {}, {d})
<1> DEFINE checked == CheckDOT(reg, d, time)
           both == CheckEntities(checked, d, time)
           new == [both EXCEPT !.dot[d] = "Revoked"]
<1>1. Step(reg, checked) /\ Silent(reg, checked) /\ checked \in Storage
  BY CheckDOTKeeps, Zenon DEF Step
<1>2. RevokeDOT(reg, d, time) = checked \/ (checked.dot[d] = "Valid" /\ RevokeDOT(reg, d, time) = new)
  BY Zenon DEF RevokeDOT
<1> HIDE DEF checked
<1>3. Step(checked, both) /\ Silent(checked, both) /\ both.dot = checked.dot /\ both \in Storage
  BY <1>1, CheckEntitiesKeeps, Zenon DEF Step
<1> HIDE DEF both
<1>4. ASSUME checked.dot[d] = "Valid" PROVE Step(both, new)
  BY <1>3, <1>4, SetDOT, Zenon DEF Validity
<1>5. new.entity = both.entity /\ \A x \in DOTs : new.dot[x] = IF x = d THEN "Revoked" ELSE both.dot[x]
  BY <1>3, Zenon DEF Storage
<1> HIDE DEF new
<1>6. RevokesOnly(reg, checked, {}, {d})
  BY <1>1, Zenon DEF Silent, RevokesOnly
<1>7. ASSUME checked.dot[d] = "Valid" PROVE RevokesOnly(reg, new, {}, {d})
  <2>1. reg.dot[d] # "Unknown"
    BY <1>1, <1>7, Zenon DEF Silent
  <2> QED
    BY <1>1, <1>3, <1>5, <2>1, ZenonT(30) DEF Silent, RevokesOnly
<1>8. Step(reg, both)
  BY <1>1, <1>3, StepOn, Zenon
<1> QED
  BY <1>1, <1>2, <1>4, <1>6, <1>7, <1>8, StepOn, Zenon

\* What may be logged.
Event == ({"AddEntity", "RevokeEntity"} \X Entities) \cup ({"AddDOT", "RevokeDOT"} \X DOTs)

LEMMA LogsIs ==
  ASSUME NEW reg, NEW tx, NEW time
  PROVE  /\ tx[1] = "AddDOT" /\ reg.dot[tx[2]] # Exec(reg, tx, time).dot[tx[2]] => tx \in Range(Logs(reg, tx, time))
         /\ tx[1] = "RevokeEntity" /\ Exec(reg, tx, time).entity[tx[2]] = "Revoked" /\ reg.entity[tx[2]] # "Revoked"
            => tx \in Range(Logs(reg, tx, time))
         /\ tx[1] = "RevokeDOT" /\ Exec(reg, tx, time).dot[tx[2]] = "Revoked" /\ reg.dot[tx[2]] # "Revoked"
            => tx \in Range(Logs(reg, tx, time))
         /\ Logs(reg, tx, time) = <<>>
            \/ (Logs(reg, tx, time) = <<tx>> /\ tx[1] \in {"AddEntity", "RevokeEntity", "AddDOT", "RevokeDOT"})
<1> DEFINE new == Exec(reg, tx, time)
<1>1. tx \in Range(<<tx>>)
  <2>1. 1 \in DOMAIN <<tx>> /\ <<tx>>[1] = tx
    OBVIOUS
  <2> QED
    BY <2>1, Zenon DEF Range
<1> HIDE DEF new
<1>2. tx[1] = "AddDOT" /\ reg.dot[tx[2]] # new.dot[tx[2]] => Logs(reg, tx, time) = <<tx>>
  BY Zenon DEF Logs, new
<1>3. tx[1] = "RevokeEntity" /\ new.entity[tx[2]] = "Revoked" /\ reg.entity[tx[2]] # "Revoked"
      => Logs(reg, tx, time) = <<tx>>
  BY Zenon DEF Logs, new
<1>4. tx[1] = "RevokeDOT" /\ new.dot[tx[2]] = "Revoked" /\ reg.dot[tx[2]] # "Revoked"
      => Logs(reg, tx, time) = <<tx>>
  BY Zenon DEF Logs, new
<1>5. Logs(reg, tx, time) = <<>>
      \/ (Logs(reg, tx, time) = <<tx>> /\ tx[1] \in {"AddEntity", "RevokeEntity", "AddDOT", "RevokeDOT"})
  BY Zenon DEF Logs
<1> QED
  BY <1>1, <1>2, <1>3, <1>4, <1>5, Zenon DEF new

LEMMA EventsLogged ==
  ASSUME NEW reg, NEW tx \in Transaction, NEW time
  PROVE  Logs(reg, tx, time) \in Seq(Event)
<1>1. CASE Logs(reg, tx, time) = <<>>
  BY <1>1
<1>2. CASE Logs(reg, tx, time) = <<tx>> /\ tx[1] \in {"AddEntity", "RevokeEntity", "AddDOT", "RevokeDOT"}
  <2>1. tx \in Event
    BY <1>2, Zenon DEF Event, Transaction
  <2> QED
    BY <1>2, <2>1
<1> QED
  BY <1>1, <1>2, LogsIs, Zenon

\* A transaction only adds to the registry, and its events tell what it revoked
\* and which DOT it made known.
LEMMA ExecKeeps ==
  ASSUME NEW reg \in Storage, NEW tx \in Transaction, NEW time
  PROVE  Step(reg, Exec(reg, tx, time)) /\ Logged(reg, Exec(reg, tx, time), Logs(reg, tx, time))
<1> DEFINE new == Exec(reg, tx, time)
           logs == Logs(reg, tx, time)
<1>0. tx = <<tx[1], tx[2]>>
  BY DEF Transaction
<1>1. CASE tx[1] = "AddEntity"
  <2>1. tx[2] \in Entities /\ new = AddEntity(reg, tx[2], time)
    BY <1>1, Zenon DEF Transaction, Exec
  <2> QED
    BY <2>1, AddEntityKeeps, SilentLogged, Zenon
<1>2. CASE tx[1] = "CheckEntity"
  <2>1. tx[2] \in Entities /\ new = CheckEntity(reg, tx[2], time)
    BY <1>2, Zenon DEF Transaction, Exec
  <2> QED
    BY <2>1, CheckEntityKeeps, SilentLogged, Zenon
<1>3. CASE tx[1] = "CheckDOT"
  <2>1. tx[2] \in DOTs /\ new = CheckDOT(reg, tx[2], time)
    BY <1>3, Zenon DEF Transaction, Exec
  <2> QED
    BY <2>1, CheckDOTKeeps, SilentLogged, Zenon
<1>4. CASE tx[1] = "AddChain"
  <2>1. tx[2] \in Chains /\ new = AddChain(reg, tx[2], time)
    BY <1>4, Zenon DEF Transaction, Exec
  <2> QED
    BY <2>1, AddChainKeeps, SilentLogged, Zenon
<1>5. CASE tx[1] = "AddDOT"
  <2>1. tx[2] \in DOTs /\ new = AddDOT(reg, tx[2], time)
    BY <1>5, Zenon DEF Transaction, Exec
  <2>2. Step(reg, new) /\ Adds(reg, new, tx[2])
    BY <2>1, AddDOTKeeps, Zenon
  <2>3. reg.dot[tx[2]] # new.dot[tx[2]] => tx \in Range(logs)
    BY <1>5, LogsIs, Zenon
  <2> HIDE DEF new, logs
  <2>4. Logged(reg, new, logs)
    BY <1>0, <1>5, <2>2, <2>3, ZenonT(30) DEF Adds, Logged
  <2> QED
    BY <2>2, <2>4, Zenon DEF new, logs
<1>6. CASE tx[1] = "RevokeEntity"
  <2>1. tx[2] \in Entities /\ new = RevokeEntity(reg, tx[2], time)
    BY <1>6, Zenon DEF Transaction, Exec
  <2>2. Step(reg, new) /\ RevokesOnly(reg, new, {tx[2]}, {})
    BY <2>1, RevokeEntityKeeps, Zenon
  <2>3. new.entity[tx[2]] = "Revoked" /\ reg.entity[tx[2]] # "Revoked" => tx \in Range(logs)
    BY <1>6, LogsIs, Zenon
  <2> HIDE DEF new, logs
  <2>4. Logged(reg, new, logs)
    BY <1>0, <1>6, <2>2, <2>3 DEF RevokesOnly, Logged
  <2> QED
    BY <2>2, <2>4, Zenon DEF new, logs
<1>7. CASE tx[1] = "RevokeDOT"
  <2>1. tx[2] \in DOTs /\ new = RevokeDOT(reg, tx[2], time)
    BY <1>7, Zenon DEF Transaction, Exec
  <2>2. Step(reg, new) /\ RevokesOnly(reg, new, {}, {tx[2]})
    BY <2>1, RevokeDOTKeeps, Zenon
  <2>3. new.dot[tx[2]] = "Revoked" /\ reg.dot[tx[2]] # "Revoked" => tx \in Range(logs)
    BY <1>7, LogsIs, Zenon
  <2> HIDE DEF new, logs
  <2>4. Logged(reg, new, logs)
    BY <1>0, <1>7, <2>2, <2>3, ZenonT(30) DEF RevokesOnly, Logged
  <2> QED
    BY <2>2, <2>4, Zenon DEF new, logs
<1>8. tx[1] \in {"AddEntity", "RevokeEntity", "CheckEntity", "AddDOT", "RevokeDOT", "CheckDOT", "AddChain"}
  BY Zenon DEF Transaction
<1> HIDE DEF new, logs
<1> QED
  BY <1>1, <1>2, <1>3, <1>4, <1>5, <1>6, <1>7, <1>8, Zenon DEF new, logs

-----------------------------------------------------------------------------
(* Blocks *)

BlockType == [reg : Storage, logs : Seq(Event)]

\* A block on top of old that tells what it changes.
Built(old, b) == b \in BlockType /\ Step(old, b.reg) /\ Logged(old, b.reg, b.logs)

LEMMA RangeOn ==
  ASSUME NEW S, NEW q \in Seq(S), NEW r \in Seq(S)
  PROVE  q \o r \in Seq(S) /\ Range(q \o r) = Range(q) \cup Range(r)
<1>1. /\ q \o r \in Seq(S) /\ Len(q) \in Nat /\ Len(r) \in Nat
      /\ DOMAIN q = 1 .. Len(q) /\ DOMAIN r = 1 .. Len(r) /\ DOMAIN (q \o r) = 1 .. Len(q) + Len(r)
      /\ \A i \in 1 .. Len(q) + Len(r) : (q \o r)[i] = IF i <= Len(q) THEN q[i] ELSE r[i - Len(q)]
  OBVIOUS
<1>2. Range(q \o r) \subseteq Range(q) \cup Range(r)
  <2> SUFFICES ASSUME NEW i \in 1 .. Len(q) + Len(r)
               PROVE  (q \o r)[i] \in Range(q) \cup Range(r)
    BY <1>1, Zenon DEF Range
  <2>1. CASE i <= Len(q)
    <3>1. i \in DOMAIN q /\ (q \o r)[i] = q[i]
      BY <1>1, <2>1
    <3> QED
      BY <3>1, Zenon DEF Range
  <2>2. CASE ~(i <= Len(q))
    <3>1. i - Len(q) \in DOMAIN r /\ (q \o r)[i] = r[i - Len(q)]
      BY <1>1, <2>2
    <3> QED
      BY <3>1, Zenon DEF Range
  <2> QED
    BY <2>1, <2>2, Zenon
<1>3. ASSUME NEW x \in Range(q) PROVE x \in Range(q \o r)
  <2>1. PICK i \in 1 .. Len(q) : x = q[i]
    BY <1>1, <1>3, Zenon DEF Range
  <2>2. i \in 1 .. Len(q) + Len(r) /\ (q \o r)[i] = x
    BY <1>1, <2>1
  <2> QED
    BY <1>1, <2>2, Zenon DEF Range
<1>4. ASSUME NEW x \in Range(r) PROVE x \in Range(q \o r)
  <2>1. PICK i \in 1 .. Len(r) : x = r[i]
    BY <1>1, <1>4, Zenon DEF Range
  <2>2. Len(q) + i \in 1 .. Len(q) + Len(r) /\ (q \o r)[Len(q) + i] = x
    BY <1>1, <2>1
  <2> QED
    BY <1>1, <2>2, Zenon DEF Range
<1> QED
  BY <1>1, <1>2, <1>3, <1>4, Zenon

LEMMA LoggedOn ==
  ASSUME NEW a, NEW b, NEW c, NEW q, NEW r, NEW logs, Logged(a, b, q), Logged(b, c, r),
         Range(logs) = Range(q) \cup Range(r)
  PROVE  Logged(a, c, logs)
BY Zenon DEF Logged

LEMMA ExecutedKeeps ==
  ASSUME NEW reg \in Storage, NEW b, Built(reg, b), NEW tx \in Transaction, NEW time
  PROVE  Built(reg, Executed(b, tx, time))
<1> DEFINE new == Exec(b.reg, tx, time)
           logs == Logs(b.reg, tx, time)
<1>1. b.reg \in Storage /\ b.logs \in Seq(Event) /\ Step(reg, b.reg) /\ Logged(reg, b.reg, b.logs)
  BY Zenon DEF Built, BlockType
<1>2. Step(b.reg, new) /\ Logged(b.reg, new, logs) /\ new \in Storage /\ logs \in Seq(Event)
  BY <1>1, ExecKeeps, EventsLogged, Zenon DEF Step
<1>3. Executed(b, tx, time) = [reg |-> new, logs |-> b.logs \o logs]
  BY Zenon DEF Executed
<1> HIDE DEF new, logs
<1>4. b.logs \o logs \in Seq(Event) /\ Range(b.logs \o logs) = Range(b.logs) \cup Range(logs)
  BY <1>1, <1>2, RangeOn
<1>5. Logged(reg, new, b.logs \o logs)
  BY <1>1, <1>2, <1>4, LoggedOn
<1>6. Step(reg, new)
  BY <1>1, <1>2, StepOn, Zenon
<1> QED
  BY <1>2, <1>3, <1>4, <1>5, <1>6 DEF Built, BlockType

\* A block only adds to the registry, and its events tell what it revoked and
\* which DOTs it made known, whatever transactions it executes.
LEMMA BlockKeeps ==
  ASSUME NEW reg \in Storage, NEW txs \in Seq(Transaction), NEW time
  PROVE  Built(reg, Block(reg, txs, time))
<1> DEFINE N == Len(txs)
           All == {b \in BlockType : Built(reg, b)}
           b0 == [reg |-> reg, logs |-> <<>>]
           g == [z \in (1 .. N) \X All |-> Executed(z[2], txs[z[1]], time)]
           Rec(f) == f = [n \in 0 .. N |-> IF n = 0 THEN b0 ELSE Executed(f[n - 1], txs[n], time)]
<1>1. N \in Nat /\ \A n \in 1 .. N : txs[n] \in Transaction
  OBVIOUS
<1>2. b0 \in All
  <2>1. Step(reg, reg) /\ Logged(reg, reg, <<>>)
    BY StepSelf, SilentLogged, Zenon
  <2>2. b0 \in BlockType /\ b0.reg = reg /\ b0.logs = <<>>
    <3>1. <<>> \in Seq(Event)
      OBVIOUS
    <3> QED
      BY <3>1, Zenon DEF BlockType
  <2> HIDE DEF b0
  <2> QED
    BY <2>1, <2>2, Zenon DEF Built
<1>3. \A b \in All, n \in 1 .. N : Executed(b, txs[n], time) \in All
  <2> SUFFICES ASSUME NEW b \in All, NEW n \in 1 .. N PROVE Executed(b, txs[n], time) \in All
    OBVIOUS
  <2>1. Built(reg, Executed(b, txs[n], time))
    BY <1>1, ExecutedKeeps, Zenon
  <2> QED
    BY <2>1, Zenon DEF Built
<1>4. g \in [(1 .. N) \X All -> All]
  <2> HIDE DEF All, N
  <2> QED
    BY <1>3, Zenon
<1>5. PICK f \in [0 .. N -> All] : Follows(N, b0, g, f)
  <2> HIDE DEF All, N, b0, g
  <2> QED
    BY <1>1, <1>2, <1>4, Recursion, Zenon
<1>6. Rec(f)
  <2> HIDE DEF All, N, b0
  <2>1. f[0] = b0
    BY <1>5, Zenon DEF Follows
  <2>2. ASSUME NEW n \in 1 .. N PROVE f[n] = Executed(f[n - 1], txs[n], time)
    <3>1. f[n - 1] \in All /\ <<n, f[n - 1]>> \in (1 .. N) \X All
      BY <1>1
    <3>2. f[n] = g[<<n, f[n - 1]>>]
      BY <1>5, Zenon DEF Follows
    <3> QED
      BY <3>1, <3>2, Zenon
  <2>3. \A n \in 0 .. N : f[n] = IF n = 0 THEN b0 ELSE Executed(f[n - 1], txs[n], time)
    BY <1>1, <2>1, <2>2
  <2> QED
    BY <2>3, Zenon
<1> DEFINE h == Blocks(reg, txs, time)
<1>7. h = CHOOSE x : Rec(x)
  BY Zenon DEF Blocks
<1>8. Rec(h)
  <2> HIDE DEF Rec
  <2> QED
    BY <1>6, <1>7, Zenon
<1>9. h[0] = b0 /\ \A n \in 1 .. N : h[n] = Executed(h[n - 1], txs[n], time)
  <2> HIDE DEF h, N, b0
  <2> QED
    BY <1>1, <1>8
<1> DEFINE T == {n \in 0 .. N : h[n] \in All}
<1>10. 0 .. N \subseteq T
  <2> HIDE DEF h, N, b0, All
  <2>1. 0 \in T
    BY <1>1, <1>2, <1>9
  <2>2. \A n \in 1 .. N : n - 1 \in T => n \in T
    BY <1>1, <1>3, <1>9
  <2> HIDE DEF T
  <2> QED
    BY <1>1, <2>1, <2>2, UpTo, Zenon
<1>11. h[N] \in All
  <2> HIDE DEF h, N, All
  <2> QED
    BY <1>1, <1>10
<1> QED
  BY <1>11, Zenon DEF Block

-----------------------------------------------------------------------------
(* Chains of blocks *)

\* The registry after n blocks of a chain.
After(c, n) == IF n = 0 THEN Empty ELSE c[n].reg

ChainOf(c) == c \in Seq(BlockType) /\ \A i \in 1 .. Len(c) : Built(After(c, i - 1), c[i])

LEMMA EmptyIs == Empty \in Storage /\ Listed(Empty)
<1>1. Empty \in Storage
  <2>1. <<>> \in Seq(DOTs)
    OBVIOUS
  <2> QED
    BY <2>1, Zenon DEF Empty, Storage, Validity
<1>2. ASSUME NEW e \in Entities
      PROVE  Empty.granted[e] = <<>> /\ DOMAIN Empty.granted[e] = {}
  BY DEF Empty
<1>3. \A d \in DOTs : Empty.dot[d] = "Unknown"
  BY Zenon DEF Empty
<1> QED
  BY <1>1, <1>2, <1>3, Zenon DEF Listed, IsInjective

LEMMA AfterIs ==
  ASSUME NEW c, ChainOf(c), NEW n \in 0 .. Len(c)
  PROVE  After(c, n) \in Storage
<1>1. CASE n = 0
  BY <1>1, EmptyIs, Zenon DEF After
<1>2. CASE n # 0
  <2>1. n \in 1 .. Len(c) /\ c \in Seq(BlockType)
    BY <1>2 DEF ChainOf
  <2>2. c[n] \in BlockType
    BY <2>1
  <2> QED
    BY <1>2, <2>2, Zenon DEF After, BlockType
<1> QED
  BY <1>1, <1>2, Zenon

\* From any block of a chain to any later one, the registry only adds.
LEMMA ChainGrows ==
  ASSUME NEW c, ChainOf(c), NEW i \in 0 .. Len(c), NEW j \in i .. Len(c)
  PROVE  Step(After(c, i), After(c, j))
<1> DEFINE N == Len(c)
           T == {n \in 0 .. N : i <= n => Step(After(c, i), After(c, n))}
<1>0. N \in Nat
  BY DEF ChainOf
<1>1. 0 \in T
  <2>1. i <= 0 => i = 0
    BY <1>0
  <2>2. Step(After(c, 0), After(c, 0))
    BY <1>0, AfterIs, StepSelf
  <2> QED
    BY <1>0, <2>1, <2>2
<1>2. ASSUME NEW n \in 1 .. N, n - 1 \in T PROVE n \in T
  <2>1. CASE i <= n - 1
    <3>1. Step(After(c, i), After(c, n - 1))
      BY <1>2, <2>1, Zenon
    <3>2. Step(After(c, n - 1), After(c, n))
      <4>1. Built(After(c, n - 1), c[n]) /\ After(c, n) = c[n].reg
        BY <1>0 DEF ChainOf, After
      <4> QED
        BY <4>1, Zenon DEF Built
    <3>3. Step(After(c, i), After(c, n))
      BY <3>1, <3>2, AfterIs, StepOn, Zenon
    <3> QED
      BY <1>0, <3>3
  <2>2. CASE i = n
    <3>1. Step(After(c, n), After(c, n))
      BY <1>0, AfterIs, StepSelf
    <3> QED
      BY <1>0, <2>2, <3>1, Zenon
  <2>3. CASE i > n
    BY <1>0, <2>3
  <2> QED
    BY <1>0, <2>1, <2>2, <2>3
<1>3. 0 .. N \subseteq T
  <2> HIDE DEF T
  <2> QED
    BY <1>0, <1>1, <1>2, UpTo, Zenon
<1> QED
  BY <1>0, <1>3

\* What is not logged on the way.
Tells(c, i, n) ==
  /\ \A e \in Entities : After(c, n).entity[e] = "Revoked" /\ After(c, i).entity[e] # "Revoked"
       => \E k \in i + 1 .. n : <<"RevokeEntity", e>> \in Range(c[k].logs)
  /\ \A d \in DOTs : After(c, n).dot[d] = "Revoked" /\ After(c, i).dot[d] # "Revoked"
       => \E k \in i + 1 .. n : <<"RevokeDOT", d>> \in Range(c[k].logs)
  /\ \A d \in DOTs : After(c, n).dot[d] # "Unknown" /\ After(c, i).dot[d] = "Unknown"
       => \E k \in i + 1 .. n : <<"AddDOT", d>> \in Range(c[k].logs)

\* What becomes revoked or known between two blocks of a chain is in the events
\* of a block between them.
LEMMA ChainTells ==
  ASSUME NEW c, ChainOf(c), NEW i \in 0 .. Len(c), NEW j \in i .. Len(c)
  PROVE  Tells(c, i, j)
<1> DEFINE N == Len(c)
           T == {n \in 0 .. N : i <= n => Tells(c, i, n)}
<1>0. N \in Nat
  BY DEF ChainOf
<1>1. 0 \in T
  <2>1. i <= 0 => Tells(c, i, 0)
    <3>1. i <= 0 => i = 0
      BY <1>0
    <3> QED
      BY <3>1, Zenon DEF Tells
  <2> QED
    BY <1>0, <2>1
<1>2. ASSUME NEW n \in 1 .. N, n - 1 \in T PROVE n \in T
  <2>1. CASE i <= n - 1
    <3>1. Tells(c, i, n - 1)
      BY <1>2, <2>1, Zenon
    <3>2. Logged(After(c, n - 1), After(c, n), c[n].logs)
      <4>1. Built(After(c, n - 1), c[n]) /\ After(c, n) = c[n].reg
        BY <1>0 DEF ChainOf, After
      <4> QED
        BY <4>1, Zenon DEF Built
    <3>3. n \in i + 1 .. n /\ i + 1 .. n - 1 \subseteq i + 1 .. n
      BY <1>0, <2>1
    <3>4. Tells(c, i, n)
      BY <3>1, <3>2, <3>3, Zenon DEF Tells, Logged
    <3> QED
      BY <1>0, <3>4
  <2>2. CASE i = n
    <3>1. Tells(c, i, n)
      BY <2>2, Zenon DEF Tells
    <3> QED
      BY <1>0, <3>1
  <2>3. CASE i > n
    BY <1>0, <2>3
  <2> QED
    BY <1>0, <2>1, <2>2, <2>3
<1>3. 0 .. N \subseteq T
  <2> HIDE DEF T
  <2> QED
    BY <1>0, <1>1, <1>2, UpTo, Zenon
<1> QED
  BY <1>0, <1>3

LEMMA ChainAppend ==
  ASSUME NEW c, ChainOf(c), NEW b, Built(After(c, Len(c)), b)
  PROVE  /\ ChainOf(Append(c, b)) /\ Len(Append(c, b)) = Len(c) + 1
         /\ \A n \in 0 .. Len(c) : After(Append(c, b), n) = After(c, n)
         /\ \A n \in 1 .. Len(c) : Append(c, b)[n] = c[n]
<1>1. c \in Seq(BlockType) /\ b \in BlockType
  BY Zenon DEF ChainOf, Built
<1>2. /\ Append(c, b) \in Seq(BlockType) /\ Len(c) \in Nat /\ Len(Append(c, b)) = Len(c) + 1
      /\ \A i \in 1 .. Len(c) : Append(c, b)[i] = c[i]
      /\ Append(c, b)[Len(c) + 1] = b
  BY <1>1, Appended
<1>3. \A n \in 0 .. Len(c) : After(Append(c, b), n) = After(c, n)
  BY <1>2 DEF After
<1>4. ASSUME NEW i \in 1 .. Len(c) + 1 PROVE Built(After(Append(c, b), i - 1), Append(c, b)[i])
  <2>1. After(Append(c, b), i - 1) = After(c, i - 1)
    BY <1>2, <1>3
  <2>2. CASE i = Len(c) + 1
    BY <1>2, <2>1, <2>2
  <2>3. CASE i # Len(c) + 1
    <3>1. i \in 1 .. Len(c)
      BY <1>2, <2>3
    <3> QED
      BY <1>2, <2>1, <3>1, Zenon DEF ChainOf
  <2> QED
    BY <2>2, <2>3, Zenon
<1> QED
  BY <1>2, <1>3, <1>4, Zenon DEF ChainOf

LEMMA ChainPrefix ==
  ASSUME NEW c, ChainOf(c), NEW m \in 1 .. Len(c)
  PROVE  /\ ChainOf(SubSeq(c, 1, m)) /\ Len(SubSeq(c, 1, m)) = m
         /\ \A n \in 0 .. m : After(SubSeq(c, 1, m), n) = After(c, n)
         /\ \A n \in 1 .. m : SubSeq(c, 1, m)[n] = c[n]
<1>1. c \in Seq(BlockType) /\ Len(c) \in Nat
  BY DEF ChainOf
<1>2. /\ SubSeq(c, 1, m) \in Seq(BlockType) /\ Len(SubSeq(c, 1, m)) = m
      /\ \A i \in 1 .. m : SubSeq(c, 1, m)[i] = c[i]
  BY <1>1
<1>3. \A n \in 0 .. m : After(SubSeq(c, 1, m), n) = After(c, n)
  BY <1>1, <1>2 DEF After
<1>4. ASSUME NEW i \in 1 .. m PROVE Built(After(SubSeq(c, 1, m), i - 1), SubSeq(c, 1, m)[i])
  <2>1. i - 1 \in 0 .. m /\ i \in 1 .. Len(c)
    BY <1>1
  <2> QED
    BY <1>2, <1>3, <2>1, Zenon DEF ChainOf
<1> QED
  BY <1>2, <1>3, <1>4, Zenon DEF ChainOf

\* The blocks a plan starts with form a chain.
LEMMA GenesisIs ==
  ASSUME NEW blocks \in Seq(Seq(Transaction))
  PROVE  ChainOf(Genesis(blocks)) /\ Len(Genesis(blocks)) = Len(blocks)
<1> DEFINE N == Len(blocks)
           All == {c \in Seq(BlockType) : ChainOf(c)}
           Put(n, c) == Append(c, Block(IF n = 1 THEN Empty ELSE c[n - 1].reg, blocks[n], 0))
           g == [z \in (1 .. N) \X All |-> IF Len(z[2]) = z[1] - 1 THEN Put(z[1], z[2]) ELSE z[2]]
           Rec(f) == f = [n \in 0 .. N |-> IF n = 0 THEN <<>> ELSE Put(n, f[n - 1])]
<1>1. N \in Nat /\ \A n \in 1 .. N : blocks[n] \in Seq(Transaction)
  OBVIOUS
<1>2. <<>> \in All
  <2>1. <<>> \in Seq(BlockType) /\ Len(<<>>) = 0
    OBVIOUS
  <2> QED
    BY <2>1 DEF ChainOf
<1>3. ASSUME NEW n \in 1 .. N, NEW c \in All, Len(c) = n - 1
      PROVE  Put(n, c) \in All /\ Len(Put(n, c)) = n
  <2> DEFINE reg == IF n = 1 THEN Empty ELSE c[n - 1].reg
             b == Block(reg, blocks[n], 0)
  <2>1. reg = After(c, Len(c))
    BY <1>1, <1>3 DEF After
  <2>2. After(c, Len(c)) \in Storage
    BY <1>1, <1>3, AfterIs
  <2>3. Built(After(c, Len(c)), b)
    <3> HIDE DEF reg
    <3> QED
      BY <1>1, <2>1, <2>2, BlockKeeps, Zenon
  <2> HIDE DEF b
  <2>4. ChainOf(Append(c, b)) /\ Len(Append(c, b)) = n
    <3>1. ChainOf(c)
      OBVIOUS
    <3>2. ChainOf(Append(c, b)) /\ Len(Append(c, b)) = Len(c) + 1
      BY <2>3, <3>1, ChainAppend, Zenon
    <3> QED
      BY <1>1, <1>3, <3>2
  <2> QED
    BY <2>4, Zenon DEF ChainOf, b
<1>4. g \in [(1 .. N) \X All -> All]
  <2> HIDE DEF All, N, Put
  <2> QED
    BY <1>3, Zenon
<1>5. PICK f \in [0 .. N -> All] : Follows(N, <<>>, g, f)
  <2> HIDE DEF All, N, g
  <2> QED
    BY <1>1, <1>2, <1>4, Recursion, Zenon
<1>6. f[0] = <<>> /\ \A n \in 1 .. N : f[n] = IF Len(f[n - 1]) = n - 1 THEN Put(n, f[n - 1]) ELSE f[n - 1]
  <2> HIDE DEF All, N, Put
  <2>1. ASSUME NEW n \in 1 .. N PROVE f[n] = IF Len(f[n - 1]) = n - 1 THEN Put(n, f[n - 1]) ELSE f[n - 1]
    <3>1. f[n - 1] \in All /\ <<n, f[n - 1]>> \in (1 .. N) \X All
      BY <1>1
    <3>2. f[n] = g[<<n, f[n - 1]>>]
      BY <1>5, Zenon DEF Follows
    <3> QED
      BY <3>1, <3>2, Zenon
  <2> QED
    BY <1>5, <2>1, Zenon DEF Follows
<1> DEFINE L == {n \in 0 .. N : Len(f[n]) = n}
<1>7. 0 .. N \subseteq L
  <2> HIDE DEF All, N, Put
  <2>1. 0 \in L
    BY <1>1, <1>6
  <2>2. \A n \in 1 .. N : n - 1 \in L => n \in L
    <3> SUFFICES ASSUME NEW n \in 1 .. N, Len(f[n - 1]) = n - 1 PROVE Len(f[n]) = n
      BY <1>1
    <3>1. f[n - 1] \in All /\ f[n] = Put(n, f[n - 1])
      BY <1>1, <1>6
    <3> QED
      BY <1>3, <3>1, Zenon
  <2> HIDE DEF L
  <2> QED
    BY <1>1, <2>1, <2>2, UpTo, Zenon
<1>8. Rec(f)
  <2> HIDE DEF All, N, Put
  <2>1. \A n \in 0 .. N : f[n] = IF n = 0 THEN <<>> ELSE Put(n, f[n - 1])
    BY <1>1, <1>6, <1>7
  <2> QED
    BY <2>1, Zenon
<1> DEFINE h == CHOOSE x : Rec(x)
<1>9. Genesis(blocks) = h[N]
  BY Zenon DEF Genesis
<1>10. Rec(h)
  <2> HIDE DEF Rec
  <2> QED
    BY <1>8, Zenon
<1>11. h[0] = <<>> /\ \A n \in 1 .. N : h[n] = Put(n, h[n - 1])
  <2> HIDE DEF h, N, Put
  <2> QED
    BY <1>1, <1>10
<1> DEFINE T == {n \in 0 .. N : h[n] \in All /\ Len(h[n]) = n}
<1>12. 0 .. N \subseteq T
  <2> HIDE DEF h, N, Put, All
  <2>1. 0 \in T
    BY <1>1, <1>2, <1>11
  <2>2. \A n \in 1 .. N : n - 1 \in T => n \in T
    BY <1>1, <1>3, <1>11
  <2> HIDE DEF T
  <2> QED
    BY <1>1, <2>1, <2>2, UpTo, Zenon
<1>13. h[N] \in All /\ Len(h[N]) = N
  <2> HIDE DEF h, N, All
  <2> QED
    BY <1>1, <1>12
<1> QED
  BY <1>9, <1>13, Zenon

-----------------------------------------------------------------------------
(* Sequences and finite sets *)

LEMMA SetToSeqIs ==
  ASSUME NEW S, IsFiniteSet(S)
  PROVE  SetToSeq(S) \in Seq(S) /\ Range(SetToSeq(S)) = S
<1> DEFINE n == Cardinality(S)
           f == SetToSeq(S)
<1>1. n \in Nat /\ ExistsBijection(1 .. n, S)
  BY FS_CardinalityType, Zenon
<1>2. \E g : g \in Injection(1 .. n, S)
  BY <1>1, Zenon DEF ExistsBijection, Bijection
<1>4. f \in Injection(1 .. n, S)
  <2> HIDE DEF n
  <2>1. f = CHOOSE g \in Injection(1 .. n, S) : TRUE
    BY Zenon DEF SetToSeq, n
  <2> HIDE DEF f
  <2> QED
    BY <1>2, <2>1, Zenon
<1> HIDE DEF f
<1>3. f \in [1 .. n -> S]
  BY <1>4, Zenon DEF Injection
<1>5. Cardinality(1 .. n) = n
  <2> HIDE DEF n
  <2>1. Cardinality(1 .. n) = IF 1 > n THEN 0 ELSE n - 1 + 1
    BY <1>1, FS_Interval
  <2> QED
    BY <1>1, <2>1
<1>6. f \in Surjection(1 .. n, S)
  BY <1>4, <1>5, FS_Injection, Zenon
<1>7. f \in Seq(S)
  BY <1>1, <1>3
<1>8. DOMAIN f = 1 .. n /\ (\A x \in S : \E i \in 1 .. n : f[i] = x) /\ \A i \in 1 .. n : f[i] \in S
  BY <1>3, <1>6, Zenon DEF Surjection
<1>9. Range(f) = S
  <2> HIDE DEF n
  <2> QED
    BY <1>8, Zenon DEF Range
<1> QED
  BY <1>7, <1>9, Zenon DEF f

LEMMA RangeIs ==
  ASSUME NEW S, NEW q \in Seq(S)
  PROVE  Range(q) \subseteq S /\ IsFiniteSet(Range(q))
<1>1. Len(q) \in Nat /\ DOMAIN q = 1 .. Len(q) /\ \A i \in 1 .. Len(q) : q[i] \in S
  OBVIOUS
<1>2. q \in Surjection(1 .. Len(q), Range(q))
  <2>1. q \in [1 .. Len(q) -> Range(q)]
    BY <1>1 DEF Range
  <2>2. \A x \in Range(q) : \E i \in 1 .. Len(q) : q[i] = x
    BY <1>1, Zenon DEF Range
  <2> QED
    BY <2>1, <2>2, Zenon DEF Surjection
<1>3. IsFiniteSet(Range(q))
  BY <1>1, <1>2, FS_NatSurjection, Zenon DEF ExistsSurjection
<1>4. Range(q) \subseteq S
  BY <1>1, Zenon DEF Range
<1> QED
  BY <1>3, <1>4, Zenon

\* The events of some blocks, in one sequence.
LEMMA FlattenIs ==
  ASSUME NEW S, NEW seqs \in Seq(Seq(S))
  PROVE  FlattenSeq(seqs) \in Seq(S) /\ \A i \in 1 .. Len(seqs) : Range(seqs[i]) \subseteq Range(FlattenSeq(seqs))
<1> DEFINE N == Len(seqs)
           g == [z \in (1 .. N) \X Seq(S) |-> z[2] \o seqs[z[1]]]
           Rec(f) == f = [n \in 0 .. N |-> IF n = 0 THEN <<>> ELSE f[n - 1] \o seqs[n]]
           h == CHOOSE f : Rec(f)
<1>1. N \in Nat /\ <<>> \in Seq(S) /\ \A n \in 1 .. N : seqs[n] \in Seq(S)
  OBVIOUS
<1>2. g \in [(1 .. N) \X Seq(S) -> Seq(S)]
  <2> HIDE DEF N
  <2> QED
    BY <1>1
<1>3. PICK f \in [0 .. N -> Seq(S)] : Follows(N, <<>>, g, f)
  <2> HIDE DEF N, g
  <2> QED
    BY <1>1, <1>2, Recursion, Zenon
<1>4. Rec(f)
  <2>1. ASSUME NEW n \in 0 .. N PROVE f[n] = IF n = 0 THEN <<>> ELSE f[n - 1] \o seqs[n]
    <3> HIDE DEF N
    <3>1. CASE n = 0
      BY <1>3, <3>1, Zenon DEF Follows
    <3>2. CASE n # 0
      <4>1. n \in 1 .. N /\ n - 1 \in 0 .. N
        BY <1>1, <3>2
      <4>2. f[n] = g[<<n, f[n - 1]>>] /\ f[n - 1] \in Seq(S)
        BY <1>3, <4>1, Zenon DEF Follows
      <4> QED
        BY <3>2, <4>1, <4>2, Zenon
    <3> QED
      BY <3>1, <3>2, Zenon
  <2> HIDE DEF N
  <2> QED
    BY <2>1, Zenon
<1>5. FlattenSeq(seqs) = h[N]
  BY Zenon DEF FlattenSeq
<1>6. Rec(h)
  <2> HIDE DEF Rec
  <2> QED
    BY <1>4, Zenon
<1>7. h[0] = <<>> /\ \A n \in 1 .. N : h[n] = h[n - 1] \o seqs[n]
  <2> HIDE DEF h
  <2>1. \A n \in 0 .. N : h[n] = IF n = 0 THEN <<>> ELSE h[n - 1] \o seqs[n]
    BY <1>6, Zenon
  <2> HIDE DEF N
  <2>2. 0 \in 0 .. N /\ \A n \in 1 .. N : n \in 0 .. N /\ n # 0
    BY <1>1
  <2>3. h[0] = <<>>
    BY <2>1, <2>2, Zenon
  <2>4. ASSUME NEW n \in 1 .. N PROVE h[n] = h[n - 1] \o seqs[n]
    BY <2>1, <2>2, Zenon
  <2> QED
    BY <2>3, <2>4, Zenon
<1> DEFINE T == {n \in 0 .. N : h[n] \in Seq(S) /\ \A i \in 1 .. n : Range(seqs[i]) \subseteq Range(h[n])}
<1>8. 0 .. N \subseteq T
  <2> HIDE DEF h, N
  <2>1. 0 \in T
    <3>1. 0 \in 0 .. N /\ \A i \in 1 .. 0 : FALSE
      BY <1>1
    <3>2. h[0] \in Seq(S)
      BY <1>1, <1>7, Zenon
    <3> QED
      BY <3>1, <3>2, Zenon
  <2>2. ASSUME NEW n \in 1 .. N, n - 1 \in T PROVE n \in T
    <3>1. h[n - 1] \in Seq(S) /\ \A i \in 1 .. n - 1 : Range(seqs[i]) \subseteq Range(h[n - 1])
      BY <2>2, Zenon
    <3>2. h[n] = h[n - 1] \o seqs[n] /\ seqs[n] \in Seq(S)
      BY <1>1, <1>7, Zenon
    <3>3. h[n] \in Seq(S) /\ Range(h[n]) = Range(h[n - 1]) \cup Range(seqs[n])
      BY <3>1, <3>2, RangeOn
    <3>4. n \in 0 .. N /\ \A i \in 1 .. n : i \in 1 .. n - 1 \/ i = n
      BY <1>1
    <3> QED
      BY <3>1, <3>3, <3>4, Zenon
  <2> HIDE DEF T
  <2> QED
    BY <1>1, <2>1, <2>2, UpTo, Zenon
<1>9. h[N] \in Seq(S) /\ \A i \in 1 .. N : Range(seqs[i]) \subseteq Range(h[N])
  <2> HIDE DEF h, N
  <2>1. N \in T
    <3> HIDE DEF T
    <3> QED
      BY <1>1, <1>8
  <2> QED
    BY <2>1, Zenon
<1> HIDE DEF h
<1> QED
  BY <1>5, <1>9, Zenon

=============================================================================
