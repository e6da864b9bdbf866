------------------------------ MODULE Registry ------------------------------
(***************************************************************************)
(* The registry contract (contracts/registry.sol) as functions of its      *)
(* storage.  A transaction turns one storage into the next and logs events *)
(* that light clients follow.  Objects and revocations are well formed and *)
(* signed by a key that may sign them; bounties are not modelled.          *)
(***************************************************************************)
EXTENDS Integers, Sequences

CONSTANTS
  Entities, DOTs, Chains,
  giver, receiver,          \* [DOTs -> Entities]
  dotsOf,                   \* [Chains -> Seq(DOTs)]
  entityExpiry, dotExpiry   \* times, 0 for an object that does not expire

ASSUME RegistryAssumption ==
  giver \in [DOTs -> Entities] /\ receiver \in [DOTs -> Entities] /\ dotsOf \in [Chains -> Seq(DOTs)]

Validity == {"Unknown", "Valid", "Expired", "Revoked"}

\* The storage: validities, and the DOTs each entity granted (DOTFromVK).
Storage ==
  [entity : [Entities -> Validity], dot : [DOTs -> Validity], chain : [Chains -> Validity],
   granted : [Entities -> Seq(DOTs)]]

Empty ==
  [entity |-> [e \in Entities |-> "Unknown"], dot |-> [d \in DOTs |-> "Unknown"],
   chain |-> [c \in Chains |-> "Unknown"], granted |-> [e \in Entities |-> <<>>]]

\* Until when an object of that expiry may be added, and after when it is over.
Fresh(expiry, time) == expiry = 0 \/ expiry > time
Over(expiry, time) == expiry # 0 /\ expiry < time

\* The earliest of the expiries of a DOT and of its two entities.
MinExpiry(d) ==
  LET set == {dotExpiry[d], entityExpiry[giver[d]], entityExpiry[receiver[d]]} \ {0}
  IN IF set = {} THEN 0 ELSE CHOOSE x \in set : \A y \in set : x <= y

CheckEntity(reg, e, time) ==
  IF reg.entity[e] = "Valid" /\ Over(entityExpiry[e], time)
  THEN [reg EXCEPT !.entity[e] = "Expired"] ELSE reg

CheckDOT(reg, d, time) ==
  IF reg.dot[d] = "Valid" /\ Over(MinExpiry(d), time)
  THEN [reg EXCEPT !.dot[d] = "Expired"] ELSE reg

CheckEntities(reg, d, time) == CheckEntity(CheckEntity(reg, giver[d], time), receiver[d], time)
EntitiesValid(reg, d) == reg.entity[giver[d]] = "Valid" /\ reg.entity[receiver[d]] = "Valid"

AddEntity(reg, e, time) ==
  IF reg.entity[e] = "Unknown" /\ Fresh(entityExpiry[e], time)
  THEN [reg EXCEPT !.entity[e] = "Valid"] ELSE reg

\* bug: a DOT that is known is added again
AddDOTAgain(reg, d, time) ==
  LET checked == CheckEntities(reg, d, time) IN
  IF EntitiesValid(checked, d) /\ Fresh(MinExpiry(d), time)
  THEN [checked EXCEPT !.dot[d] = "Valid", !.granted[giver[d]] = Append(@, d)]
  ELSE checked

AddDOT(reg, d, time) ==
  LET checked == CheckEntities(reg, d, time) IN
  IF EntitiesValid(checked, d) /\ checked.dot[d] = "Unknown" /\ Fresh(MinExpiry(d), time)
  THEN [checked EXCEPT !.dot[d] = "Valid", !.granted[giver[d]] = Append(@, d)]
  ELSE checked

\* One DOT of a chain: it and its entities must be valid.
ChainDOT(acc, d, time) ==
  LET dot == CheckDOT(acc.reg, d, time)
      both == CheckEntities(dot, d, time)
  IN IF ~acc.ok THEN acc
     ELSE IF dot.dot[d] # "Valid" THEN [ok |-> FALSE, reg |-> dot]
     ELSE [ok |-> EntitiesValid(both, d), reg |-> both]

\* The DOTs are checked in order, up to the first that fails.
ChainDOTs(reg, c, time) ==
  LET checked[n \in 0 .. Len(dotsOf[c])] ==
        IF n = 0 THEN [ok |-> TRUE, reg |-> reg] ELSE ChainDOT(checked[n - 1], dotsOf[c][n], time)
  IN checked

AddChain(reg, c, time) ==
  LET all == ChainDOTs(reg, c, time)[Len(dotsOf[c])]
  IN IF reg.chain[c] # "Unknown" THEN reg
     ELSE IF all.ok THEN [all.reg EXCEPT !.chain[c] = "Valid"] ELSE all.reg

RevokeEntity(reg, e, time) ==
  LET checked == CheckEntity(reg, e, time) IN
  IF checked.entity[e] = "Valid" THEN [checked EXCEPT !.entity[e] = "Revoked"] ELSE checked

RevokeDOT(reg, d, time) ==
  LET checked == CheckDOT(reg, d, time) IN
  IF checked.dot[d] = "Valid"
  THEN [CheckEntities(checked, d, time) EXCEPT !.dot[d] = "Revoked"] ELSE checked

\* A transaction: the function called and the object it is about.
Transaction ==
  ({"AddEntity", "RevokeEntity", "CheckEntity"} \X Entities)
    \cup ({"AddDOT", "RevokeDOT", "CheckDOT"} \X DOTs) \cup ({"AddChain"} \X Chains)

Exec(reg, tx, time) ==
  CASE tx[1] = "AddEntity"    -> AddEntity(reg, tx[2], time)
    [] tx[1] = "AddDOT"       -> AddDOT(reg, tx[2], time)
    [] tx[1] = "AddChain"     -> AddChain(reg, tx[2], time)
    [] tx[1] = "RevokeEntity" -> RevokeEntity(reg, tx[2], time)
    [] tx[1] = "RevokeDOT"    -> RevokeDOT(reg, tx[2], time)
    [] tx[1] = "CheckEntity"  -> CheckEntity(reg, tx[2], time)
    [] tx[1] = "CheckDOT"     -> CheckDOT(reg, tx[2], time)

\* The event a transaction logs when it does what it is for, if it does.
Logs(reg, tx, time) ==
  LET done == \E new \in {Exec(reg, tx, time)} :
                CASE tx[1] = "AddEntity"    -> reg.entity[tx[2]] # new.entity[tx[2]]
                  [] tx[1] = "RevokeEntity" -> new.entity[tx[2]] = "Revoked" /\ reg.entity[tx[2]] # "Revoked"
                  [] tx[1] = "AddDOT"       -> reg.dot[tx[2]] # new.dot[tx[2]]
                  [] tx[1] = "RevokeDOT"    -> new.dot[tx[2]] = "Revoked" /\ reg.dot[tx[2]] # "Revoked"
                  [] OTHER                  -> FALSE
  IN IF done THEN <<tx>> ELSE <<>>
=============================================================================
