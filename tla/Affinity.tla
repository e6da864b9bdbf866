------------------------------ MODULE Affinity ------------------------------
(***************************************************************************)
(* contracts/affinity.sol: which designated router serves a namespace.     *)
(* The storage of the contract, with the events it has emitted, is a       *)
(* record; a function of the contract maps a storage and a signed message  *)
(* to the next storage.  A message whose signature is invalid changes      *)
(* nothing, so only signed messages appear.                                *)
(***************************************************************************)
EXTENDS Naturals

CONSTANTS DRs,       \* keys of designated routers
          NSs,       \* keys of namespaces
          SRVs,      \* SRV records, NoSRV included
          NoRouter,  \* the zero key
          NoSRV      \* the empty record

ASSUME AffinityAssumption == NoRouter \notin DRs /\ NoSRV \in SRVs

Storage ==
  [DRNonces : [DRs -> Nat],
   NSNonces : [NSs -> Nat],
   DRSRV : [DRs -> SRVs],
   AffinityOffers : [DRs \X NSs -> Nat],
   DesignatedRouterFor : [NSs -> DRs \cup {NoRouter}],
   NewAffinityOffer : SUBSET (DRs \X NSs),
   NewDesignatedRouter : SUBSET (NSs \X (DRs \cup {NoRouter}))]

Deployed ==
  [DRNonces |-> [dr \in DRs |-> 0],
   NSNonces |-> [ns \in NSs |-> 0],
   DRSRV |-> [dr \in DRs |-> NoSRV],
   AffinityOffers |-> [p \in DRs \X NSs |-> 0],
   DesignatedRouterFor |-> [ns \in NSs |-> NoRouter],
   NewAffinityOffer |-> {},
   NewDesignatedRouter |-> {}]

Ops == {"OfferRouting", "AcceptRouting", "RetractRoutingDR", "RetractRoutingNS",
        "SetDesignatedRouterSRV"}

Message == [op : Ops, dr : DRs, ns : NSs, srv : SRVs, nonce : Nat]

NSOps == {"AcceptRouting", "RetractRoutingNS"}

(***************************************************************************)
(* The nonce a message must carry: one more than the last one used by its  *)
(* signer, the namespace or the router.                                    *)
(***************************************************************************)
LastNonce(st, m) == IF m.op \in NSOps THEN st.NSNonces[m.ns] ELSE st.DRNonces[m.dr]

FreshOrReplayed(st, m) == m.nonce <= LastNonce(st, m) + 1

Fresh(st, m) == m.nonce = LastNonce(st, m) + 1

\* DesignatedRouterFor[nsvk] = 0 with its event, if it is dr.
Unbound(st, m) ==
  IF st.DesignatedRouterFor[m.ns] = m.dr
  THEN [st EXCEPT !.DesignatedRouterFor[m.ns] = NoRouter,
                  !.NewDesignatedRouter = @ \cup {<<m.ns, NoRouter>>}]
  ELSE st

OfferRouting(st, m) ==
  [st EXCEPT !.DRNonces[m.dr] = @ + 1,
             !.AffinityOffers[<<m.dr, m.ns>>] = m.nonce,
             !.NewAffinityOffer = @ \cup {<<m.dr, m.ns>>}]

\* An acceptance without an offer does not even use up its nonce.
Offered(st, m) == st.AffinityOffers[<<m.dr, m.ns>>] # 0

AcceptRoutingSilent(st, m) ==
  IF Offered(st, m)
  THEN [st EXCEPT !.NSNonces[m.ns] = @ + 1, !.DesignatedRouterFor[m.ns] = m.dr]
  ELSE st

AcceptRouting(st, m) ==
  IF Offered(st, m)
  THEN [st EXCEPT !.NSNonces[m.ns] = @ + 1,
                  !.DesignatedRouterFor[m.ns] = m.dr,
                  !.NewDesignatedRouter = @ \cup {<<m.ns, m.dr>>}]
  ELSE st

RetractRoutingDROnly(st, m) ==
  [st EXCEPT !.DRNonces[m.dr] = @ + 1, !.AffinityOffers[<<m.dr, m.ns>>] = 0]

RetractRoutingDR(st, m) ==
  Unbound([st EXCEPT !.DRNonces[m.dr] = @ + 1,
                     !.AffinityOffers[<<m.dr, m.ns>>] = 0], m)

RetractRoutingNS(st, m) == Unbound([st EXCEPT !.NSNonces[m.ns] = @ + 1], m)

SetDesignatedRouterSRV(st, m) ==
  [st EXCEPT !.DRNonces[m.dr] = @ + 1, !.DRSRV[m.dr] = m.srv]

Execute(st, m) ==
  CASE ~Fresh(st, m) -> st
    [] Fresh(st, m) /\ m.op = "OfferRouting" -> OfferRouting(st, m)
    [] Fresh(st, m) /\ m.op = "AcceptRouting" -> AcceptRouting(st, m)
    [] Fresh(st, m) /\ m.op = "RetractRoutingDR" -> RetractRoutingDR(st, m)
    [] Fresh(st, m) /\ m.op = "RetractRoutingNS" -> RetractRoutingNS(st, m)
    [] Fresh(st, m) /\ m.op = "SetDesignatedRouterSRV" -> SetDesignatedRouterSRV(st, m)

(***************************************************************************)
(* bc/builtin_affinity.go: what the node finds by scanning the events, in  *)
(* which the zero topic stands for any key, and asking the contract about  *)
(* each.                                                                   *)
(***************************************************************************)
FindRoutingOffers(st, ns) ==
  {dr \in DRs : <<dr, ns>> \in st.NewAffinityOffer /\ st.AffinityOffers[<<dr, ns>>] # 0}

FindRoutingAffinities(st, dr) ==
  {ns \in NSs : <<ns, dr>> \in st.NewDesignatedRouter /\ st.DesignatedRouterFor[ns] = dr}
=============================================================================
