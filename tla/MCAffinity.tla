----------------------------- MODULE MCAffinity -----------------------------
(***************************************************************************)
(* Instances of AffinityClients for TLC.                                   *)
(***************************************************************************)
EXTENDS AffinityClients, TLC

CONSTANTS k1, d1, n1, v1

Ask(op) == [op |-> op, dr |-> d1, ns |-> n1, srv |-> v1]

Signed(op, n) == [op |-> op, dr |-> d1, ns |-> n1, srv |-> v1, nonce |-> n]

\* Any operation, while other programs make the first offer
\* and use the second nonce of the router for a retraction or a record.
AnyCall == {k1 :> Ask(op) : op \in Ops}

OtherMessages ==
  {Signed("OfferRouting", 1),
   Signed("RetractRoutingDR", 2), Signed("SetDesignatedRouterSRV", 2)}
=============================================================================
