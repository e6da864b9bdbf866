--------------------------- MODULE AffinityProofs ---------------------------
(***************************************************************************)
(* The contract keeps its promises after every block, whatever messages    *)
(* the blocks hold and however often the chain is rolled back, and what    *)
(* the watcher has confirmed stays in the chain.                           *)
(***************************************************************************)
EXTENDS AffinityClients, TLAPS

\* What holds of a storage that the contract can be in.
Good(st) == st \in Storage /\ HasOffer(st) /\ FindsAll(st)

\* The nonces of tt are not below those of st.
NotBelow(st, tt) ==
  /\ \A dr \in DRs : st.DRNonces[dr] <= tt.DRNonces[dr]
  /\ \A ns \in NSs : st.NSNonces[ns] <= tt.NSNonces[ns]

\* Either m did nothing, or it was fresh in st and is the last one in tt.
Used(st, tt, m) == tt = st \/ (Fresh(st, m) /\ LastNonce(tt, m) = m.nonce)

(***************************************************************************)
(* The contract starts out good.                                           *)
(***************************************************************************)
LEMMA DeployedGood == Good(Deployed)
BY AffinityAssumption
   DEF Good, Deployed, Storage, HasOffer, FindsAll, FindRoutingOffers, FindRoutingAffinities

(***************************************************************************)
(* Clearing the designated router keeps the types and the nonces, and does *)
(* not disturb offers.                                                     *)
(***************************************************************************)
LEMMA UnboundFacts ==
  ASSUME NEW st \in Storage, NEW m \in Message
  PROVE  /\ Unbound(st, m) \in Storage
         /\ Unbound(st, m).DRNonces = st.DRNonces
         /\ Unbound(st, m).NSNonces = st.NSNonces
         /\ Unbound(st, m).AffinityOffers = st.AffinityOffers
         /\ Unbound(st, m).NewAffinityOffer = st.NewAffinityOffer
         /\ st.NewDesignatedRouter \subseteq Unbound(st, m).NewDesignatedRouter
         /\ Unbound(st, m).DesignatedRouterFor[m.ns] # m.dr
         /\ \A ns \in NSs : \/ Unbound(st, m).DesignatedRouterFor[ns] = NoRouter
                            \/ Unbound(st, m).DesignatedRouterFor[ns] = st.DesignatedRouterFor[ns]
<1>1. CASE st.DesignatedRouterFor[m.ns] # m.dr
  BY <1>1 DEF Unbound
<1>2. CASE st.DesignatedRouterFor[m.ns] = m.dr
  <2> DEFINE drf == [st.DesignatedRouterFor EXCEPT ![m.ns] = NoRouter]
             ndr == st.NewDesignatedRouter \cup {<<m.ns, NoRouter>>}
             tt == [DRNonces |-> st.DRNonces, NSNonces |-> st.NSNonces, DRSRV |-> st.DRSRV,
                    AffinityOffers |-> st.AffinityOffers, DesignatedRouterFor |-> drf,
                    NewAffinityOffer |-> st.NewAffinityOffer, NewDesignatedRouter |-> ndr]
  <2>1. Unbound(st, m) = tt
    BY <1>2, ZenonT(60) DEF Unbound, Storage
  <2>2. drf \in [NSs -> DRs \cup {NoRouter}] /\ ndr \in SUBSET (NSs \X (DRs \cup {NoRouter}))
    BY DEF Storage, Message
  <2>3. \A ns \in NSs : drf[ns] = IF ns = m.ns THEN NoRouter ELSE st.DesignatedRouterFor[ns]
    BY DEF Storage
  <2>4. m.ns \in NSs /\ m.dr \in DRs /\ NoRouter # m.dr /\ st.NewDesignatedRouter \subseteq ndr
    BY AffinityAssumption DEF Message
  <2> HIDE DEF drf, ndr
  <2>5. tt \in Storage
    BY <2>2 DEF Storage
  <2> QED
    BY <2>1, <2>3, <2>4, <2>5
<1> QED
  BY <1>1, <1>2

(***************************************************************************)
(* Each function of the contract keeps a storage good and uses the nonce.  *)
(***************************************************************************)
LEMMA OfferRoutingGood ==
  ASSUME NEW st, Good(st), NEW m \in Message, m.op = "OfferRouting", Fresh(st, m)
  PROVE  /\ Good(OfferRouting(st, m))
         /\ NotBelow(st, OfferRouting(st, m))
         /\ Used(st, OfferRouting(st, m), m)
<1> DEFINE tt == OfferRouting(st, m)
<1>1. st \in Storage /\ HasOffer(st) /\ FindsAll(st)
  BY DEF Good
<1>2. m.nonce # 0 /\ m.nonce \in Nat /\ m.op \notin NSOps
  BY <1>1 DEF Fresh, LastNonce, Storage, Message, NSOps
<1>3. tt \in Storage
  <2> DEFINE drn == [st.DRNonces EXCEPT ![m.dr] = @ + 1]
             off == [st.AffinityOffers EXCEPT ![<<m.dr, m.ns>>] = m.nonce]
             nao == st.NewAffinityOffer \cup {<<m.dr, m.ns>>}
  <2>1. tt = [st EXCEPT !.DRNonces = drn, !.AffinityOffers = off, !.NewAffinityOffer = nao]
    BY DEF OfferRouting
  <2>2. drn \in [DRs -> Nat] /\ off \in [DRs \X NSs -> Nat] /\ nao \in SUBSET (DRs \X NSs)
    BY <1>1, <1>2 DEF Storage, Message
  <2> HIDE DEF drn, off, nao, tt
  <2> QED
    BY <1>1, <2>1, <2>2, ZenonT(60) DEF Storage
<1>4. /\ tt.DesignatedRouterFor = st.DesignatedRouterFor
      /\ tt.NewDesignatedRouter = st.NewDesignatedRouter
      /\ tt.NSNonces = st.NSNonces
      /\ tt.NewAffinityOffer = st.NewAffinityOffer \cup {<<m.dr, m.ns>>}
      /\ \A p \in DRs \X NSs :
           tt.AffinityOffers[p] = IF p = <<m.dr, m.ns>> THEN m.nonce ELSE st.AffinityOffers[p]
      /\ \A dr \in DRs : tt.DRNonces[dr] = IF dr = m.dr THEN st.DRNonces[dr] + 1 ELSE st.DRNonces[dr]
  BY <1>1 DEF OfferRouting, Storage, Message
<1> HIDE DEF tt
<1>5. HasOffer(tt)
  BY <1>1, <1>2, <1>4 DEF HasOffer, Storage
<1>6. FindsAll(tt)
  BY <1>1, <1>4 DEF FindsAll, FindRoutingOffers, FindRoutingAffinities
<1>7. NotBelow(st, tt)
  BY <1>1, <1>4 DEF NotBelow, Storage
<1>8. Used(st, tt, m)
  BY <1>1, <1>2, <1>4 DEF Used, Fresh, LastNonce, Message
<1> QED
  BY <1>3, <1>5, <1>6, <1>7, <1>8 DEF Good, tt

LEMMA AcceptRoutingGood ==
  ASSUME NEW st, Good(st), NEW m \in Message, m.op = "AcceptRouting", Fresh(st, m)
  PROVE  /\ Good(AcceptRouting(st, m))
         /\ NotBelow(st, AcceptRouting(st, m))
         /\ Used(st, AcceptRouting(st, m), m)
<1> DEFINE tt == AcceptRouting(st, m)
<1>1. st \in Storage /\ HasOffer(st) /\ FindsAll(st)
  BY DEF Good
<1>2. CASE ~Offered(st, m)
  BY <1>1, <1>2 DEF AcceptRouting, Good, NotBelow, Used, Storage
<1>3. CASE Offered(st, m)
  <2>1. tt \in Storage
    <3> DEFINE nsn == [st.NSNonces EXCEPT ![m.ns] = @ + 1]
               drf == [st.DesignatedRouterFor EXCEPT ![m.ns] = m.dr]
               ndr == st.NewDesignatedRouter \cup {<<m.ns, m.dr>>}
    <3>1. tt = [DRNonces |-> st.DRNonces, NSNonces |-> nsn, DRSRV |-> st.DRSRV,
                AffinityOffers |-> st.AffinityOffers, DesignatedRouterFor |-> drf,
                NewAffinityOffer |-> st.NewAffinityOffer, NewDesignatedRouter |-> ndr]
      BY <1>1, <1>3, ZenonT(60) DEF AcceptRouting, Storage
    <3>2. /\ nsn \in [NSs -> Nat] /\ drf \in [NSs -> DRs \cup {NoRouter}]
          /\ ndr \in SUBSET (NSs \X (DRs \cup {NoRouter}))
      BY <1>1 DEF Storage, Message
    <3> HIDE DEF nsn, drf, ndr, tt
    <3> QED
      BY <1>1, <3>1, <3>2 DEF Storage
  <2>2. /\ tt.AffinityOffers = st.AffinityOffers
        /\ tt.NewAffinityOffer = st.NewAffinityOffer
        /\ tt.DRNonces = st.DRNonces
        /\ tt.NewDesignatedRouter = st.NewDesignatedRouter \cup {<<m.ns, m.dr>>}
        /\ \A ns \in NSs : tt.DesignatedRouterFor[ns]
                             = IF ns = m.ns THEN m.dr ELSE st.DesignatedRouterFor[ns]
        /\ \A ns \in NSs : tt.NSNonces[ns] = IF ns = m.ns THEN st.NSNonces[ns] + 1 ELSE st.NSNonces[ns]
    BY <1>1, <1>3 DEF AcceptRouting, Storage, Message
  <2> HIDE DEF tt
  <2>3. HasOffer(tt)
    BY <1>1, <1>3, <2>2 DEF HasOffer, Offered
  <2>4. FindsAll(tt)
    BY <1>1, <2>2 DEF FindsAll, FindRoutingOffers, FindRoutingAffinities
  <2>5. NotBelow(st, tt)
    BY <1>1, <2>2 DEF NotBelow, Storage
  <2>6. Used(st, tt, m)
    BY <1>1, <2>2 DEF Used, Fresh, LastNonce, Message, NSOps
  <2> QED
    BY <2>1, <2>3, <2>4, <2>5, <2>6 DEF Good, tt
<1> QED
  BY <1>2, <1>3

LEMMA RetractRoutingDRGood ==
  ASSUME NEW st, Good(st), NEW m \in Message, m.op = "RetractRoutingDR", Fresh(st, m)
  PROVE  /\ Good(RetractRoutingDR(st, m))
         /\ NotBelow(st, RetractRoutingDR(st, m))
         /\ Used(st, RetractRoutingDR(st, m), m)
<1> DEFINE rr == [st EXCEPT !.DRNonces[m.dr] = @ + 1, !.AffinityOffers[<<m.dr, m.ns>>] = 0]
           tt == Unbound(rr, m)
<1>1. st \in Storage /\ HasOffer(st) /\ FindsAll(st) /\ m.op \notin NSOps
  BY DEF Good, NSOps
<1>2. rr \in Storage
  <2> DEFINE drn == [st.DRNonces EXCEPT ![m.dr] = @ + 1]
             off == [st.AffinityOffers EXCEPT ![<<m.dr, m.ns>>] = 0]
  <2>1. rr = [st EXCEPT !.DRNonces = drn, !.AffinityOffers = off]
    OBVIOUS
  <2>2. drn \in [DRs -> Nat] /\ off \in [DRs \X NSs -> Nat]
    BY <1>1 DEF Storage, Message
  <2> HIDE DEF drn, off, rr
  <2> QED
    BY <1>1, <2>1, <2>2, ZenonT(60) DEF Storage
<1>3. /\ rr.DesignatedRouterFor = st.DesignatedRouterFor
      /\ rr.NewDesignatedRouter = st.NewDesignatedRouter
      /\ rr.NSNonces = st.NSNonces
      /\ rr.NewAffinityOffer = st.NewAffinityOffer
      /\ \A p \in DRs \X NSs :
           rr.AffinityOffers[p] = IF p = <<m.dr, m.ns>> THEN 0 ELSE st.AffinityOffers[p]
      /\ \A dr \in DRs : rr.DRNonces[dr] = IF dr = m.dr THEN st.DRNonces[dr] + 1 ELSE st.DRNonces[dr]
  BY <1>1 DEF Storage, Message
<1>4. tt = RetractRoutingDR(st, m)
  BY DEF RetractRoutingDR
<1> HIDE DEF rr
<1>5. /\ tt \in Storage
      /\ tt.DRNonces = rr.DRNonces
      /\ tt.NSNonces = rr.NSNonces
      /\ tt.AffinityOffers = rr.AffinityOffers
      /\ tt.NewAffinityOffer = rr.NewAffinityOffer
      /\ rr.NewDesignatedRouter \subseteq tt.NewDesignatedRouter
      /\ tt.DesignatedRouterFor[m.ns] # m.dr
      /\ \A ns \in NSs : \/ tt.DesignatedRouterFor[ns] = NoRouter
                         \/ tt.DesignatedRouterFor[ns] = rr.DesignatedRouterFor[ns]
  BY <1>2, UnboundFacts
<1> HIDE DEF tt
<1>6. HasOffer(tt)
  <2> SUFFICES ASSUME NEW ns \in NSs, tt.DesignatedRouterFor[ns] # NoRouter
               PROVE  tt.AffinityOffers[<<tt.DesignatedRouterFor[ns], ns>>] # 0
    BY DEF HasOffer
  <2>1. tt.DesignatedRouterFor[ns] = st.DesignatedRouterFor[ns] /\ st.DesignatedRouterFor[ns] \in DRs
    BY <1>1, <1>3, <1>5 DEF Storage
  <2>2. <<st.DesignatedRouterFor[ns], ns>> # <<m.dr, m.ns>>
    BY <1>5, <2>1
  <2>3. st.AffinityOffers[<<st.DesignatedRouterFor[ns], ns>>] # 0
    BY <1>1, <2>1 DEF HasOffer
  <2> QED
    BY <1>3, <1>5, <2>1, <2>2, <2>3
<1>7. FindsAll(tt)
  BY <1>1, <1>3, <1>5, AffinityAssumption DEF FindsAll, FindRoutingOffers, FindRoutingAffinities
<1>8. NotBelow(st, tt)
  <2>1. st.DRNonces \in [DRs -> Nat] /\ st.NSNonces \in [NSs -> Nat]
    BY <1>1 DEF Storage
  <2> QED
    BY <1>3, <1>5, <2>1 DEF NotBelow
<1>9. Used(st, tt, m)
  BY <1>1, <1>3, <1>5 DEF Used, Fresh, LastNonce, Message
<1> QED
  BY <1>4, <1>5, <1>6, <1>7, <1>8, <1>9 DEF Good

LEMMA RetractRoutingNSGood ==
  ASSUME NEW st, Good(st), NEW m \in Message, m.op = "RetractRoutingNS", Fresh(st, m)
  PROVE  /\ Good(RetractRoutingNS(st, m))
         /\ NotBelow(st, RetractRoutingNS(st, m))
         /\ Used(st, RetractRoutingNS(st, m), m)
<1> DEFINE rr == [st EXCEPT !.NSNonces[m.ns] = @ + 1]
           tt == Unbound(rr, m)
<1>1. st \in Storage /\ HasOffer(st) /\ FindsAll(st) /\ m.op \in NSOps
  BY DEF Good, NSOps
<1>2. rr \in Storage
  BY <1>1 DEF Storage, Message
<1>3. /\ rr.DesignatedRouterFor = st.DesignatedRouterFor
      /\ rr.NewDesignatedRouter = st.NewDesignatedRouter
      /\ rr.DRNonces = st.DRNonces
      /\ rr.NewAffinityOffer = st.NewAffinityOffer
      /\ rr.AffinityOffers = st.AffinityOffers
      /\ \A ns \in NSs : rr.NSNonces[ns] = IF ns = m.ns THEN st.NSNonces[ns] + 1 ELSE st.NSNonces[ns]
  BY <1>1 DEF Storage, Message
<1>4. tt = RetractRoutingNS(st, m)
  BY DEF RetractRoutingNS
<1> HIDE DEF rr
<1>5. /\ tt \in Storage
      /\ tt.DRNonces = rr.DRNonces
      /\ tt.NSNonces = rr.NSNonces
      /\ tt.AffinityOffers = rr.AffinityOffers
      /\ tt.NewAffinityOffer = rr.NewAffinityOffer
      /\ rr.NewDesignatedRouter \subseteq tt.NewDesignatedRouter
      /\ \A ns \in NSs : \/ tt.DesignatedRouterFor[ns] = NoRouter
                         \/ tt.DesignatedRouterFor[ns] = rr.DesignatedRouterFor[ns]
  BY <1>2, UnboundFacts
<1> HIDE DEF tt
<1>6. HasOffer(tt)
  BY <1>1, <1>3, <1>5 DEF HasOffer
<1>7. FindsAll(tt)
  BY <1>1, <1>3, <1>5, AffinityAssumption DEF FindsAll, FindRoutingOffers, FindRoutingAffinities
<1>8. NotBelow(st, tt)
  <2>1. st.DRNonces \in [DRs -> Nat] /\ st.NSNonces \in [NSs -> Nat]
    BY <1>1 DEF Storage
  <2> QED
    BY <1>3, <1>5, <2>1 DEF NotBelow
<1>9. Used(st, tt, m)
  BY <1>1, <1>3, <1>5 DEF Used, Fresh, LastNonce, Message
<1> QED
  BY <1>4, <1>5, <1>6, <1>7, <1>8, <1>9 DEF Good

LEMMA SetSRVGood ==
  ASSUME NEW st, Good(st), NEW m \in Message, m.op = "SetDesignatedRouterSRV", Fresh(st, m)
  PROVE  /\ Good(SetDesignatedRouterSRV(st, m))
         /\ NotBelow(st, SetDesignatedRouterSRV(st, m))
         /\ Used(st, SetDesignatedRouterSRV(st, m), m)
<1> DEFINE tt == SetDesignatedRouterSRV(st, m)
<1>1. st \in Storage /\ HasOffer(st) /\ FindsAll(st) /\ m.op \notin NSOps
  BY DEF Good, NSOps
<1>2. tt \in Storage
  <2> DEFINE drn == [st.DRNonces EXCEPT ![m.dr] = @ + 1]
             srv == [st.DRSRV EXCEPT ![m.dr] = m.srv]
  <2>1. tt = [st EXCEPT !.DRNonces = drn, !.DRSRV = srv]
    BY DEF SetDesignatedRouterSRV
  <2>2. drn \in [DRs -> Nat] /\ srv \in [DRs -> SRVs]
    BY <1>1 DEF Storage, Message
  <2> HIDE DEF drn, srv, tt
  <2> QED
    BY <1>1, <2>1, <2>2, ZenonT(60) DEF Storage
<1>3. /\ tt.DesignatedRouterFor = st.DesignatedRouterFor
      /\ tt.NewDesignatedRouter = st.NewDesignatedRouter
      /\ tt.NSNonces = st.NSNonces
      /\ tt.NewAffinityOffer = st.NewAffinityOffer
      /\ tt.AffinityOffers = st.AffinityOffers
      /\ \A dr \in DRs : tt.DRNonces[dr] = IF dr = m.dr THEN st.DRNonces[dr] + 1 ELSE st.DRNonces[dr]
  BY <1>1 DEF SetDesignatedRouterSRV, Storage, Message
<1> HIDE DEF tt
<1>4. HasOffer(tt) /\ FindsAll(tt)
  BY <1>1, <1>3 DEF HasOffer, FindsAll, FindRoutingOffers, FindRoutingAffinities
<1>5. NotBelow(st, tt)
  BY <1>1, <1>3 DEF NotBelow, Storage
<1>6. Used(st, tt, m)
  BY <1>1, <1>3 DEF Used, Fresh, LastNonce, Message
<1> QED
  BY <1>2, <1>4, <1>5, <1>6 DEF Good, tt

(***************************************************************************)
(* Every message, stale ones included, keeps the storage good, lowers no   *)
(* nonce, and changes the storage only if it carries the next nonce of its *)
(* signer.                                                                 *)
(***************************************************************************)
LEMMA ExecuteGood ==
  ASSUME NEW st, Good(st), NEW m \in Message
  PROVE  /\ Good(Execute(st, m))
         /\ NotBelow(st, Execute(st, m))
         /\ Used(st, Execute(st, m), m)
<1>1. CASE ~Fresh(st, m)
  <2>1. Execute(st, m) = st
    BY <1>1 DEF Execute
  <2> QED
    BY <2>1 DEF Good, NotBelow, Used, Storage
<1>2. CASE Fresh(st, m)
  <2>1. m.op \in Ops
    BY DEF Message
  <2>2. CASE m.op = "OfferRouting"
    BY <1>2, <2>2, OfferRoutingGood DEF Execute
  <2>3. CASE m.op = "AcceptRouting"
    BY <1>2, <2>3, AcceptRoutingGood DEF Execute
  <2>4. CASE m.op = "RetractRoutingDR"
    BY <1>2, <2>4, RetractRoutingDRGood DEF Execute
  <2>5. CASE m.op = "RetractRoutingNS"
    BY <1>2, <2>5, RetractRoutingNSGood DEF Execute
  <2>6. CASE m.op = "SetDesignatedRouterSRV"
    BY <1>2, <2>6, SetSRVGood DEF Execute
  <2> QED
    BY <2>1, <2>2, <2>3, <2>4, <2>5, <2>6 DEF Ops
<1> QED
  BY <1>1, <1>2

-----------------------------------------------------------------------------
(***************************************************************************)
(* The inductive invariant: every block is good, nonces never fall along   *)
(* the chain, a block that changes the storage holds the message that did, *)
(* and a confirmed transaction lies too deep for a fork.                   *)
(***************************************************************************)
Entry == [tx : Calls \cup {None}, message : Message \cup {None}, storage : Storage]

Chained(ch) ==
  /\ ch \in Seq(Entry) /\ Len(ch) >= 1
  /\ \A b \in 1 .. Len(ch) : Good(ch[b].storage)
  /\ \A a, b \in 1 .. Len(ch) : a <= b => NotBelow(ch[a].storage, ch[b].storage)
  /\ \A b \in 2 .. Len(ch) :
       \/ ch[b].storage = ch[b-1].storage
       \/ ch[b].message \in Message
          /\ Used(ch[b-1].storage, ch[b].storage, ch[b].message)

Settled(c) ==
  confirmedAt[c] # 0 => /\ Mined(c, confirmedAt[c])
                        /\ confirmedAt[c] + Confirmations < top

IInv ==
  /\ TypeOK
  /\ Chained(chain)
  /\ \A c \in Calls : Settled(c) /\ curblock[c] <= top

(***************************************************************************)
(* A new block keeps the chain in order.                                   *)
(***************************************************************************)
LEMMA ChainGrows ==
  ASSUME NEW ch, Chained(ch), NEW tx \in Calls \cup {None}, NEW m \in Message \cup {None},
         NEW last, last = ch[Len(ch)].storage,
         NEW st, st = IF m = None THEN last ELSE Execute(last, m)
  PROVE  Chained(Append(ch, [tx |-> tx, message |-> m, storage |-> st]))
<1> DEFINE e == [tx |-> tx, message |-> m, storage |-> st]
           nx == Append(ch, e)
<1>1. ch \in Seq(Entry) /\ Len(ch) \in Nat /\ Len(ch) >= 1 /\ Good(last)
  BY DEF Chained
<1>2. Good(st) /\ NotBelow(last, st) /\ (st = last \/ (m \in Message /\ Used(last, st, m)))
  <2>1. CASE m = None
    BY <1>1, <2>1 DEF Good, NotBelow, Storage
  <2>2. CASE m # None
    BY <1>1, <2>2, ExecuteGood
  <2> QED
    BY <2>1, <2>2
<1>3. e \in Entry /\ e.storage = st /\ e.message = m
  BY <1>2 DEF Good, Entry
<1> HIDE DEF e
<1>4. /\ nx \in Seq(Entry) /\ Len(nx) = Len(ch) + 1
      /\ \A b \in 1 .. Len(ch) : nx[b] = ch[b]
      /\ nx[Len(ch) + 1] = e
  BY <1>1, <1>3
<1> HIDE DEF nx
<1>5. \A b \in 1 .. Len(nx) : Good(nx[b].storage)
  BY <1>1, <1>2, <1>3, <1>4 DEF Chained
<1>6. ASSUME NEW a \in 1 .. Len(nx), NEW b \in 1 .. Len(nx), a <= b
      PROVE  NotBelow(nx[a].storage, nx[b].storage)
  <2>1. CASE b <= Len(ch)
    BY <1>1, <1>4, <1>6, <2>1 DEF Chained
  <2>2. CASE b = Len(ch) + 1 /\ a <= Len(ch)
    <3>1. NotBelow(ch[a].storage, last)
      BY <1>1, <2>2 DEF Chained
    <3>2. ch[a].storage \in Storage /\ last \in Storage /\ st \in Storage
      BY <1>1, <1>2, <2>2 DEF Chained, Good
    <3>3. NotBelow(ch[a].storage, st)
      BY <1>2, <3>1, <3>2 DEF NotBelow, Storage
    <3> QED
      BY <1>3, <1>4, <2>2, <3>3
  <2>3. CASE a = Len(ch) + 1 /\ b = a
    <3>1. st \in Storage
      BY <1>2 DEF Good
    <3>2. NotBelow(st, st)
      BY <3>1 DEF NotBelow, Storage
    <3> QED
      BY <1>3, <1>4, <2>3, <3>2
  <2> QED
    BY <1>1, <1>4, <1>6, <2>1, <2>2, <2>3
<1>7. ASSUME NEW b \in 2 .. Len(nx)
      PROVE  \/ nx[b].storage = nx[b-1].storage
             \/ nx[b].message \in Message
                /\ Used(nx[b-1].storage, nx[b].storage, nx[b].message)
  <2>1. CASE b <= Len(ch)
    BY <1>1, <1>4, <2>1 DEF Chained
  <2>2. CASE b = Len(ch) + 1
    BY <1>1, <1>2, <1>3, <1>4, <2>2
  <2> QED
    BY <1>1, <1>4, <2>1, <2>2
<1>8. Chained(nx)
  BY <1>1, <1>4, <1>5, <1>6, <1>7 DEF Chained
<1> QED
  BY <1>8 DEF nx, e

(***************************************************************************)
(* So does a roll-back.                                                    *)
(***************************************************************************)
LEMMA ChainShrinks ==
  ASSUME NEW ch, Chained(ch), NEW n \in 1 .. Len(ch)
  PROVE  /\ Chained(SubSeq(ch, 1, n)) /\ Len(SubSeq(ch, 1, n)) = n
         /\ \A b \in 1 .. n : SubSeq(ch, 1, n)[b] = ch[b]
<1> DEFINE nx == SubSeq(ch, 1, n)
<1>1. ch \in Seq(Entry) /\ Len(ch) \in Nat /\ n \in Nat /\ n >= 1 /\ n <= Len(ch)
  BY DEF Chained
<1>2. nx \in Seq(Entry) /\ Len(nx) = n /\ \A b \in 1 .. n : nx[b] = ch[b]
  BY <1>1
<1> HIDE DEF nx
<1>3. Chained(nx)
  <2>1. \A b \in 1 .. n : b \in 1 .. Len(ch) /\ nx[b] = ch[b]
    BY <1>1, <1>2
  <2>2. \A b \in 2 .. n : b \in 2 .. Len(ch) /\ nx[b] = ch[b] /\ nx[b-1] = ch[b-1]
    BY <1>1, <1>2
  <2>3. /\ \A b \in 1 .. n : Good(nx[b].storage)
        /\ \A a, b \in 1 .. n : a <= b => NotBelow(nx[a].storage, nx[b].storage)
    BY <2>1, ZenonT(60) DEF Chained
  <2>4. \A b \in 2 .. n :
          \/ nx[b].storage = nx[b-1].storage
          \/ nx[b].message \in Message
             /\ Used(nx[b-1].storage, nx[b].storage, nx[b].message)
    BY <2>2 DEF Chained
  <2> QED
    BY <1>1, <1>2, <2>3, <2>4 DEF Chained
<1> QED
  BY <1>2, <1>3 DEF nx

(***************************************************************************)
(* The invariant holds initially.                                          *)
(***************************************************************************)
LEMMA InitIInv == Init => IInv
<1> SUFFICES ASSUME Init PROVE IInv
  OBVIOUS
<1> DEFINE e == [tx |-> None, message |-> None, storage |-> Deployed]
<1>1. e \in Entry /\ e.storage = Deployed /\ Good(Deployed) /\ chain = <<e>>
  BY DeployedGood DEF Entry, Good, Init
<1> HIDE DEF e
<1>2. chain \in Seq(Entry) /\ Len(chain) = 1 /\ chain[1] = e
  BY <1>1
<1>3. NotBelow(Deployed, Deployed)
  BY DEF NotBelow, Deployed
<1>4. Chained(chain)
  BY <1>1, <1>2, <1>3 DEF Chained
<1>5. TypeOK
  BY <1>2, ClientsAssumption DEF Init, TypeOK, Entry, Phases
<1> QED
  BY <1>4, <1>5, ClientsAssumption DEF IInv, Init, Settled

(***************************************************************************)
(* A step that leaves the chain alone and reports no confirmation keeps    *)
(* what is settled.                                                        *)
(***************************************************************************)
LEMMA SettledFrame ==
  ASSUME IInv, UNCHANGED <<chainVars, confirmedAt>>,
         curblock' = curblock \/ \E c \in Calls : curblock' = [curblock EXCEPT ![c] = Len(chain)]
  PROVE  \A c \in Calls : Settled(c)' /\ curblock'[c] <= top'
<1>1. \A c \in Calls : Settled(c)'
  BY DEF IInv, Settled, Mined, chainVars
<1>2. \A c \in Calls : curblock'[c] <= top'
  BY ZenonT(60) DEF IInv, TypeOK, chainVars
<1> QED
  BY <1>1, <1>2

(***************************************************************************)
(* A block and a roll-back keep the invariant; a roll-back does not reach  *)
(* what is settled.                                                        *)
(***************************************************************************)
LEMMA NewBlockStep == IInv /\ NewBlock => IInv'
<1> SUFFICES ASSUME IInv, NewBlock PROVE IInv'
  OBVIOUS
<1> USE DEF IInv
<1>1. PICK tx \in Calls \cup {None}, m \in Message \cup {None} : chain' = Append(chain, Block(tx, m))
  <2>1. \A c \in sent : c \in Calls /\ MessageOf(c) \in Message
    BY DEF TypeOK, MessageOf, Message, Request
  <2>2. Foreign \subseteq Message
    BY ClientsAssumption
  <2> QED
    BY <2>1, <2>2 DEF NewBlock
<1>2. Chained(chain')
  BY <1>1, ChainGrows, ZenonT(60) DEF Block, Latest
<1>3. /\ chain \in Seq(Entry) /\ chain' \in Seq(Entry) /\ Len(chain') = Len(chain) + 1
      /\ \A b \in 1 .. Len(chain) : chain'[b] = chain[b]
  BY <1>1, <1>2 DEF Chained
<1>4. top' \in Nat /\ top <= top' /\ Len(chain') <= top' /\ top' <= Len(chain') + ForkDepth
  <2>1. Len(chain) \in Nat /\ top \in Nat /\ ForkDepth \in Nat /\ Len(chain) <= top /\ top <= Len(chain) + ForkDepth
    BY <1>3, ClientsAssumption DEF TypeOK
  <2>2. top' = IF Len(chain) = top THEN top + 1 ELSE top
    BY DEF NewBlock
  <2> QED
    BY <1>3, <2>1, <2>2
<1>5. TypeOK'
  BY <1>3, <1>4 DEF NewBlock, TypeOK, Entry, watchVars
<1>6. ASSUME NEW c \in Calls PROVE Settled(c)' /\ curblock'[c] <= top'
  <2>1. curblock' = curblock /\ confirmedAt' = confirmedAt
    BY DEF NewBlock, watchVars
  <2>2. curblock[c] \in Nat /\ confirmedAt[c] \in Nat /\ top \in Nat /\ Confirmations \in Nat
    BY ClientsAssumption DEF TypeOK
  <2>3. Settled(c)'
    <3> SUFFICES ASSUME confirmedAt[c] # 0
                 PROVE  Mined(c, confirmedAt[c])' /\ confirmedAt[c] + Confirmations < top'
      BY <2>1 DEF Settled
    <3>1. /\ chain[confirmedAt[c]].tx = c /\ confirmedAt[c] + Confirmations < top
          /\ confirmedAt[c] \in 1 .. Len(chain)
      BY <1>3 DEF Settled, Mined
    <3>2. confirmedAt[c] \in DOMAIN chain' /\ chain'[confirmedAt[c]] = chain[confirmedAt[c]]
      BY <1>3, <3>1
    <3> QED
      BY <1>4, <2>1, <2>2, <3>1, <3>2 DEF Mined
  <2> QED
    BY <1>4, <2>1, <2>2, <2>3
<1> QED
  BY <1>2, <1>5, <1>6

LEMMA RollbackStep == IInv /\ Rollback => IInv'
<1> SUFFICES ASSUME IInv, Rollback PROVE IInv'
  OBVIOUS
<1> USE DEF IInv
<1>1. PICK n \in 1 .. Len(chain) - 1 : top <= n + ForkDepth /\ chain' = SubSeq(chain, 1, n)
  BY DEF Rollback
<1>2. chain \in Seq(Entry) /\ n \in 1 .. Len(chain) /\ n \in Nat
  BY <1>1 DEF Chained
<1>3. Chained(chain') /\ Len(chain') = n /\ \A b \in 1 .. n : chain'[b] = chain[b]
  BY <1>1, <1>2, ChainShrinks
<1>4. TypeOK'
  <2>1. chain' \in Seq(Entry) /\ 1 <= Len(chain') /\ Len(chain') <= top
        /\ top <= Len(chain') + ForkDepth
    BY <1>1, <1>2, <1>3, ClientsAssumption DEF TypeOK, Chained
  <2>2. rollbacks' \in Nat /\ top' = top
    BY DEF Rollback, TypeOK
  <2> QED
    BY <2>1, <2>2 DEF Rollback, TypeOK, Entry, watchVars
<1>5. ASSUME NEW c \in Calls PROVE Settled(c)' /\ curblock'[c] <= top'
  <2>1. curblock' = curblock /\ confirmedAt' = confirmedAt /\ top' = top
    BY DEF Rollback, watchVars
  <2>2. /\ confirmedAt[c] \in Nat /\ top \in Nat /\ Confirmations \in Nat /\ ForkDepth \in Nat
        /\ ForkDepth <= Confirmations + 1
    BY ClientsAssumption DEF TypeOK
  <2>3. confirmedAt[c] # 0 => confirmedAt[c] \in 1 .. n
    BY <1>1, <1>2, <2>2 DEF Settled
  <2>4. Settled(c)'
    <3> SUFFICES ASSUME confirmedAt[c] # 0
                 PROVE  Mined(c, confirmedAt[c])' /\ confirmedAt[c] + Confirmations < top
      BY <2>1 DEF Settled
    <3>1. chain[confirmedAt[c]].tx = c /\ confirmedAt[c] + Confirmations < top
      BY DEF Settled, Mined
    <3>2. chain' \in Seq(Entry) /\ confirmedAt[c] \in DOMAIN chain'
      BY <1>3, <2>3 DEF Chained
    <3> QED
      BY <1>3, <2>1, <2>3, <3>1, <3>2 DEF Mined
  <2> QED
    BY <2>1, <2>4
<1> QED
  BY <1>3, <1>4, <1>5

(***************************************************************************)
(* Steps of a call: the phase and the answers keep their types.            *)
(***************************************************************************)
LEMMA GotoType ==
  ASSUME TypeOK, NEW c \in Calls, NEW phase \in Phases, Goto(c, phase)
  PROVE  pc' \in [Calls -> Phases]
BY DEF TypeOK, Goto

LEMMA AnswerType ==
  ASSUME TypeOK, NEW c \in Calls, NEW a \in {"ok", "err"}, Answer(c, a)
  PROVE  answers' \in [Calls -> Seq({"ok", "err"})]
<1> DEFINE A == Seq({"ok", "err"})
<1>1. answers \in [Calls -> A] /\ Append(answers[c], a) \in A
  BY DEF TypeOK
<1> HIDE DEF A
<1> QED
  BY <1>1 DEF Answer, A

LEMMA CallbackType ==
  ASSUME TypeOK, NEW c \in Calls, NEW ok \in BOOLEAN, NEW next \in {"tail", "done"},
         Callback(c, ok, next)
  PROVE  /\ pc' \in [Calls -> Phases]
         /\ resume' \in [Calls -> {"tail", "done"}]
         /\ answers' \in [Calls -> Seq({"ok", "err"})]
<1>1. "check" \in Phases /\ next \in Phases /\ "err" \in {"ok", "err"}
  BY DEF Phases
<1>2. CASE ok \/ IgnoresError(c)
  BY <1>1, <1>2, GotoType, ZenonT(60) DEF Callback, TypeOK
<1>3. CASE ~(ok \/ IgnoresError(c))
  BY <1>1, <1>3, GotoType, AnswerType DEF Callback, TypeOK
<1> QED
  BY <1>2, <1>3

LEMMA CallStep ==
  ASSUME IInv, NEW c \in Calls, Step(c) \/ WaitCancelled(c)
  PROVE  IInv'
<1> USE DEF IInv
<1>0. chain \in Seq(Entry) /\ Len(chain) \in Nat
  BY DEF Chained
<1>p. /\ {"nonce", "send", "seek", "seekTx", "seekBlock", "wait", "waitTx", "waitBlock",
          "sleep", "tail", "done"} \subseteq Phases
      /\ \A a \in {"ok", "err"} : Answer(c, a) => answers' \in [Calls -> Seq({"ok", "err"})]
      /\ \A phase \in Phases : Goto(c, phase) => pc' \in [Calls -> Phases]
  BY AnswerType, GotoType DEF Phases
<1>1. CASE CheckActive(c)
  <2>1. TypeOK'
    <3>1. pc' \in [Calls -> Phases] /\ answers' \in [Calls -> Seq({"ok", "err"})]
      BY <1>1, <1>p, ZenonT(60) DEF CheckActive, TypeOK
    <3> QED
      BY <1>1, <3>1, ZenonT(60) DEF CheckActive, TypeOK, chainVars, watchVars
  <2> QED
    BY <1>1, <2>1, SettledFrame DEF CheckActive, chainVars, watchVars
<1>2. CASE ReadNonce(c)
  <2>1. LastNonce(Latest, request[c]) \in Nat
    <3>1. Latest \in Storage
      BY <1>0 DEF Latest, Chained, Good
    <3> QED
      BY <3>1 DEF LastNonce, Storage, TypeOK, Request
  <2>2. TypeOK'
    <3>1. CASE up' = FALSE /\ UNCHANGED <<pc, nonce>>
      BY <1>2, <3>1, ZenonT(60) DEF ReadNonce, TypeOK, chainVars, watchVars
    <3>2. CASE /\ nonce' = [nonce EXCEPT ![c] = LastNonce(Latest, request[c]) + 1]
               /\ Goto(c, "send") /\ UNCHANGED up
      <4>1. pc' \in [Calls -> Phases] /\ nonce' \in [Calls -> Nat]
        BY <1>p, <2>1, <3>2 DEF TypeOK
      <4> QED
        BY <1>2, <3>2, <4>1 DEF ReadNonce, TypeOK, chainVars, watchVars
    <3> QED
      BY <1>2, <3>1, <3>2, ZenonT(60) DEF ReadNonce
  <2> QED
    BY <1>2, <2>2, SettledFrame DEF ReadNonce, chainVars, watchVars
<1>3. CASE Send(c)
  <2>1. TypeOK'
    BY <1>0, <1>3, <1>p DEF Send, TypeOK, chainVars
  <2> QED
    BY <1>3, <2>1, SettledFrame DEF Send, chainVars
<1>4. CASE SeekLook(c)
  <2>1. TypeOK'
    BY <1>0, <1>4, <1>p DEF SeekLook, TypeOK, Look, chainVars
  <2> QED
    BY <1>4, <2>1, SettledFrame, ZenonT(60) DEF SeekLook, Look, chainVars
<1>5. CASE SeekTx(c)
  <2>1. /\ pc' \in [Calls -> Phases]
        /\ resume' \in [Calls -> {"tail", "done"}]
        /\ answers' \in [Calls -> Seq({"ok", "err"})]
    BY <1>5, <1>p, CallbackType, ZenonT(60) DEF SeekTx, TypeOK
  <2>2. TypeOK'
    BY <1>5, <2>1 DEF SeekTx, TypeOK, chainVars, watchVars
  <2> QED
    BY <1>5, <2>2, SettledFrame DEF SeekTx, chainVars, watchVars
<1>6. CASE SeekBlock(c)
  <2>1. InChain(c) => BlockOf(c) \in Nat
    BY <1>0 DEF InChain, BlockOf
  <2>2. TypeOK'
    BY <1>6, <1>p, <2>1, ZenonT(60) DEF SeekBlock, TypeOK, chainVars
  <2> QED
    BY <1>6, <2>2, SettledFrame DEF SeekBlock, chainVars
<1>7. CASE WaitCancelled(c)
  <2>1. TypeOK'
    BY <1>7, CallbackType, ZenonT(60) DEF WaitCancelled, TypeOK, chainVars, watchVars
  <2> QED
    BY <1>7, <2>1, SettledFrame DEF WaitCancelled, chainVars, watchVars
<1>8. CASE WaitLook(c)
  <2>1. TypeOK'
    BY <1>0, <1>8, <1>p DEF WaitLook, TypeOK, Look, chainVars
  <2> QED
    BY <1>8, <2>1, SettledFrame, ZenonT(60) DEF WaitLook, Look, chainVars
<1>9. CASE WaitTx(c)
  <2>1. TypeOK'
    BY <1>9, <1>p DEF WaitTx, TypeOK, chainVars, watchVars
  <2> QED
    BY <1>9, <2>1, SettledFrame DEF WaitTx, chainVars, watchVars
<1>10. CASE WaitBlock(c)
  <2>1. InChain(c) => BlockOf(c) \in Nat /\ Mined(c, BlockOf(c))
    BY <1>0 DEF InChain, BlockOf, Mined
  <2>2. /\ pc' \in [Calls -> Phases]
        /\ resume' \in [Calls -> {"tail", "done"}]
        /\ answers' \in [Calls -> Seq({"ok", "err"})]
    BY <1>10, <1>p, CallbackType, ZenonT(60) DEF WaitBlock, TypeOK
  <2>3. TypeOK'
    BY <1>10, <2>1, <2>2, ZenonT(60) DEF WaitBlock, TypeOK, chainVars, watchVars
  <2>4. CASE confirmedAt' = confirmedAt
    BY <1>10, <2>3, <2>4, SettledFrame DEF WaitBlock, chainVars, watchVars
  <2>5. CASE InChain(c) /\ Deep(c) /\ confirmedAt' = [confirmedAt EXCEPT ![c] = BlockOf(c)]
    <3>1. UNCHANGED <<chain, top, curblock>>
      BY <1>10 DEF WaitBlock, chainVars, watchVars
    <3>2. BlockOf(c) + Confirmations < top
      <4>1. curblock[c] \in Nat /\ curblock[c] <= top /\ top \in Nat /\ Confirmations \in Nat /\ BlockOf(c) \in Nat
        BY <2>1, <2>5, ClientsAssumption DEF TypeOK
      <4>2. Deep(c)
        BY <2>5
      <4> QED
        BY <4>1, <4>2 DEF Deep
    <3>3. ASSUME NEW d \in Calls PROVE Settled(d)' /\ curblock'[d] <= top'
      BY <2>1, <2>5, <3>1, <3>2, ZenonT(60) DEF Settled, Mined, TypeOK
    <3> QED
      BY <2>3, <3>1, <3>3
  <2> QED
    BY <1>10, <2>4, <2>5, ZenonT(60) DEF WaitBlock
<1>11. CASE WaitTail(c)
  <2>1. TypeOK'
    BY <1>11, <1>p, CallbackType, ZenonT(60) DEF WaitTail, TypeOK, chainVars, watchVars
  <2> QED
    BY <1>11, <2>1, SettledFrame DEF WaitTail, chainVars, watchVars
<1>12. CASE Check(c)
  <2>1. TypeOK'
    BY <1>12, <1>p, ZenonT(60) DEF Check, TypeOK, chainVars, watchVars
  <2> QED
    BY <1>12, <2>1, SettledFrame, ZenonT(60) DEF Check, chainVars, watchVars
<1> QED
  BY <1>1, <1>2, <1>3, <1>4, <1>5, <1>6, <1>7, <1>8, <1>9, <1>10, <1>11, <1>12 DEF Step

LEMMA StutterStep == IInv /\ UNCHANGED vars => IInv'
BY DEF vars, IInv, TypeOK, Chained, Settled, Mined

LEMMA IInvHolds == Spec => []IInv
<1>1. IInv /\ [Next]_vars => IInv'
  BY NewBlockStep, RollbackStep, CallStep, StutterStep DEF Next
<1> QED
  BY InitIInv, <1>1, PTL DEF Spec

(***************************************************************************)
(* After every block of every fork, the designated router of a namespace   *)
(* has a standing offer for it.                                            *)
(***************************************************************************)
THEOREM DesignatedRouterOffers == Spec => []RouterHasOffer
<1>1. IInv => RouterHasOffer
  BY DEF IInv, Chained, Good, RouterHasOffer
<1> QED
  BY IInvHolds, <1>1, PTL

(***************************************************************************)
(* Scanning the events of the contract finds every standing offer and      *)
(* every bound namespace.                                                  *)
(***************************************************************************)
THEOREM ScanComplete == Spec => []FindMissesNothing
<1>1. IInv => FindMissesNothing
  BY DEF IInv, Chained, Good, FindMissesNothing
<1> QED
  BY IInvHolds, <1>1, PTL

(***************************************************************************)
(* Messages of one signer take effect in the order of their nonces, each   *)
(* at most once.                                                           *)
(***************************************************************************)
THEOREM NonceOrder == Spec => []SignerOrder
<1>1. IInv => SignerOrder
  <2> SUFFICES ASSUME IInv, NEW a \in DOMAIN chain, NEW b \in DOMAIN chain, a < b,
                      Effective(a), Effective(b),
                      SameSigner(chain[a].message, chain[b].message)
               PROVE  chain[a].message.nonce < chain[b].message.nonce
    BY DEF SignerOrder
  <2> DEFINE m == chain[a].message
             n == chain[b].message
             before == chain[b-1].storage
  <2>1. /\ a \in 2 .. Len(chain) /\ b \in 2 .. Len(chain) /\ a <= b - 1
        /\ b - 1 \in 1 .. Len(chain) /\ a \in 1 .. Len(chain)
    BY DEF IInv, Chained, Effective
  <2>2. /\ m \in Message /\ LastNonce(chain[a].storage, m) = m.nonce
        /\ n \in Message /\ Fresh(before, n)
    BY <2>1 DEF IInv, Chained, Effective, Used
  <2>3. NotBelow(chain[a].storage, before)
    BY <2>1 DEF IInv, Chained
  <2>4. chain[a].storage \in Storage /\ before \in Storage
    BY <2>1 DEF IInv, Chained, Good
  <2>5. LastNonce(chain[a].storage, m) <= LastNonce(before, n) /\ LastNonce(before, n) \in Nat
    BY <2>2, <2>3, <2>4, ZenonT(60) DEF LastNonce, NotBelow, SameSigner, Message, Storage
  <2> QED
    BY <2>2, <2>5 DEF Fresh, Message
<1> QED
  BY IInvHolds, <1>1, PTL

(***************************************************************************)
(* What GetTransactionDetailsInt has confirmed stays confirmed.            *)
(***************************************************************************)
THEOREM ConfirmationFinal == Spec => []ConfirmedStays
<1>1. IInv => ConfirmedStays
  BY DEF IInv, Settled, ConfirmedStays
<1> QED
  BY IInvHolds, <1>1, PTL
=============================================================================
