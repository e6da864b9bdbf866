----------------------------- MODULE MCTerminus -----------------------------
(***************************************************************************)
(* Instances of Terminus for TLC.                                          *)
(***************************************************************************)
EXTENDS Terminus, TLC

CONSTANTS c1, c2, s1, s2, s3, i1, i2, i3, p1, p2

\* Three overlapping patterns, one of them a tap; a publication to one
\* consumer and an unlimited one.
MixedClient == s1 :> c1 @@ s2 :> c1 @@ s3 :> c1
MixedId == s1 :> i1 @@ s2 :> i2 @@ s3 :> i3
MixedUri == s1 :> <<"a", "+">> @@ s2 :> <<"a", "*">> @@ s3 :> <<"a", "b">>
MixedTap == s1 :> FALSE @@ s2 :> FALSE @@ s3 :> TRUE
MixedTopic == p1 :> <<"a", "b">> @@ p2 :> <<"a", "b", "c">>
MixedConsumers == p1 :> 1 @@ p2 :> 0
MixedAfter == p1 :> {} @@ p2 :> {p1}
MixedSubAfter == s1 :> {} @@ s2 :> {} @@ s3 :> {}

LifeClient == s1 :> c1
LifeId == s1 :> i1
LifeUri == s1 :> <<"a">>
LifeTap == s1 :> FALSE
LifeTopic == p1 :> <<"a">> @@ p2 :> <<"a">>
LifeConsumers == p1 :> 0 @@ p2 :> 0
LifeAfter == p1 :> {} @@ p2 :> {p1}
LifeSubAfter == s1 :> {}

RaceClient == s1 :> c1 @@ s2 :> c1
RaceId == s1 :> i1 @@ s2 :> i2
RaceUri == s1 :> <<"a">> @@ s2 :> <<"a">>
RaceTap == s1 :> FALSE @@ s2 :> FALSE
RaceTopic == p1 :> <<"a">>
RaceConsumers == p1 :> 1
RaceAfter == p1 :> {}
RaceSubAfter == s1 :> {} @@ s2 :> {}
=============================================================================
