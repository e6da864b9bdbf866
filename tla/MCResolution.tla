---------------------------- MODULE MCResolution ----------------------------
(***************************************************************************)
(* A giver, two receivers and four DOTs, two threads, and one story per    *)
(* plan: what is on the chain at the start, what is sent later, what the   *)
(* threads call, how far the clock goes and how many forks there are.      *)
(***************************************************************************)
EXTENDS Resolution

MCgiver == [d \in {"d1", "d2", "dx", "dv"} |-> "ns"]
MCreceiver == [d \in {"d1", "d2", "dx", "dv"} |-> IF d = "dv" THEN "v" ELSE "u"]
MCdotsOf == [c |-> <<"d1", "d2">>]
MCentityExpiry == [ns |-> 0, u |-> 0, v |-> 1]
MCdotExpiry == [d1 |-> 0, d2 |-> 0, dx |-> 1, dv |-> 0]

Add(dots) == <<<<"AddEntity", "ns">>, <<"AddEntity", "u">>>> \o [i \in DOMAIN dots |-> <<"AddDOT", dots[i]>>]

\* Blocks whose events are older than the replay, and some that are not.
Old(txs) == <<txs, <<>>, <<>>, <<>>, <<>>, <<>>, <<>>>>
Recent(txs) == <<txs, <<>>, <<>>, <<>>, <<>>, <<>>>>

Story(blocks, txs, s1, s2) ==
  [blocks |-> blocks, txs |-> txs, scripts |-> [t1 |-> s1, t2 |-> s2],
   time |-> 0, last |-> Len(blocks) + Replay + 2, forks |-> 0]

Timed(time, story) == [story EXCEPT !.time = time, !.last = Len(story.blocks) + 1]
Forked(story) == [story EXCEPT !.forks = 1, !.last = Len(story.blocks) + 2]

DOT(d) == <<"dot", d>>
Chain == <<"chain", "c">>
Build == <<"build", "ns">>

MCPlans ==
  {\* a DOT is revoked while it is resolved and resolved again
   Story(Old(Add(<<"d1">>)), {<<"RevokeDOT", "d1">>}, <<DOT("d1"), DOT("d1")>>, <<DOT("d1")>>),
   \* the giver is revoked while two of its DOTs are resolved
   Story(Old(Add(<<"d1", "d2">>)), {<<"RevokeEntity", "ns">>}, <<DOT("d1")>>, <<DOT("d2")>>),
   \* the receiver, just registered, is revoked
   Story(Recent(Add(<<"d1">>)), {<<"RevokeEntity", "u">>}, <<DOT("d1"), DOT("d1")>>, <<>>),
   \* a second DOT is granted while chains are built
   Story(Old(Add(<<"d1">>)), {<<"AddDOT", "d2">>}, <<Build>>, <<Build>>),
   \* a chain is registered and one of its DOTs revoked
   Story(Old(Add(<<"d1", "d2">>)), {<<"AddChain", "c">>, <<"RevokeDOT", "d2">>}, <<Chain>>, <<>>),
   \* a DOT and an entity expire
   Timed(2, Story(Old(Add(<<"dx">>)), {<<"CheckDOT", "dx">>}, <<DOT("dx"), DOT("dx")>>, <<>>)),
   Timed(2, Story(Old(<<<<"AddEntity", "v">>>> \o Add(<<"dv">>)), {<<"CheckEntity", "v">>},
                  <<DOT("dv"), DOT("dv")>>, <<>>)),
   \* what was revoked is registered again
   Story(Recent(Add(<<"d1">>)),
         {<<"RevokeDOT", "d1">>, <<"AddDOT", "d1">>, <<"RevokeEntity", "u">>, <<"AddEntity", "u">>}, <<>>, <<>>),
   \* blocks give way to others
   Forked(Story(Old(Add(<<"d1">>)), {<<"AddDOT", "d2">>}, <<Build, DOT("d2")>>, <<>>)),
   Forked(Story(Old(Add(<<"d1">>)), {<<"RevokeDOT", "d1">>}, <<DOT("d1"), DOT("d1")>>, <<>>))}
=============================================================================
