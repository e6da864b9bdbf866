------------------------------ MODULE MCPeers -------------------------------
(***************************************************************************)
(* Instances of Peers for TLC.                                             *)
(***************************************************************************)
EXTENDS Peers

MCnoSub == <<>>
MCsubOf == [u \in {"u"} |-> "s"]
Plan(calls, mayFail, conns) == [calls |-> calls, mayFail |-> mayFail, conns |-> conns]
MCPlans == {Plan({"p", "s", "u"}, {}, 2), Plan({"p", "q"}, {"q"}, 2), Plan({"p", "s"}, {"s"}, 2),
            Plan({"s"}, {}, 3)}
MCLostPlans == {Plan({"s"}, {}, 2)}

\* What the server does after the client process has died is not explored.
ClientRuns == ~panicked
=============================================================================
