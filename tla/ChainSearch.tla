---------------------------- MODULE ChainSearch ----------------------------
(***************************************************************************)
(* What a search for chains of DOTs promises its caller, with no account   *)
(* of how it walks the grants.  The grants change while it runs.  Whatever *)
(* it returns is a chain of DOTs that were granted at some time of the     *)
(* search; it returns every chain it owes among the DOTs that were granted *)
(* all along, unless a lookup failed; and it ends.                         *)
(***************************************************************************)
CONSTANTS IsChain(_, _, _),   \* IsChain(r, ds, c): c, made of the DOTs ds, answers r
          Owed(_, _)          \* Owed(r, ds): the answers no search among ds may miss

VARIABLES request,  \* what the search is for
          ever,     \* the DOTs granted at some time since the search began
          always,   \* the DOTs granted at every time since the search began
          failed,   \* a lookup of grants failed
          chains,   \* the chains found
          ended

vars == <<request, ever, always, failed, chains, ended>>

Init == ever = always /\ ~failed /\ chains = {} /\ ~ended

GrantsChange ==
  /\ ever \subseteq ever' /\ always' \subseteq always
  /\ UNCHANGED <<request, failed, chains, ended>>

Find ==
  /\ ~ended
  /\ chains \subseteq chains' /\ \A c \in chains' \ chains : IsChain(request, ever, c)
  /\ failed => failed'
  /\ UNCHANGED <<request, ever, always, ended>>

End ==
  /\ ~ended /\ ended'
  /\ failed \/ Owed(request, always) \subseteq chains
  /\ UNCHANGED <<request, ever, always, failed, chains>>

Next == GrantsChange \/ Find \/ End

Spec == Init /\ [][Next]_vars /\ <>ended
=============================================================================
