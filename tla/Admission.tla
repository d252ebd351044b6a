----------------------------- MODULE Admission -----------------------------
(***************************************************************************)
(* What the session table promises its caller: a call is opened once, when *)
(* its first frame arrives and there is room, refused only while MaxCalls  *)
(* calls are in progress, and forgotten when it ends.  A frame of a call   *)
(* in progress changes nothing here.                                       *)
(***************************************************************************)
EXTENDS Naturals, FiniteSets

CONSTANTS Ids, MaxCalls

VARIABLES
  calls,    \* calls in progress
  opened,   \* calls opened so far
  refused   \* frames refused so far

admissionVars == <<calls, opened, refused>>

Init == calls = {} /\ opened = 0 /\ refused = 0

Open(id) == /\ id \notin calls /\ Cardinality(calls) < MaxCalls
            /\ calls' = calls \cup {id}
            /\ opened' = opened + 1
            /\ UNCHANGED refused

Refuse(id) == /\ id \notin calls /\ Cardinality(calls) = MaxCalls
              /\ refused' = refused + 1
              /\ UNCHANGED <<calls, opened>>

End(id) == /\ id \in calls
           /\ calls' = calls \ {id}
           /\ UNCHANGED <<opened, refused>>

Next == \E id \in Ids : Open(id) \/ Refuse(id) \/ End(id)

Spec == Init /\ [][Next]_admissionVars
=============================================================================
