--------------------------- MODULE HotPathSilence ---------------------------
(***************************************************************************)
(* HotPath with the history that tells a call that has gone quiet from one *)
(* whose frames wait in the ring: how long each call has offered nothing,  *)
(* and how long it had been silent before each frame that waits.           *)
(***************************************************************************)
EXTENDS HotPath

VARIABLES
  silent,   \* time since a frame of each call was offered, up to IdleLimit
  after     \* for each frame in the ring, the silence before it

Older(n) == IF n < IdleLimit THEN n + 1 ELSE n

NextWithHistory ==
  \/ /\ Tick
     /\ silent' = [id \in Ids |-> Older(silent[id])]
     /\ UNCHANGED after
  \/ \E id \in Ids :
       /\ Feed(id)
       /\ silent' = [silent EXCEPT ![id] = 0]
       /\ after' = IF RoomForFrame THEN Append(after, silent[id]) ELSE after
  \/ /\ Signal \/ HotThread \/ Publisher
     /\ after' = SubSeq(after, Len(after) - Len(frames') + 1, Len(after))
     /\ UNCHANGED silent

SpecWithHistory ==
  /\ Init /\ silent = [id \in Ids |-> IdleLimit] /\ after = <<>>
  /\ [][NextWithHistory]_<<vars, silent, after>>

\* session.hpp:128: the sweep closes only sessions that have gone quiet: the
\* call has sent nothing for the idle limit, now or before a frame that waits.
OnlyQuietExpire ==
  [][hot_pc = "top" /\ hot_pc' = "expire_idle"
       => \A i \in due' :
            \/ silent[objects[i].id] >= IdleLimit
            \/ \E n \in DOMAIN frames : /\ frames[n].id = objects[i].id
                                        /\ after[n] >= IdleLimit]_vars
=============================================================================
