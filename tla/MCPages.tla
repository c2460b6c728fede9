------------------------------ MODULE MCPages ------------------------------
(***************************************************************************)
(* The two ends of paging, side by side: the walk over a listing's pages   *)
(* at the server, and the timeline the client puts together from pages.  A *)
(* behaviour is one or the other; scene says which, and the other stands   *)
(* still.                                                                  *)
(*                                                                         *)
(* The walk: four rows of at most three times, two of them in one          *)
(* millisecond, so that ties in time meet the boundaries of pages of two.  *)
(***************************************************************************)
EXTENDS KeysetPage, MCHistoryPanel

VARIABLE scene     \* "walk" or "timeline"

Ids == 1..4

MCInit ==
    /\ WalkInit /\ HistoryInit
    /\ \/ scene = "walk" /\ setting = Calm
       \/ /\ scene = "timeline"
          /\ direction = "ASC" /\ \A r \in Id : createdAt[r] = 0

MCNext ==
    /\ UNCHANGED scene
    /\ \/ scene = "walk" /\ WalkNext /\ UNCHANGED historyVars
       \/ scene = "timeline" /\ HistoryNext /\ UNCHANGED walkVars

MCSpec == MCInit /\ [][MCNext]_<<walkVars, historyVars, scene>>
=============================================================================
