------------------------------- MODULE WebApp -------------------------------
(* A tab of the examples' web apps: it follows the reference application's  *)
(* orders or one of its processes, or another example's projection.         *)
EXTENDS OrdersProjection, SystemStatus, ProjectionPages

tabVars == <<projectionVars, statusVars, pagesVars>>

WebInit == InitProjection /\ InitStatus /\ InitPages /\ "none" \in {view, page}

WebNext ==
  \/ view = "none" /\ page = "none" /\ ProjectionNext /\ UNCHANGED <<statusVars, pagesVars>>
  \/ view # "none" /\ StatusNext /\ UNCHANGED <<projectionVars, pagesVars>>
  \/ page # "none" /\ PagesNext /\ UNCHANGED <<projectionVars, statusVars>>

WebSpec == WebInit /\ [][WebNext]_tabVars /\ ProjectionFairness /\ StatusFairness /\ PagesFairness

-----------------------------------------------------------------------------
(* Once what a page follows stands still, the page shows it, whatever       *)
(* answers and frames overtook each other on the way: the status pages and  *)
(* the projection pages that guard against it (use-poll.ts, travel-booking  *)
(* and ddd-order-management).                                               *)
EveryPageSettles == PageSettles /\ PagesSettle
=============================================================================
