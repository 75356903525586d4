-------------------------- MODULE MCAnalyticsView --------------------------
(* Model-checking instance of AnalyticsView: four fetches are enough for  *)
(* two of them to be in flight at once and to settle in either order,    *)
(* after a failure, and after a third tab change.                        *)
EXTENDS AnalyticsView

MCMaxFetches == 4

=============================================================================
