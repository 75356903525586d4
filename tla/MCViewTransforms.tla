------------------------- MODULE MCViewTransforms ---------------------------
EXTENDS ViewTransforms

\* slice(0, 10) scaled down so that responses longer than the cut occur.
MCTopN == 2

\* Up to 3, so that conversion rates of 1/3 and 2/3 need rounding.
MCCounts == 0..3

MCDays == {1, 2}

MCTimes == {1, 2}

MCMaxItems == 4

\* Two configured stages and one the labels do not know.
MCStages == {"landing_leads", "contacted", "etapa_extra"}
\* Brasília time, UTC-3, where the dashboard's users are.
MCUtcOffset == -180

=============================================================================
