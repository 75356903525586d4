-------------------------- MODULE MCBrokerRanking ---------------------------
EXTENDS BrokerRanking

\* No broker had visits in the last 7 days.
MCEmptyPeriods == {"7d"}

MCMaxFetches == 4
=============================================================================
