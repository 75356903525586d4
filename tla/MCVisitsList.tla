---------------------------- MODULE MCVisitsList ----------------------------
EXTENDS VisitsList

MCStatuses == {"", "pendente", "realizada"}

MCMaxFetches == 4
=============================================================================
