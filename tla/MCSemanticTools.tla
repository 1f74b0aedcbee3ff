--------------------------- MODULE MCSemanticTools ---------------------------
EXTENDS SemanticTools

AllTools == SearchToolNames \cup PlaceToolNames \cup DirectionsToolNames

=============================================================================
