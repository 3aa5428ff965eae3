------------------------- MODULE MCCognitiveBreaker -------------------------
EXTENDS CognitiveBreaker
\* A search and its cosmetic edit.
MCPrints == {<<"search", 1>>, <<"search", 2>>}
=============================================================================
