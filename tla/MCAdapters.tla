----------------------------- MODULE MCAdapters -----------------------------
\* One call of each kind by itself, two callback runs of one handler, and two
\* runs of one crew.
EXTENDS Adapters

First == CHOOSE c \in Calls : TRUE

MixesOnce ==
    {[c \in Calls |-> IF c = First THEN k ELSE "unused"] : k \in AllKinds \ {"callback", "crew"}}
      \cup {[c \in Calls |-> k] : k \in {"callback", "crew"}}
=============================================================================
