-------------------------- MODULE MCReconciliation --------------------------
EXTENDS Reconciliation

\* One model is on the rate card; one name is a longer form of its name.
MCModels == {"opus", "opus-fast", "preview"}
MCVariants == {{"opus", "opus-fast"}}
MCPrice == [m \in {"opus"} |-> 2]
=============================================================================
