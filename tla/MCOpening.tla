---------------------------- MODULE MCOpening ----------------------------
(* A small instance of Opening for TLC. *)
EXTENDS Opening

\* Holds and their settlement; spends and their refunds; the tree; the breakers.
MCWorkloads ==
    {[kinds |-> {"HOLD", "HOLD_VOID"}, length |-> 6, snapshots |-> 1,
      signings |-> {"none"}],
     [kinds |-> {"SPEND", "REVERSAL"}, length |-> 5, snapshots |-> 2,
      signings |-> {"none"}],
     [kinds |-> {"ALLOCATION", "RELEASE", "FUNDING"}, length |-> 5, snapshots |-> 1,
      signings |-> {"none"}],
     [kinds |-> {"TRIPPED", "RESET"}, length |-> 5, snapshots |-> 1,
      signings |-> {"none", "required"}]}

=============================================================================
