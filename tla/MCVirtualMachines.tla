-------------------------- MODULE MCVirtualMachines --------------------------
EXTENDS VirtualMachines, TLC

MCChanges == {[settings |-> TRUE,  iso |-> "attach"], [settings |-> FALSE, iso |-> "detach"]}

\* The creates are interchangeable.
Symmetric == Permutations(Creates)

=============================================================================
