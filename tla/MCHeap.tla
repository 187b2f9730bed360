------------------------------- MODULE MCHeap -------------------------------
\* Instances of Heap for TLC: three pairs of equal priorities.
EXTENDS Heap

MCEntries  == 0..5
MCPriority == [e \in MCEntries |-> e \div 2]
=============================================================================
