---------------------------- MODULE MC_Terminals ----------------------------
EXTENDS Terminals

\* Retain is the filter it stands for, on queues of up to four entries.
ASSUME RetainFilters ==
  \A n \in 0 .. 4 : \A s \in [1 .. n -> 1 .. 3] :
    Retain(s, 1) = SelectSeq(s, LAMBDA u : u # 1)
=============================================================================
