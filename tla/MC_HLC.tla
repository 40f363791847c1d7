------------------------------- MODULE MC_HLC -------------------------------
EXTENDS HLC, TLC

CONSTANTS t1, t2

MCThreads1 == {t1}
MCThreads2 == {t1, t2}

\* Remote timestamps behind, equal to and ahead of the local clock range.
MCRemotes == {<<0, 1>>, <<1, 0>>, <<2, 1>>}

\* A remote whose logical part is u64::MAX (LogicalMax = 3 in the overflow run).
MCRemotesMax == {<<1, 3>>}
=============================================================================
