----------------------------- MODULE MCFailover -----------------------------
EXTENDS Failover

\* Past a promotion that is not on record NoSplitBrain claims nothing more.
WhileRecorded == ~unrecorded
=============================================================================
