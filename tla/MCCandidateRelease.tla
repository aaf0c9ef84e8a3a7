------------------------- MODULE MCCandidateRelease -------------------------
EXTENDS CandidateRelease

CONSTANTS c1, c2, high, low

\* Both candidates are for one role.
MCTargetRole == [c \in Candidates |-> CHOOSE r \in ProfileRoles : TRUE]
MCFitness == [o \in Others |-> IF o = high THEN "high" ELSE IF o = low THEN "low" ELSE "middle"]
=============================================================================
