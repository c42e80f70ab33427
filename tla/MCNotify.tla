------------------------------ MODULE MCNotify ------------------------------
EXTENDS Notify

\* One note of each kind.
MCJoined == {CHOOSE n \in Notes : TRUE}
=============================================================================
