---------------------------- MODULE MCPredictions ----------------------------
\* Predictions on a small instance: a version whose model takes one column and
\* one whose model takes two, the second of which may be null.  A row has at most
\* one column missing, null or huge.
EXTENDS Predictions, FiniteSets

CONSTANTS v1, v2, c1, c2, w1

MCContractOf ==
    [v \in Versions |-> IF v = v1 THEN [columns |-> {c1}, nullable |-> {}]
                                  ELSE [columns |-> {c1, c2}, nullable |-> {c2}]]

MCSentRows ==
    {row \in Rows : Cardinality({c \in Columns : c \notin DOMAIN row \/ row[c] # "plain"}) <= 1}
=============================================================================
