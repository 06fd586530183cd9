------------------------- MODULE FeatureValidation -------------------------
(***************************************************************************)
(* validation.py: a row of a prediction request against the schema         *)
(* contract of a model's manifest.  A row maps the columns it has to       *)
(* values, of which validate_features tells three kinds apart; a contract  *)
(* lists the columns of the model and those of them that may be null.      *)
(***************************************************************************)
EXTENDS Naturals, Sequences

CONSTANT Columns        \* the columns a row or a contract may name

\* "null": None or a NaN; "huge": an integer that no float can hold; "plain":
\* any other value.
Values == {"plain", "null", "huge"}

Rows == UNION {[names -> Values] : names \in SUBSET Columns}

\* No columns: an empty contract (a legacy artifact), or one without a list of
\* feature columns.  The nullable columns need not be feature columns.
Contracts == [columns : SUBSET Columns, nullable : SUBSET Columns]

Missing(row, contract) == contract.columns \ DOMAIN row

\* Only a strict check minds columns the contract does not name.
Unexpected(row, contract, strict) ==
    IF strict THEN DOMAIN row \ contract.columns ELSE {}

Checked(row, contract) == DOMAIN row \cap contract.columns

NullRequired(row, contract) ==
    {c \in Checked(row, contract) : row[c] = "null" /\ c \notin contract.nullable}

\* math.isnan raises OverflowError, which _is_null does not catch: it is asked
\* of every checked column before any verdict is given, nullable ones included.
Overflows(row, contract) == \E c \in Checked(row, contract) : row[c] = "huge"

\* What validate_features does: it returns, or raises one of two exceptions.
Verdict(row, contract, strict) ==
    CASE contract.columns = {} -> "accepted"
      [] contract.columns # {} /\ Overflows(row, contract) -> "OverflowError"
      [] OTHER ->
           IF /\ Missing(row, contract) = {}
              /\ Unexpected(row, contract, strict) = {}
              /\ NullRequired(row, contract) = {}
             THEN "accepted" ELSE "SchemaValidationError"

-----------------------------------------------------------------------------
\* What a model may rely on: every column it was trained on is there, and none
\* of those that must have a value is null.
Fits(row, contract) ==
    \A c \in contract.columns :
        c \in DOMAIN row /\ (row[c] = "null" => c \in contract.nullable)
=============================================================================
