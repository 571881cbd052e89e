---------------------------- MODULE MCModelCalls ----------------------------
EXTENDS ModelCalls, TLC

\* A PUT, a POST, a POST with an idempotency key and a PUT that must not be
\* repeated; with and without a fallback.
MCKinds == [method   : {"safe", "unsafe"},
            declared : {"none", "yes", "no"},
            fallback : BOOLEAN]
=============================================================================
