---------------------------- MODULE MCConnection ----------------------------
(* Small instances of Connection for TLC. *)
EXTENDS Connection, TLC

F(ty, len, ok) == [ty |-> ty, len |-> len, ok |-> ok]

\* The longest frame that is allowed and the shortest that is not, empty
\* frames, and values that do not parse.
MCFrames ==
    {F("hello", 1, TRUE), F("hello", 1, FALSE), F("list", 0, TRUE),
     F("attach", 1, TRUE), F("attach", 0, FALSE), F("input", 2, TRUE),
     F("resize", 1, TRUE), F("resize", 1, FALSE), F("close", 0, FALSE),
     F("data", 1, TRUE), F("junk", 0, TRUE), F("input", 3, TRUE)}

=============================================================================
