-------------------------------- MODULE MCSLA --------------------------------
(***************************************************************************)
(* TLC instance of SLA: one id with two possible terms, of windows two and *)
(* three, one pair, and three validators: two of them leave together for   *)
(* the third, and return.                                                  *)
(***************************************************************************)
EXTENDS SLA

CONSTANTS v1, v2, v3

MCTerms ==
    {[maximumViableWindow |-> 3, minimumBlockUpdates |-> 2, frequency |-> 2,
      expectedUptime |-> 60],
     [maximumViableWindow |-> 2, minimumBlockUpdates |-> 1, frequency |-> 1,
      expectedUptime |-> 100]}

MCValidatorSets == {{v1, v2}, {v3}}
=============================================================================
