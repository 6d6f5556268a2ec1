------------------------------ MODULE MCResponse ------------------------------
(***************************************************************************)
(* Instances of Response for TLC.  The dates lie on both sides of the      *)
(* clock, in leap years and common ones, of either kind of century, in and *)
(* out of reach of a u32, and on days their month may not have.            *)
(***************************************************************************)
EXTENDS Response

Two == [d \in Dialects |-> 2]

Dates ==
    [type : {"date"}, year : {1969, 1970, 1999, 2000, 2024, 2025, 2100, 2160, 2170, 9999}, month : {1, 2, 3, 12},
     day : {0, 1, 28, 29, 31, 32}, hour : {0, 23}, min : {59}, sec : {0, 60}]

MCHeaders ==
    Dates \cup [type : {"none", "garbage"}] \cup [type : {"seconds"}, seconds : {0, 120}]

\* Noon of 4 October 2024.
MCNow == <<20000, 43200>>
==============================================================================
