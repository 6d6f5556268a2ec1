-------------------------------- MODULE MCBody --------------------------------
(***************************************************************************)
(* An instance of Body for TLC.  The server may stop anywhere, so each     *)
(* text stands for all its prefixes.                                       *)
(***************************************************************************)
EXTENDS Body

D(n) == F!DataLine(n)
E(n) == F!EventLine(n)
Nl == F!LF
CrNl == <<F!CR, F!LF>>
Half == <<F!BOM[1], F!BOM[2]>>

MCTexts == {
    \* two events with LF ends, the first of two data lines
    <<E(1), Nl, D(1), Nl, D(2), Nl, Nl, D(3), Nl, Nl>>,
    \* the same with CR LF
    <<D(1)>> \o CrNl \o CrNl \o <<E(1)>> \o CrNl \o CrNl,
    \* a mark, a keep-alive between two events, an event named twice
    F!BOM \o <<D(1), Nl, Nl, F!Comment, Nl, Nl, D(2)>>,
    F!BOM \o <<E(1), Nl, E(2), Nl, D(1), Nl>>,
    \* half a mark; a mark in mid-stream; blank lines in excess
    Half \o <<D(1), Nl, Nl, D(2), Nl>>,
    <<D(1), Nl, Nl>> \o F!BOM \o <<D(2), Nl, Nl>>,
    <<Nl, Nl, Nl, D(1), Nl, Nl, Nl, D(2)>>,
    CrNl \o CrNl \o <<D(1)>> \o CrNl \o CrNl }
==============================================================================
