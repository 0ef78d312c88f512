------------------------------ MODULE MCI8259 ------------------------------
(* Instances of I8259 for TLC: four lines per controller and the words the  *)
(* guest writes.                                                            *)
EXTENDS I8259

\* m_ELCRMask as the program leaves it (I8259::Reset is never called).
MCEdgeOnly == [p \in Pics |-> {}]

\* ICW4 words: the reset modes, automatic end of interrupt, every mode.
MCPlainMode   == {[SFNM |-> FALSE, AutoEOI |-> FALSE]}
MCAutoEOIMode == [SFNM : {FALSE}, AutoEOI : BOOLEAN]
MCAllModes    == [SFNM : BOOLEAN, AutoEOI : BOOLEAN]

\* OCW3 words: none, polling and the special mask.
MCNoWords   == {}
MCModeWords   ==
  [poll : {TRUE}, select : {"keep"}, specialMask : {"keep"}]
    \cup [poll : {FALSE}, select : {"keep"}, specialMask : {"set", "clear"}]
=============================================================================
