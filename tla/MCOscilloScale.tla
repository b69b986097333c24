---------------------------- MODULE MCOscilloScale ----------------------------
(* Readings at both ends of each range, in the middle, and unknown; and with *)
(* a counter that slipped, where the highest frequency is known and where it *)
(* is not.                                                                   *)
EXTENDS OscilloScale

MCSamples ==
  [cpu : {0, 8000, CpuFull}, freq : {0, 1200}, mem : {0, 500}]
    \cup [cpu : {-40000}, freq : {0, -100001}, mem : {500}]
===============================================================================
