---------------------------- MODULE MCConfigFile ----------------------------
(* An instance of ConfigFile: connection strings with the id first, last,   *)
(* twice, empty, behind other text of its field, and without an id; and ids *)
(* at the limits of the access point's buffer: the longest that fits, the   *)
(* first that overruns it, the longest that is copied whole, the first that *)
(* is cut.                                                                  *)
EXTENDS ConfigFile

Id(n) == [i \in 1..n |-> IF i = 1 THEN "a" ELSE "b"]
Long(n) == <<"a", "semicolon", "key">> \o Id(n)

Strings == LET id == "key" t == "a" sep == "semicolon" IN
  {<<>>, <<t>>, <<id, t>>, <<id, t, sep, "b", t>>, <<t, sep, id, t, "b">>,
   <<t, id, sep, id, t>>, <<id, sep, id, t>>, <<t, sep, t, sep, id, t, sep>>}
  \cup {Long(16), Long(17), Long(19), Long(20)}
=============================================================================
