---------------------------- MODULE MCKaHyParCLI ----------------------------
(* Command lines with and without each mandatory option, with a legal and *)
(* an illegal value of each enumerated option, and with the -1 sentinels. *)
EXTENDS KaHyParCLI

MCCommandLines ==
  [hgr : {Absent, "graph.hgr"}, k : {Absent, 3}, e : {Absent, Frac(1, 10)},
   seed : {Absent, 7}, part : {Absent, "PaToH", "bogus"},
   partpath : {Absent, "path"}, cmaxnet : {Absent, -1, 50},
   ctype : {Absent, "hyperedge", "bogus"}, s : {Absent, Frac(5, 2)},
   t : {Absent, 20}, stopFM : {Absent, "adaptive1", "bogus"},
   FMreps : {Absent, -1}, alpha : {Absent, -1},
   rtype : {Absent, "twoway_fm", "bogus"}, help : BOOLEAN]

(* Complete command lines whose --k is 1 or 3.                             *)
MCCommandLinesK ==
  [hgr : {"graph.hgr"}, k : {1, 3}, e : {Frac(1, 10)}, seed : {Absent},
   part : {Absent}, partpath : {Absent}, cmaxnet : {Absent}, ctype : {Absent},
   s : {Absent}, t : {Absent}, stopFM : {Absent}, FMreps : {Absent},
   alpha : {Absent}, rtype : {Absent}, help : {FALSE}]
=============================================================================
