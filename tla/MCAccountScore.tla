--------------------------- MODULE MCAccountScore ----------------------------
(* Constants of AccountScore that a .cfg cannot write.                     *)
EXTENDS AccountScore

CONSTANTS Times, Dates, Amounts, MaxSf, MaxLf

SmallSf ==
  {s \in UNION {[1 .. n -> [posted : Times, amount : Amounts]] : n \in 0 .. MaxSf} :
     \A m, n \in DOMAIN s : m < n => s[m].posted >= s[n].posted}
SmallLf ==
  {l \in UNION {[1 .. n -> [date : Dates, amount : Amounts]] : n \in 0 .. MaxLf} :
     \A m, n \in DOMAIN l : m < n => l[m].date >= l[n].date}
=============================================================================
