------------------------ MODULE MCWatchedAcquisition ------------------------
(* Constants for model checking WatchedAcquisition. *)
EXTENDS WatchedAcquisition

\* A line of its own with a record, whose last symbol is its end; all else is noise.  -1
\* is NoFraction.
Record(symbols, fraction) ==
  [i \in DOMAIN symbols |->
     [symbol |-> symbols[i], ends |-> i = Len(symbols),
      fraction |-> IF i = Len(symbols) THEN fraction ELSE -1]]
  \o <<[symbol |-> "CR", ends |-> FALSE, fraction |-> -1]>>

MCLines ==
  {Record(<<"prog", "ress", "5", ",", "5", "%">>, 55),
   Record(<<"prog", "ress", "9", "%">>, 90),
   Record(<<"lead", "cont", "prog", "ress", ":", "(", ")">>, -1)}
=============================================================================
