--------------------------- MODULE MCAsyncClient ---------------------------
(* Constants of the runs of AsyncClient: the byte limits are those of      *)
(* klog/api.async.go, the sizes are chosen around them.                    *)
EXTENDS AsyncClient, TLC

MCLogSize ==
  [tiny  |-> 100,        \* many of these fit
   third |-> 1000000,    \* two of these reach LogGroupSizeToSend
   max   |-> 3000000,    \* as large as a log may be: alone in its group
   huge  |-> 3000001,    \* too large
   utf8  |-> 100,        \* not UTF-8
   keys  |-> 100]        \* too many keys

MCSize == [l \in Log |-> MCLogSize[l]]

Symm == Permutations(Producer)
=============================================================================
