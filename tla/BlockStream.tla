---------------------------- MODULE BlockStream ----------------------------
(***************************************************************************)
(* What the block download promises to the one who asked for it: streams,  *)
(* one at a time.  A stream has the version of its request, hands over     *)
(* consecutive blocks from the one asked for, and says when it is over.    *)
(***************************************************************************)
EXTENDS Naturals

VARIABLES open,   \* whether a stream is open
          ver,    \* its version
          next,   \* the block it hands over next
          told    \* what was handed over last: a version, and a block or the end

streamVars == <<open, ver, next, told>>

StreamInit == open = FALSE /\ ver = 0 /\ next = 0 /\ told = [ver |-> 0, kind |-> "none", num |-> 0]

Open == /\ ~open /\ open' = TRUE
        /\ ver' \in Nat /\ next' \in Nat
        /\ UNCHANGED told

\* The stream has said that it is over.
Over == told.ver = ver /\ told.kind \in {"end", "fail"}

Deliver == /\ open /\ ~Over
           /\ told' = [ver |-> ver, kind |-> "block", num |-> next]
           /\ next' = next + 1
           /\ UNCHANGED <<open, ver>>

\* The end, which is good or bad.
End == /\ open /\ ~Over /\ told' \in [ver : {ver}, kind : {"end", "fail"}, num : {0}]
       /\ UNCHANGED <<open, ver, next>>

\* Nothing is handed over between the end and the next stream.
Close == /\ open /\ Over
         /\ open' = FALSE
         /\ UNCHANGED <<ver, next, told>>

StreamSpec == StreamInit /\ [][Open \/ Deliver \/ End \/ Close]_streamVars
=============================================================================
