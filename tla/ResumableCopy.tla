--------------------------- MODULE ResumableCopy ---------------------------
(***************************************************************************)
(* What a history clone promises, whatever its order, its paging and its   *)
(* interruptions: there is a window of the source channel that counts as   *)
(* done, and it never takes in a message that has not been dealt with.     *)
(***************************************************************************)
CONSTANT Items        \* the messages the clone has to deal with

VARIABLES
  copied,             \* the items dealt with: sent, filtered or given up
  window              \* the items a later run will not look at again

Init == copied = {} /\ window = {}

Copy == /\ \E s \in SUBSET Items : copied' = copied \cup s
        /\ UNCHANGED window

\* The window may also shrink: what it gives up is only looked at again.
Mark == /\ window' \in SUBSET copied
        /\ UNCHANGED copied

Next == Copy \/ Mark

Spec == Init /\ [][Next]_<<copied, window>>
=============================================================================
