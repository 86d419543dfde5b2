-------------------------- MODULE MCHistoryClone --------------------------
(* Instances of HistoryClone for TLC: message 1 is the "channel created"   *)
(* service message, 2 and 3 are an album that a page may split, and 5, the *)
(* last one, is a pinned-message notice.                                   *)
EXTENDS HistoryClone
OneAlbum   == {{2, 3}}
Notices    == {1, 5}
Both       == {"old", "new"}
AllScopes  == {[min |-> 0, max |-> 0, count |-> 0], [min |-> 2, max |-> 3, count |-> 0],
               [min |-> 0, max |-> 0, count |-> 2]}
===========================================================================
