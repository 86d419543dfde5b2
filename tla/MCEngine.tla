------------------------------ MODULE MCEngine ------------------------------
(* An instance of Engine for TLC: a small instance of each of its parts.   *)
EXTENDS Engine

OneAlbum  == {{2, 3}}
SomeLimit == {1}
MsgNone   == {}

\* Publishing: an album of two, and a message that replies to it in the thread
\* of a message that is not in the feed.
OneAlbumAndReply == << {1, 2}, {3} >>
ThirdToSecond == [m \in 1..3 |-> IF m = 3 THEN <<2, 1>> ELSE <<>>]

============================================================================
