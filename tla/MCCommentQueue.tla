-------------------------- MODULE MCCommentQueue --------------------------
(* An instance of CommentQueue for TLC: two comments, alone or as an       *)
(* album, or one comment with up to two edits.                             *)
EXTENDS CommentQueue
AloneOrPair == {{}, {1, 2}}
TwoOrEdited == {<<1, 0>>, <<2, 0>>, <<1, 1>>, <<1, 2>>}
===========================================================================
