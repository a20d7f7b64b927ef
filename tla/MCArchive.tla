----------------------------- MODULE MCArchive -----------------------------
(***************************************************************************)
(* Archive with two paths and three contents: an empty file, a file of one *)
(* piece and a file of two.  The pieces differ, so that data that ends up  *)
(* in the wrong record is noticed.                                         *)
(***************************************************************************)
EXTENDS Archive

MCContents == {<<>>, <<Data("a")>>, <<Data("b"), Data("c")>>}
=============================================================================
