----------------------------- MODULE MCDocsMedia -----------------------------
(* A small instance of DocsMedia.                                          *)
EXTENDS DocsMedia

BothKinds == {"image", "file"}
\* Appended, in front, in the middle, and behind the end of two children.
SomeIndexes == {-1, 0, 1, 3}
AllOutcomes == {"ok", "failed", "lost", "unreadable"}
=============================================================================
