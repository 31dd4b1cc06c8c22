----------------------------- MODULE MCTransfers -----------------------------
(* Small instances of Transfers: two commands side by side.                *)
EXTENDS Transfers

CONSTANTS p1, p2

TwoProcs == {p1, p2}
Pair(a, b) == [p \in TwoProcs |-> IF p = p1 THEN a ELSE b]

\* Commands that write the same names, and one of each other kind.
AllMixes == {
  Pair("docs_export", "im_download"), Pair("sheets_export", "drive_media"),
  Pair("images", "images"), Pair("sheet_images", "drive_download"),
  Pair("upgrade", "upgrade"), Pair("drive_import", "docs_export")}

AllOutcomes == {"ok", "failed", "lost"}
AllFaults == {"kill", "disk"}
=============================================================================
