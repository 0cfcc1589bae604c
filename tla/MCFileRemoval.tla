----------------------------- MODULE MCFileRemoval -----------------------------
(* An instance of FileRemoval for TLC: two episodes and a file above them, and     *)
(* beside them a folder of somebody else.                                          *)
EXTENDS FileRemoval, TLC

CONSTANTS e1, e2, cover, notes, show, season, extras, root, rootSeparator, outside

TorrentFiles == {e1, e2, cover}
OtherFiles   == {notes}
AllFolders   == {show, season, extras}

ParentOf == (e1 :> season) @@ (e2 :> season) @@ (cover :> show) @@ (notes :> season)
              @@ (season :> show) @@ (show :> root) @@ (extras :> show) @@ (root :> outside)

AboveOf == (e1 :> {season, show}) @@ (e2 :> {season, show}) @@ (cover :> {show})
             @@ (notes :> {season, show}) @@ (season :> {show}) @@ (show :> {})
             @@ (extras :> {show})
=============================================================================
