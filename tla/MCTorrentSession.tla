-------------------------- MODULE MCTorrentSession --------------------------
(* A small instance of TorrentSession for TLC. *)
EXTENDS TorrentSession

\* Two magnet links of one torrent, and a .torrent of another; a run downloads
\* two of the three.  An earlier run may have left either torrent in the
\* database, a long time ago.
MCMagnets == {1, 2}
MCDownloads == {{1, 2}, {1, 3}}
MCIds     == {"a", "b"}
MCIdOf    == <<"a", "a", "b">>
MCDatabases == SUBSET MCIds
=============================================================================
