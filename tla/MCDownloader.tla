---------------------------- MODULE MCDownloader ----------------------------
(* Small instances of Downloader for TLC. *)
EXTENDS Downloader, TLC

CONSTANTS w1, w2, w3

\* Three tasks of two URLs; the second URL is a magnet link, whose host is
\* the empty string.
MCHosts  == {"", "a"}
MCNoHost == ""
MCHostOf == <<"a", "", "a", "">>
MCHostOfN == [t \in Tasks |-> MCHostOf[t]]

MCTwo   == {w1, w2}
MCThree == {w1, w2, w3}
MCOne   == {w1}

\* Workers that are spawned by Download may be exchanged, and so may the
\* names the tuner can use.
MCSymmetry == Permutations(InitialWorkers) \cup Permutations(Workers \ InitialWorkers)
=============================================================================
