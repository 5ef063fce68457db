----------------------------- MODULE MCProgram ------------------------------
(* A small instance of Program for TLC. *)
EXTENDS Program

URL(scheme, ext, stem, size) ==
    [scheme |-> scheme, parses |-> TRUE, ext |-> ext, mentions |-> FALSE, stem |-> stem,
     hf |-> "no", target |-> "", size |-> size]

\* Three chunks, two, and one.
File     == URL("http", "bin", "a", 5)
Unsized  == URL("http", "bin", "b", 0)
FtpFile  == URL("ftp", "bin", "c", 4)
Short(u) == [u EXCEPT !.size = 2]
Playlist == URL("http", "m3u8", "d", 0)
Torrent  == URL("http", "torrent", "e", 3)
Magnet   == [URL("magnet", "bin", "f", 3) EXCEPT !.mentions = FALSE]
Stream   == [URL("magnet", "bin", "g", 0) EXCEPT !.mentions = TRUE]
BadLink  == [URL("magnet", "bin", "h", 0) EXCEPT !.parses = FALSE]
BadModel == [URL("http", "bin", "i", 0) EXCEPT !.hf = "broken"]
Model(t) == [URL("http", "bin", "j", 0) EXCEPT !.hf = "model", !.target = t]

MCArgLists ==
    {<<File>>, <<FtpFile, Torrent>>, <<Short(File), Playlist>>, <<Short(FtpFile), Stream>>,
     <<Unsized, Torrent, Magnet>>, <<BadLink, BadModel>>}
    \cup {<<Unsized, Model(t)>> : t \in {"", "all", "text"}}

Entry(type, stem, ext, rel) ==
    [type |-> type, stem |-> stem, ext |-> ext, rel |-> rel, size |-> 1]

MCRepos ==
    {{},
     {Entry("file", "m", "gguf", "tag"), Entry("file", "model", "onnx", "sub")},
     {Entry("file", "model", "onnx", "dir"), Entry("file", "model", "onnx_data", "none"),
      Entry("directory", "m", "bin", "path")},
     {Entry("file", "m", "onnx", "base"), Entry("file", "m", "bin", "path")}}
=============================================================================
