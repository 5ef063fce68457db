---------------------------- MODULE MCChunkFetch ----------------------------
(* Small instances of ChunkFetch for TLC. *)
EXTENDS ChunkFetch

\* HTTP servers that honour Range and FTP servers, with a file of its probed
\* size or one that has shrunk since the probe, on either storage.
MCSound == [protocol : {"http", "ftp"}, storage : {"file", "mmap"}, remote : {4, 5},
            ranges : {TRUE}]

\* A server that answers every request with 200 and the whole file.
MCNoRanges == [protocol : {"http"}, storage : {"file"}, remote : {5}, ranges : {FALSE}]

\* File storage, a file that arrives whole.
MCFile == [protocol : {"http"}, storage : {"file"}, remote : {3}, ranges : {TRUE}]
=============================================================================
