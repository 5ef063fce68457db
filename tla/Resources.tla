----------------------------- MODULE Resources ------------------------------
(***************************************************************************)
(* What the program decides from the text of a URL and from the answers of *)
(* a server before any task exists: which prober and which fetcher it      *)
(* takes, the name of the file, the files of a Hugging Face model, the     *)
(* size that is probed.  Pure operators, used by Preparation and Program.  *)
(***************************************************************************)
EXTENDS Integers, FiniteSets

\* A resource is what the code looks at in its text: the scheme in front of
\* it, whether url.Parse accepts it, the ending of its path (.mpd counts as
\* m3u8), whether .m3u8 or .mpd occurs anywhere in it, the last path segment
\* without the ending (of a magnet link its dn), whether it is a Hugging Face
\* model ("broken": of the form, but without owner/model) and the target
\* wanted of it; and the size of the file behind it, 0 if no server tells.
Resource == [scheme : {"http", "ftp", "magnet"}, parses : BOOLEAN,
             ext : {"bin", "gguf", "onnx", "onnx_data", "torrent", "m3u8"},
             mentions : BOOLEAN, stem : STRING, hf : {"no", "broken", "model"},
             target : {"", "all", "text"}, size : Nat]

-----------------------------------------------------------------------------
(* Protocol dispatch.                                                      *)

isTorrentResource(u) == u.ext = "torrent"

isVideoStreamResource(u) == u.mentions \/ u.ext = "m3u8"

\* The tests of PrepareTasks, which are not those of GetProber.
IsBitTorrent(u) == u.scheme = "magnet" \/ isTorrentResource(u)
NeedsStorage(u) == ~IsBitTorrent(u) /\ ~isVideoStreamResource(u)

\* The switch at the end of GetProber and of GetFetcher; url.Parse lowers the scheme.
ByScheme(u) == IF u.parses /\ u.scheme \in {"ftp", "magnet"} THEN u.scheme ELSE "http"

GetProber(u) == IF isTorrentResource(u) THEN "torrent"
                ELSE IF isVideoStreamResource(u) THEN "ffmpeg"
                ELSE ByScheme(u)

GetFetcher(u) == IF isTorrentResource(u) THEN "torrent"
                 ELSE IF isVideoStreamResource(u) THEN "ffmpeg"
                 ELSE ByScheme(u)

\* The key of DispatchFetcher's table of fetchers.
SchemeKey(u) == IF u.parses THEN u.scheme ELSE "http"

\* Mutant: the table of fetchers is asked first, whatever the resource is.
DispatchByTable(table, u) ==
    IF table[SchemeKey(u)] # "none" THEN table[SchemeKey(u)] ELSE GetFetcher(u)

\* The fetcher DispatchFetcher uses: torrents and videos get a new one, the
\* others the one stored for their scheme.
Dispatch(table, u) ==
    IF isTorrentResource(u) THEN "torrent"
    ELSE IF isVideoStreamResource(u) THEN "ffmpeg"
    ELSE IF table[SchemeKey(u)] # "none" THEN table[SchemeKey(u)]
    ELSE GetFetcher(u)

\* parseFileName: directories are dropped, .torrent is cut off, a playlist
\* becomes an .mp4.
parseFileName(u) == <<u.stem, IF u.scheme = "magnet" \/ u.ext = "torrent" THEN ""
                              ELSE IF u.ext = "m3u8" THEN "mp4" ELSE u.ext>>

-----------------------------------------------------------------------------
(* Hugging Face.  A file of a repository carries the strongest way in      *)
(* which its path answers to a text target: it is the path, it has the     *)
(* target as last segment, lies in the directory, has it as a tag between  *)
(* separators, or contains it.                                             *)

Relations == {"path", "base", "dir", "tag", "sub", "none"}
HFFileItem == [type : {"file", "directory"}, stem : STRING,
               ext : {"bin", "gguf", "onnx", "onnx_data"}, rel : Relations, size : Nat]

Plain(repo)        == {f \in repo : f.type = "file"}
WithExt(repo, e)   == {f \in Plain(repo) : f.ext = e}
Answering(repo, r) == {f \in Plain(repo) : f.rel = r}

DefaultONNX(repo) == {f \in WithExt(repo, "onnx") : f.stem = "model"}
ONNXData(repo)    == {f \in WithExt(repo, "onnx_data") : f.stem = "model"}

NoTargetMatch(repo) ==
    IF WithExt(repo, "gguf") # {} THEN WithExt(repo, "gguf")
    ELSE IF DefaultONNX(repo) # {} THEN DefaultONNX(repo) \cup ONNXData(repo)
    ELSE IF WithExt(repo, "onnx") # {} THEN WithExt(repo, "onnx")
    ELSE Plain(repo)

\* The first relation with an answer decides; path and base take the first
\* file in the order of the listing, which may be any, the others take all.
TextMatches(repo) ==
    IF Answering(repo, "path") # {} THEN {{f} : f \in Answering(repo, "path")}
    ELSE IF Answering(repo, "base") # {} THEN {{f} : f \in Answering(repo, "base")}
    ELSE IF Answering(repo, "dir") # {} THEN {Answering(repo, "dir")}
    ELSE IF Answering(repo, "tag") # {} THEN {Answering(repo, "tag")}
    ELSE {Answering(repo, "sub")}

\* The selections matchHFFiles can return for a repository.
matchHFFiles(repo, target) ==
    CASE target = "all"  -> {Plain(repo)}
      [] target = ""     -> {NoTargetMatch(repo)}
      [] target = "text" -> TextMatches(repo)

\* endpoint/repo/resolve/revision/path
ResolvedURL(f) == [scheme |-> "http", parses |-> TRUE, ext |-> f.ext, mentions |-> FALSE,
                   stem |-> f.stem, hf |-> "no", target |-> "", size |-> f.size]

-----------------------------------------------------------------------------
(* Probes: the size they return, or ProbeError.                            *)

ProbeError == -1

\* What an HTTP server makes of the three requests of HttpProber: HEAD of the
\* first byte, HEAD, GET.  "total": 206 with the total in Content-Range;
\* "star": 206 with an unknown total there; "length", "bare": 200 with and
\* without Content-Length; "missing": 404; "other": any other status (206
\* without Content-Range is one to the first request); "failed": no response.
HttpAnswer == [ranged : {"total", "star", "other", "failed"},
               head   : {"length", "bare", "other", "failed"},
               get    : {"length", "bare", "missing", "other", "failed"}]

HttpProbe(a, size) ==
    CASE a.ranged = "total" -> size
      [] a.ranged = "star"  -> 0
      [] OTHER -> CASE a.head = "length" -> size
                    [] a.head = "bare"   -> 0
                    [] OTHER -> CASE a.get = "length" -> size
                                  [] a.get \in {"bare", "other"} -> 0
                                  [] a.get \in {"missing", "failed"} -> ProbeError

\* A URL that does not parse makes no request, nor does a cancelled context; a
\* server that does not know the size of the file tells none.
HttpProbes(u, cancelled) ==
    IF ~u.parses \/ cancelled THEN {ProbeError}
    ELSE {HttpProbe(a, u.size) : a \in HttpAnswer}

\* SIZE, then the entry of the directory listing; no connection, no login or
\* neither of the two is an error.
FtpProbes(u) == {ProbeError, u.size}

\* No ffmpeg, or a status of 400 or more to HEAD and to GET; a request that
\* fails counts for nothing, and the size is dynamic.
FfmpegProbes == {ProbeError, 0}

\* TorrentSession.tla is the inside of these two.
TorrentProbes(u) == {ProbeError, u.size}

Probes(u, cancelled) ==
    CASE GetProber(u) = "http"   -> HttpProbes(u, cancelled)
      [] GetProber(u) = "ftp"    -> FtpProbes(u)
      [] GetProber(u) = "ffmpeg" -> FfmpegProbes
      [] GetProber(u) \in {"torrent", "magnet"} -> TorrentProbes(u)
=============================================================================
