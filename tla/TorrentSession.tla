--------------------------- MODULE TorrentSession ---------------------------
(***************************************************************************)
(* The BitTorrent side of protocol.go: the session all torrents share,     *)
(* TorrentProber and MagnetProber, TorrentFetcher and MagnetFetcher, the   *)
(* janitor and CleanupProtocols.  The probes run one after the other       *)
(* (PrepareAllTasks), the fetches in parallel, one task per resource.      *)
(*                                                                         *)
(* The torrent library is external.  A torrent object is named by its ID   *)
(* and by where it comes from: "kept" in the session's database by an      *)
(* earlier run, or "added" by this one.  An object that was removed goes   *)
(* on to exist in the hands of those who looked it up before.  Trackers    *)
(* and progress are left out.                                              *)
(***************************************************************************)
EXTENDS Integers

CONSTANTS
    NumResources,     \* the .torrent and magnet URLs there are
    Downloads,        \* sets of them that a run may be asked to download
    Magnets,          \* those that are magnet links
    Ids, IdOf,        \* resource -> torrent ID
    Databases,        \* sets of IDs the database may hold when the program starts
    Expired,          \* the IDs that were added more than 30 days ago, if at all
    Pieces,           \* pieces of a torrent
    PieceSize,        \* bytes of a piece
    LastSize,         \* bytes of the last piece, which may be short
    MaxFetchRetries

Resources == 1 .. NumResources

ASSUME TorrentAssumption ==
    /\ NumResources \in Nat \ {0}
    /\ Magnets \subseteq Resources /\ Downloads \subseteq SUBSET Resources
    /\ IdOf \in [Resources -> Ids]
    /\ Expired \subseteq Ids /\ Databases \subseteq SUBSET Ids
    /\ Pieces \in Nat \ {0} /\ PieceSize \in Nat /\ LastSize \in 1 .. PieceSize
    /\ MaxFetchRetries \in Nat \ {0}

VARIABLES
    session,   \* rainSession: "none", "up", "failed" (still nil after its Once), "closed"
    record,    \* what the session knows for an ID: "none", "kept", "added"
    object,    \* state of each torrent object
    phase,     \* of a resource: "unprobed", "probe", "skipped" (its probe has failed, or the
               \* run is not asked for it), "probed", "fetch", "ok", "error", "crashed" (it
               \* has used a nil session)
    step,      \* where the probe or fetch of the resource is
    handle,    \* the object it has looked up or added: "none", "kept", "added"
    stop,      \* of its torrent while it fetches: "none", "heard" (NotifyStop has something),
               \* "missed" (it stopped before the fetch asked to be notified)
    retries,   \* ChunkTask.Retries
    doomed,    \* IDs the janitor has listed and not removed yet
    ctxDone    \* the context is cancelled

taskVars == <<phase, step, handle, stop, retries>>
vars == <<session, record, object, taskVars, doomed, ctxDone>>

Objects == Ids \X {"kept", "added"}
Obj(r) == <<IdOf[r], handle[r]>>

\* A torrent that has been added, and one as an earlier run may have left it.
\* Only a magnet link adds a torrent without metadata.
New(m, s) == [meta |-> m, have |-> 0, started |-> s, removed |-> FALSE]
Left(i) == [meta : {TRUE}, have : 0 .. Pieces, started : BOOLEAN, removed : {FALSE}]
               \cup {New(FALSE, s) : s \in {b \in BOOLEAN : \E r \in Magnets : IdOf[r] = i}}

Init ==
    /\ session = "none"
    /\ \E kept \in Databases :
         /\ record = [i \in Ids |-> IF i \in kept THEN "kept" ELSE "none"]
         /\ \E left \in [kept -> UNION {Left(i) : i \in kept}] :
              /\ \A i \in kept : left[i] \in Left(i)
              /\ object = [o \in Objects |-> IF o[2] = "kept" /\ o[1] \in kept
                                             THEN left[o[1]] ELSE New(FALSE, FALSE)]
    /\ \E urls \in Downloads :
         phase = [r \in Resources |-> IF r \in urls THEN "unprobed" ELSE "skipped"]
    /\ step = [r \in Resources |-> "none"]
    /\ handle = [r \in Resources |-> "none"]
    /\ stop = [r \in Resources |-> "none"]
    /\ retries = [r \in Resources |-> 0]
    /\ doomed = {}
    /\ ctxDone = FALSE

-----------------------------------------------------------------------------
(* Where a probe or an attempt to fetch goes.                              *)

MoveTo(r, p, s, h) == /\ phase' = [phase EXCEPT ![r] = p]
                      /\ step' = [step EXCEPT ![r] = s]
                      /\ handle' = [handle EXCEPT ![r] = h]
                      /\ stop' = [stop EXCEPT ![r] = "none"]

\* Mutant: a fetch that fails is always retried.
FailIsRetried(r) ==
    /\ MoveTo(r, IF phase[r] = "fetch" THEN "probed" ELSE "skipped", "none", "none")
    /\ retries' = [retries EXCEPT ![r] = IF phase[r] = "fetch" THEN @ + 1 ELSE @]

\* A probe that fails skips its URL; a fetch that fails is retried.
Fail(r) ==
    IF phase[r] = "fetch"
    THEN /\ MoveTo(r, IF retries[r] + 1 < MaxFetchRetries THEN "probed" ELSE "error",
                   "none", "none")
         /\ retries' = [retries EXCEPT ![r] = @ + 1]
    ELSE MoveTo(r, "skipped", "none", "none") /\ UNCHANGED retries

\* PrepareAllTasks has not come to the end of this probe.
ToProbe(r) == phase[r] \in {"unprobed", "probe", "crashed"}

\* The content of a .torrent cannot be read (before the session is asked for
\* by a probe, after that by a fetch).
ContentFails(r) ==
    /\ r \notin Magnets
    /\ \/ phase[r] = "unprobed" /\ \A q \in 1 .. r - 1 : ~ToProbe(q)
       \/ phase[r] = "fetch" /\ step[r] = "lookup"
    /\ Fail(r)
    /\ UNCHANGED <<session, record, object, doomed, ctxDone>>

\* getRainSession.  The Once runs its function for the first caller only: a
\* later one gets a nil session and a nil error when that has failed, and
\* calls a method on it.
BeginProbe(r) ==
    /\ phase[r] = "unprobed"
    /\ \A q \in 1 .. r - 1 : ~ToProbe(q)
    /\ \/ /\ session \in {"none", "up"}
          /\ session' = "up"
          /\ MoveTo(r, "probe", "lookup", "none")
          /\ UNCHANGED retries
       \/ /\ session = "none"
          /\ session' = "failed"
          /\ Fail(r)
       \/ /\ session = "failed"
          /\ MoveTo(r, "crashed", "none", "none")
          /\ UNCHANGED <<session, retries>>
    /\ UNCHANGED <<record, object, doomed, ctxDone>>

\* Download hands the tasks to the workers when all URLs are probed.
BeginFetch(r) ==
    /\ phase[r] = "probed" /\ session # "closed"
    /\ \A q \in Resources : ~ToProbe(q)
    /\ MoveTo(r, "fetch", "lookup", "none")
    /\ UNCHANGED <<session, record, object, retries, doomed, ctxDone>>

-----------------------------------------------------------------------------
(* Finding the torrent: GetTorrent, AddTorrent or AddURI, and GetTorrent   *)
(* again when it was added in between.  Probes and fetches do the same,    *)
(* but a probe adds it stopped.                                            *)

Found(r) == MoveTo(r, phase[r], "found", record[IdOf[r]])

LookUp(r) ==
    /\ step[r] = "lookup"
    /\ IF record[IdOf[r]] # "none" THEN Found(r) ELSE MoveTo(r, phase[r], "add", "none")
    /\ UNCHANGED <<session, record, object, retries, doomed, ctxDone>>

Add(r) ==
    /\ step[r] = "add"
    /\ record[IdOf[r]] = "none"
    /\ record' = [record EXCEPT ![IdOf[r]] = "added"]
    /\ object' = [object EXCEPT ![<<IdOf[r], "added">>] = New(r \notin Magnets, phase[r] = "fetch")]
    /\ MoveTo(r, phase[r], "found", "added")
    /\ UNCHANGED <<session, retries, doomed, ctxDone>>

AddFails(r) ==
    /\ step[r] = "add"
    /\ record[IdOf[r]] = "none"
    /\ Fail(r)
    /\ UNCHANGED <<session, record, object, doomed, ctxDone>>

AlreadyAdded(r) ==
    /\ step[r] = "add"
    /\ record[IdOf[r]] # "none"
    /\ MoveTo(r, phase[r], "again", "none")
    /\ UNCHANGED <<session, record, object, retries, doomed, ctxDone>>

LookUpAgain(r) ==
    /\ step[r] = "again"
    /\ IF record[IdOf[r]] # "none" THEN Found(r) /\ UNCHANGED retries ELSE Fail(r)
    /\ UNCHANGED <<session, record, object, doomed, ctxDone>>

-----------------------------------------------------------------------------
(* The rest of a probe.                                                    *)

MetaKnown(r) == object[Obj(r)].meta

\* Files() of a torrent with metadata; a magnet is waited for.
ProbeOk(r) ==
    /\ phase[r] = "probe" /\ step[r] = "found"
    /\ MetaKnown(r)
    /\ MoveTo(r, "probed", "none", "none")
    /\ UNCHANGED <<session, record, object, retries, doomed, ctxDone>>

\* Mutant: a magnet whose metadata did not come counts as probed.
ProbeTimeoutIsOk(r) ==
    /\ phase[r] = "probe" /\ step[r] = "found"
    /\ r \in Magnets
    /\ MoveTo(r, "probed", "none", "none")
    /\ UNCHANGED <<session, record, object, retries, doomed, ctxDone>>

\* A magnet that is given up: the timeout, or an error of Files().
ProbeTimeout(r) ==
    /\ phase[r] = "probe" /\ step[r] = "found"
    /\ r \in Magnets
    /\ Fail(r)
    /\ UNCHANGED <<session, record, object, doomed, ctxDone>>

\* Files() of a torrent that is gone or has no metadata (kept so by an
\* earlier run).
FilesFail(r) ==
    /\ phase[r] = "probe" /\ step[r] = "found"
    /\ r \notin Magnets
    /\ ~MetaKnown(r) \/ object[Obj(r)].removed
    /\ Fail(r)
    /\ UNCHANGED <<session, record, object, doomed, ctxDone>>

-----------------------------------------------------------------------------
(* The rest of a fetch.                                                    *)

\* Mutant: only a torrent that the fetch has added is running.
StartAddedOnly(r) ==
    /\ phase[r] = "fetch" /\ step[r] = "found"
    /\ r \in Magnets => MetaKnown(r)
    /\ MoveTo(r, "fetch", "started", handle[r])
    /\ UNCHANGED <<session, record, object, retries, doomed, ctxDone>>

\* A magnet waits for metadata, without a timeout; then t.Start().
Start(r) ==
    /\ phase[r] = "fetch" /\ step[r] = "found"
    /\ r \in Magnets => MetaKnown(r)
    /\ object' = [object EXCEPT ![Obj(r)].started = ~object[Obj(r)].removed]
    /\ MoveTo(r, "fetch", "started", handle[r])
    /\ UNCHANGED <<session, record, retries, doomed, ctxDone>>

\* NotifyComplete and NotifyStop: from here on the fetch hears of its torrent.
Listen(r) ==
    /\ step[r] = "started"
    /\ step' = [step EXCEPT ![r] = "loop"]
    /\ UNCHANGED <<session, record, object, phase, handle, stop, retries, doomed, ctxDone>>

\* ChunkTask.Length, which the probe has added up from the files.
Length == (Pieces - 1) * PieceSize + LastSize

\* The bytes of n pieces: the last one is among them or not.
BytesOf(n) == (IF n < Pieces THEN {n * PieceSize} ELSE {})
                  \cup (IF n > 0 THEN {(n - 1) * PieceSize + LastSize} ELSE {})

\* What Stats() may say of a torrent: nothing is known without metadata, or of
\* one that was removed.
NoStats == [completed |-> 0, have |-> 0, total |-> 0]
Stats(o) ==
    {[completed |-> b, have |-> object[o].have, total |-> Pieces] :
        b \in {n \in BytesOf(object[o].have) : object[o].meta}}
    \cup {s \in {NoStats} : object[o].removed \/ ~object[o].meta}

\* Mutant: a torrent of which nothing is known has all its pieces.
PiecesDoneUnguarded(s) == s.have = s.total

\* The two tests of a tick.
BytesDone(s)  == Length > 0 /\ s.completed >= Length
PiecesDone(s) == s.total > 0 /\ s.have = s.total

\* notifyComplete, which the library sends when all pieces are there, or a tick.
FetchOk(r) ==
    /\ step[r] = "loop"
    /\ \/ object[Obj(r)].have = Pieces
       \/ \E s \in Stats(Obj(r)) : BytesDone(s) \/ PiecesDone(s)
    /\ MoveTo(r, "ok", "none", handle[r])
    /\ UNCHANGED <<session, record, object, retries, doomed, ctxDone>>

\* notifyStop, with an error or without.
FetchStopped(r) ==
    /\ step[r] = "loop"
    /\ stop[r] = "heard"
    /\ Fail(r)
    /\ UNCHANGED <<session, record, object, doomed, ctxDone>>

\* ctx.Done() in the waits of a magnet and in the loop of a fetch.
Aborted(r) ==
    /\ ctxDone
    /\ \/ step[r] = "loop"
       \/ step[r] = "found" /\ r \in Magnets
    /\ Fail(r)
    /\ UNCHANGED <<session, record, object, doomed, ctxDone>>

-----------------------------------------------------------------------------
(* The janitor.                                                            *)

\* Mutant: the age is not looked at.
JanitorListsAll ==
    /\ session = "up" /\ doomed = {}
    /\ doomed' = {i \in Ids : record[i] # "none"}
    /\ doomed' # {}
    /\ UNCHANGED <<session, record, object, taskVars, ctxDone>>

\* ListTorrents: at start, and again every 24 hours.
JanitorLists ==
    /\ session = "up" /\ doomed = {}
    /\ doomed' = {i \in Expired : record[i] = "kept"}
    /\ doomed' # {}
    /\ UNCHANGED <<session, record, object, taskVars, ctxDone>>

\* The fetches of a torrent that are at s.
At(o, s) == {r \in Resources : step[r] = s /\ Obj(r) = o}

\* RemoveTorrent(t.ID()).  Whether those who hold the torrent hear of it is up
\* to the library.
JanitorRemoves(i) ==
    /\ session = "up" /\ i \in doomed
    /\ doomed' = doomed \ {i}
    /\ record' = [record EXCEPT ![i] = "none"]
    /\ object' = [object EXCEPT ![<<i, record[i]>>].removed = TRUE,
                                ![<<i, record[i]>>].started = FALSE]
    /\ \E heard \in {{}, At(<<i, record[i]>>, "loop")} :
         stop' = [r \in Resources |-> IF r \in heard THEN "heard" ELSE stop[r]]
    /\ UNCHANGED <<session, phase, step, handle, retries, ctxDone>>

-----------------------------------------------------------------------------
(* The library, the caller, and the end of the program.                    *)

MetadataArrives(o) ==
    /\ session = "up" /\ record[o[1]] = o[2] /\ ~object[o].meta
    /\ object' = [object EXCEPT ![o].meta = TRUE]
    /\ UNCHANGED <<session, record, taskVars, doomed, ctxDone>>

PieceArrives(o) ==
    /\ session = "up" /\ object[o].started /\ object[o].meta
    /\ object[o].have < Pieces
    /\ object' = [object EXCEPT ![o].have = @ + 1]
    /\ UNCHANGED <<session, record, taskVars, doomed, ctxDone>>

\* A running torrent stops by itself, say on a full disk; only those hear of it
\* who have asked.
TorrentStops(o) ==
    /\ session = "up" /\ object[o].started
    /\ object' = [object EXCEPT ![o].started = FALSE]
    /\ stop' = [r \in Resources |-> IF r \in At(o, "loop") THEN "heard"
                                    ELSE IF r \in At(o, "started") THEN "missed" ELSE stop[r]]
    /\ UNCHANGED <<session, record, phase, step, handle, retries, doomed, ctxDone>>

Cancel ==
    /\ ~ctxDone
    /\ ctxDone' = TRUE
    /\ UNCHANGED <<session, record, object, taskVars, doomed>>

Ended(r) == phase[r] \in {"ok", "error", "skipped"}

\* main: Download has returned; after a cancel it may leave tasks in the queues.
CleanupProtocols ==
    /\ \A r \in Resources : Ended(r) \/ (ctxDone /\ phase[r] = "probed")
    /\ session = "up"
    /\ session' = "closed"
    /\ doomed' = {}
    /\ UNCHANGED <<record, object, taskVars, ctxDone>>

Probing(r)  == \/ BeginProbe(r) \/ ProbeOk(r) \/ ProbeTimeout(r) \/ FilesFail(r)
Fetching(r) == \/ BeginFetch(r) \/ Start(r) \/ Listen(r) \/ FetchOk(r) \/ FetchStopped(r)
Finding(r)  == \/ LookUp(r) \/ Add(r) \/ AddFails(r) \/ AlreadyAdded(r) \/ LookUpAgain(r)
Task(r) == Probing(r) \/ Finding(r) \/ Fetching(r) \/ ContentFails(r) \/ Aborted(r)

Next ==
    \/ \E r \in Resources : Task(r)
    \/ JanitorLists
    \/ \E i \in Ids : JanitorRemoves(i)
    \/ \E o \in Objects : MetadataArrives(o) \/ PieceArrives(o) \/ TorrentStops(o)
    \/ Cancel
    \/ CleanupProtocols

Spec == Init /\ [][Next]_vars

\* The program goes on, and a torrent that runs gets its pieces sooner or later.
FairSpec ==
    /\ Spec
    /\ \A r \in Resources : WF_vars(Task(r))
    /\ \A o \in Objects : WF_vars(PieceArrives(o))

-----------------------------------------------------------------------------
(* Correctness properties.                                                 *)

\* The types of all variables.
TypeOK ==
    /\ session \in {"none", "up", "failed", "closed"}
    /\ record \in [Ids -> {"none", "kept", "added"}]
    /\ object \in [Objects -> [meta : BOOLEAN, have : 0 .. Pieces,
                               started : BOOLEAN, removed : BOOLEAN]]
    /\ phase \in [Resources -> {"unprobed", "probe", "skipped", "probed",
                                "fetch", "ok", "error", "crashed"}]
    /\ step \in [Resources -> {"none", "lookup", "add", "again", "found", "started", "loop"}]
    /\ handle \in [Resources -> {"none", "kept", "added"}]
    /\ stop \in [Resources -> {"none", "heard", "missed"}]
    /\ retries \in [Resources -> 0 .. MaxFetchRetries]
    /\ doomed \subseteq Ids
    /\ ctxDone \in BOOLEAN

\* A fetch reported complete had all pieces of the torrent it looked up: neither
\* the bytes nor the pieces that Stats() counts mislead it, also when the last
\* piece is short or the janitor removes the torrent under the fetch, so that
\* Stats() says nothing of it (protocol.go 234-275, 891-932).
OkHasAllPieces == \A r \in Resources : phase[r] = "ok" => object[Obj(r)].have = Pieces

\* The janitor lists torrents by age and removes them by ID later; it never
\* removes a torrent that this run has added under the same ID ("cleans up
\* download records older than 30 days", protocol.go 408-441).
AddedIsSpared == \A i \in Ids : ~object[<<i, "added">>].removed

\* The wait of MagnetFetcher for metadata has no timeout; it is entered without
\* metadata only when the janitor has removed the torrent that was probed
\* (protocol.go 790-824, 871-875).
NoWaitForMetadata ==
    \A r \in Magnets :
        phase[r] = "fetch" /\ step[r] = "found" /\ ~MetaKnown(r)
            => object[<<IdOf[r], "kept">>].removed

\* A probe that getRainSession gives no error has a session ("failed to create
\* rain session", protocol.go 749-752).
SessionOrError == \A r \in Resources : phase[r] # "crashed"

\* All probes and fetches whose torrent the janitor leaves alone end, or the
\* program does, when a running torrent gets its pieces: what a probe added
\* stopped is started by the fetch, and stops use up the retries.  The one
\* exception is a torrent that stops after t.Start() and before the fetch asks
\* NotifyStop: the fetch does not hear of it and may wait for ever
\* (protocol.go 129-132, 220-276).
EveryTorrentEnds ==
    <>(\/ session = "closed" \/ ~SessionOrError
       \/ \A r \in Resources :
              Ended(r) \/ stop[r] = "missed" \/ object[<<IdOf[r], "kept">>].removed)
=============================================================================
