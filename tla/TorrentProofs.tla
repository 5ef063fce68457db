---------------------------- MODULE TorrentProofs ----------------------------
(***************************************************************************)
(* Proofs about TorrentSession, for any resources, IDs, database and       *)
(* number of retries.                                                      *)
(***************************************************************************)
EXTENDS TorrentSession, TLAPS

Torrent == [meta : BOOLEAN, have : 0 .. Pieces, started : BOOLEAN, removed : BOOLEAN]

Phases  == {"unprobed", "probe", "skipped", "probed", "fetch", "ok", "error", "crashed"}
Steps   == {"none", "lookup", "add", "again", "found", "started", "loop"}
Stops   == {"none", "heard", "missed"}
Handles == {"none", "kept", "added"}

\* What the janitor has listed is in the session, and not from this run.
DoomedKept == \A i \in doomed : record[i] = "kept"

\* What is known of a resource: if it holds a torrent of this run, it is the
\* one in the session; past the search, and at a good end, it holds one, at a
\* good end one with all pieces; it has attempts left unless it was given up.
Fine(r) ==
    /\ handle[r] = "added" => record[IdOf[r]] = "added"
    /\ step[r] \in {"found", "started", "loop"} \/ phase[r] = "ok" => handle[r] # "none"
    /\ phase[r] = "ok" => object[Obj(r)].have = Pieces
    /\ phase[r] # "error" => retries[r] < MaxFetchRetries
    /\ step[r] # "none" => phase[r] \in {"probe", "fetch"}

IInv == TypeOK /\ DoomedKept /\ AddedIsSpared /\ \A r \in Resources : Fine(r)

-----------------------------------------------------------------------------
\* Torrents as they are at the beginning and when they are added.
LEMMA NewType ==
    /\ \A m, s \in BOOLEAN : New(m, s) \in Torrent /\ ~New(m, s).removed
    /\ \A i : \A x \in Left(i) : x \in Torrent /\ ~x.removed
  <1>1. \A m, s \in BOOLEAN : New(m, s) \in Torrent /\ ~New(m, s).removed
    <2>1. 0 \in 0 .. Pieces
      BY TorrentAssumption
    <2> QED BY <2>1, Zenon DEF New, Torrent
  <1>2. ASSUME NEW i, NEW x \in Left(i) PROVE x \in Torrent /\ ~x.removed
    <2>1. CASE x \in [meta : {TRUE}, have : 0 .. Pieces, started : BOOLEAN, removed : {FALSE}]
      BY <2>1, Zenon DEF Torrent
    <2>2. CASE x \in {New(FALSE, s) : s \in {b \in BOOLEAN : \E r \in Magnets : IdOf[r] = i}}
      <3>1. PICK s \in BOOLEAN : x = New(FALSE, s)
        BY <2>2
      <3> QED BY <3>1, <1>1
    <2> QED BY <2>1, <2>2 DEF Left
  <1> QED BY <1>1, <1>2

\* A torrent after a change to one of its fields.
LEMMA TorrentFields ==
    ASSUME NEW x \in Torrent
    PROVE  /\ \A b \in BOOLEAN : [x EXCEPT !.meta = b] \in Torrent
           /\ \A b \in BOOLEAN : [x EXCEPT !.started = b] \in Torrent
           /\ [x EXCEPT !.removed = TRUE, !.started = FALSE] \in Torrent
           /\ x.have < Pieces => [x EXCEPT !.have = @ + 1] \in Torrent
  <1>1. \A b \in BOOLEAN : [x EXCEPT !.meta = b] \in Torrent
    BY Zenon DEF Torrent
  <1>2. \A b \in BOOLEAN : [x EXCEPT !.started = b] \in Torrent
    BY Zenon DEF Torrent
  <1>3. [x EXCEPT !.removed = TRUE, !.started = FALSE] \in Torrent
    BY Zenon DEF Torrent
  <1>4. x.have < Pieces => x.have + 1 \in 0 .. Pieces
    BY TorrentAssumption DEF Torrent
  <1>5. x.have < Pieces => [x EXCEPT !.have = @ + 1] \in Torrent
    BY <1>4, Zenon DEF Torrent
  <1> QED BY <1>1, <1>2, <1>3, <1>5

\* The object of a resource that holds one.
LEMMA ObjFacts ==
    ASSUME TypeOK, NEW r \in Resources, handle[r] # "none"
    PROVE  Obj(r) \in Objects /\ object[Obj(r)] \in Torrent
  BY TorrentAssumption DEF TypeOK, Obj, Objects, Torrent

\* The invariant holds initially.
LEMMA InitIInv == Init => IInv
  <1> SUFFICES ASSUME Init PROVE IInv
    OBVIOUS
  <1> USE TorrentAssumption
  <1>0. PICK kept \in Databases :
          /\ record = [i \in Ids |-> IF i \in kept THEN "kept" ELSE "none"]
          /\ \E left \in [kept -> UNION {Left(i) : i \in kept}] :
               /\ \A i \in kept : left[i] \in Left(i)
               /\ object = [o \in Objects |-> IF o[2] = "kept" /\ o[1] \in kept
                                              THEN left[o[1]] ELSE New(FALSE, FALSE)]
    BY Zenon DEF Init
  <1>1. PICK left \in [kept -> UNION {Left(i) : i \in kept}] :
          /\ \A i \in kept : left[i] \in Left(i)
          /\ object = [o \in Objects |-> IF o[2] = "kept" /\ o[1] \in kept
                                         THEN left[o[1]] ELSE New(FALSE, FALSE)]
    BY <1>0
  <1>2. \A o \in Objects : object[o] \in Torrent /\ ~object[o].removed
    <2> TAKE o \in Objects
    <2>2. CASE o[2] = "kept" /\ o[1] \in kept
      <3>1. object[o] = left[o[1]] /\ left[o[1]] \in Left(o[1])
        BY <1>1, <2>2
      <3> QED BY <3>1, NewType
    <2>3. CASE ~(o[2] = "kept" /\ o[1] \in kept)
      <3>1. object[o] = New(FALSE, FALSE)
        BY <1>1, <2>3
      <3> QED BY <3>1, NewType
    <2> QED BY <2>2, <2>3
  <1>3. object \in [Objects -> Torrent]
    BY <1>1, <1>2
  <1>4. TypeOK
    <2>1. retries \in [Resources -> 0 .. MaxFetchRetries]
      BY DEF Init
    <2>2. stop \in [Resources -> Stops] /\ ctxDone \in BOOLEAN
      BY DEF Init, Stops
    <2>3. /\ session \in {"none", "up", "failed", "closed"}
          /\ record \in [Ids -> {"none", "kept", "added"}]
          /\ phase \in [Resources -> Phases]
          /\ step \in [Resources -> Steps]
          /\ handle \in [Resources -> Handles]
          /\ doomed \subseteq Ids
      BY <1>0 DEF Init, Phases, Steps, Stops, Handles
    <2> QED BY <1>3, <2>1, <2>2, <2>3 DEF TypeOK, Torrent, Phases, Steps, Stops, Handles
  <1>5. AddedIsSpared
    BY <1>2 DEF AddedIsSpared, Objects
  <1>6. DoomedKept /\ \A r \in Resources : Fine(r)
    BY DEF Init, DoomedKept, Fine
  <1> QED BY <1>4, <1>5, <1>6 DEF IInv

-----------------------------------------------------------------------------
(* Steps of a task.                                                        *)

\* Where MoveTo leaves the tasks.
LEMMA MoveToFacts ==
    ASSUME TypeOK, NEW r \in Resources,
           NEW p \in Phases, NEW s \in Steps, NEW h \in Handles, MoveTo(r, p, s, h)
    PROVE  /\ phase' \in [Resources -> Phases] /\ step' \in [Resources -> Steps]
           /\ handle' \in [Resources -> Handles] /\ stop' \in [Resources -> Stops]
           /\ phase'[r] = p /\ step'[r] = s /\ handle'[r] = h
           /\ \A q \in Resources \ {r} : /\ phase'[q] = phase[q]
                                          /\ step'[q] = step[q]
                                          /\ handle'[q] = handle[q]
  <1>1. stop' \in [Resources -> Stops]
    BY DEF MoveTo, TypeOK, Stops
  <1> QED BY <1>1 DEF MoveTo, TypeOK, Phases, Steps, Stops, Handles

\* Where Fail leaves the tasks.
LEMMA FailFacts ==
    ASSUME TypeOK, NEW r \in Resources, Fine(r), phase[r] \notin {"ok", "error"}, Fail(r)
    PROVE  /\ phase' \in [Resources -> Phases] /\ step' \in [Resources -> Steps]
           /\ handle' \in [Resources -> Handles] /\ stop' \in [Resources -> Stops]
           /\ retries' \in [Resources -> 0 .. MaxFetchRetries]
           /\ phase'[r] # "ok" /\ step'[r] = "none" /\ handle'[r] = "none"
           /\ phase'[r] # "error" => retries'[r] < MaxFetchRetries
           /\ \A q \in Resources \ {r} : /\ phase'[q] = phase[q]
                                          /\ step'[q] = step[q]
                                          /\ handle'[q] = handle[q]
                                          /\ retries'[q] = retries[q]
  <1> DEFINE p == IF phase[r] = "fetch"
                  THEN IF retries[r] + 1 < MaxFetchRetries THEN "probed" ELSE "error"
                  ELSE "skipped"
  <1>1. MoveTo(r, p, "none", "none")
    BY DEF Fail
  <1>2. p \in Phases /\ p # "ok" /\ "none" \in Steps /\ "none" \in Handles
    BY DEF Phases, Steps, Stops, Handles
  <1> HIDE DEF p
  <1>3. /\ retries' \in [Resources -> 0 .. MaxFetchRetries]
        /\ p # "error" => retries'[r] < MaxFetchRetries
        /\ \A q \in Resources \ {r} : retries'[q] = retries[q]
    BY TorrentAssumption DEF Fail, TypeOK, Fine, p
  <1> QED BY <1>1, <1>2, <1>3, MoveToFacts

\* A step that moves one task and leaves the torrents alone.
LEMMA TaskStep ==
    ASSUME TypeOK, \A q \in Resources : Fine(q),
           UNCHANGED <<record, object>>,
           NEW r \in Resources, Fine(r)',
           \A q \in Resources \ {r} : /\ phase'[q] = phase[q]
                                       /\ step'[q] = step[q]
                                       /\ handle'[q] = handle[q]
                                       /\ retries'[q] = retries[q]
    PROVE  \A q \in Resources : Fine(q)'
  BY DEF Fine, Obj

SessionType == {"none", "up", "failed", "closed"}

\* What a move of one task to a new place needs to keep the invariant.
LEMMA MoveStep ==
    ASSUME IInv, UNCHANGED <<record, object, retries, doomed, ctxDone>>,
           session' \in SessionType,
           NEW r \in Resources, phase[r] # "error",
           NEW p \in Phases, NEW s \in Steps, NEW h \in Handles, MoveTo(r, p, s, h),
           h = "added" => record[IdOf[r]] = "added",
           s \in {"found", "started", "loop"} \/ p = "ok" => h # "none",
           p = "ok" => h = handle[r] /\ object[Obj(r)].have = Pieces,
           s # "none" => p \in {"probe", "fetch"}
    PROVE  IInv'
  <1>1. /\ phase' \in [Resources -> Phases] /\ step' \in [Resources -> Steps]
        /\ handle' \in [Resources -> Handles] /\ stop' \in [Resources -> Stops]
        /\ phase'[r] = p /\ step'[r] = s /\ handle'[r] = h
        /\ \A q \in Resources \ {r} : /\ phase'[q] = phase[q]
                                       /\ step'[q] = step[q]
                                       /\ handle'[q] = handle[q]
    BY MoveToFacts DEF IInv
  <1>2. TypeOK'
    <2>1. ctxDone' \in BOOLEAN
      BY Zenon DEF IInv, TypeOK
    <2>2. object' = object /\ record' = record /\ retries' = retries /\ doomed' = doomed
      OBVIOUS
    <2> QED BY <1>1, <2>1, <2>2 DEF IInv, TypeOK, Phases, Steps, Stops, Handles, SessionType
  <1>3. Fine(r)'
    <2>1. p = "ok" => Obj(r)' = Obj(r)
      BY <1>1 DEF Obj
    <2> QED BY <1>1, <2>1 DEF IInv, Fine
  <1>4. \A q \in Resources : Fine(q)'
    BY <1>1, <1>3, TaskStep DEF IInv
  <1> QED BY <1>2, <1>4 DEF IInv, DoomedKept, AddedIsSpared

\* A task that fails keeps the invariant.
LEMMA FailStep ==
    ASSUME IInv, UNCHANGED <<record, object, doomed, ctxDone>>,
           session' \in SessionType,
           NEW r \in Resources, phase[r] \notin {"ok", "error"}, Fail(r)
    PROVE  IInv'
  <1>1. /\ phase' \in [Resources -> Phases] /\ step' \in [Resources -> Steps]
        /\ handle' \in [Resources -> Handles] /\ stop' \in [Resources -> Stops]
        /\ retries' \in [Resources -> 0 .. MaxFetchRetries]
        /\ phase'[r] # "ok" /\ step'[r] = "none" /\ handle'[r] = "none"
        /\ phase'[r] # "error" => retries'[r] < MaxFetchRetries
        /\ \A q \in Resources \ {r} : /\ phase'[q] = phase[q]
                                       /\ step'[q] = step[q]
                                       /\ handle'[q] = handle[q]
                                       /\ retries'[q] = retries[q]
    BY FailFacts DEF IInv
  <1>2. TypeOK'
    <2>1. ctxDone' \in BOOLEAN
      BY Zenon DEF IInv, TypeOK
    <2>2. object' = object /\ record' = record /\ doomed' = doomed
      OBVIOUS
    <2> QED BY <1>1, <2>1, <2>2 DEF IInv, TypeOK, Phases, Steps, Stops, Handles, SessionType
  <1>3. Fine(r)'
    BY <1>1 DEF Fine
  <1>4. \A q \in Resources : Fine(q)'
    BY <1>1, <1>3, TaskStep DEF IInv
  <1> QED BY <1>2, <1>4 DEF IInv, DoomedKept, AddedIsSpared

-----------------------------------------------------------------------------
(* The tests of a tick.                                                    *)

\* Some pieces of a torrent, but not all, have fewer bytes than all of them.
LEMMA BytesBelow ==
    ASSUME NEW n \in 0 .. Pieces, n # Pieces, NEW b \in BytesOf(n)
    PROVE  b < Length
  <1> USE TorrentAssumption
  <1> DEFINE m == Pieces - 1 - n
  <1>1. n \in Nat /\ m \in Nat /\ PieceSize \in Nat /\ LastSize \in Nat
        /\ 1 <= LastSize /\ LastSize <= PieceSize
    OBVIOUS
  <1>2. Length = n * PieceSize + m * PieceSize + LastSize
    BY <1>1 DEF Length
  <1>3. m * PieceSize \in Nat /\ n * PieceSize \in Nat
    BY <1>1
  <1>4. (n - 1) * PieceSize + PieceSize = n * PieceSize /\ (n - 1) * PieceSize \in Int
    BY <1>1
  <1>5. b = n * PieceSize \/ b = (n - 1) * PieceSize + LastSize
    BY DEF BytesOf
  <1> HIDE DEF m
  <1> QED BY <1>1, <1>2, <1>3, <1>4, <1>5

\* What Stats() says passes a test of the tick only if the torrent has all its
\* pieces.
LEMMA DoneHasAll ==
    ASSUME NEW o, object[o] \in Torrent, NEW s \in Stats(o), BytesDone(s) \/ PiecesDone(s)
    PROVE  object[o].have = Pieces
  <1>0. Length \in Int
    BY TorrentAssumption DEF Length
  <1>1. CASE s = NoStats
    BY <1>0, <1>1 DEF NoStats, BytesDone, PiecesDone
  <1>2. CASE s # NoStats
    <2>1. PICK b \in BytesOf(object[o].have) :
            s = [completed |-> b, have |-> object[o].have, total |-> Pieces]
      BY <1>2 DEF Stats
    <2>2. object[o].have \in 0 .. Pieces /\ s.completed = b /\ s.have = object[o].have
          /\ s.total = Pieces
      BY <2>1 DEF Torrent
    <2>3. CASE PiecesDone(s)
      BY <2>2, <2>3 DEF PiecesDone
    <2>4. CASE BytesDone(s)
      <3> SUFFICES ASSUME object[o].have # Pieces PROVE FALSE
        OBVIOUS
      <3>1. b < Length
        BY <2>2, BytesBelow
      <3>2. b \in Int
        BY <2>1, <2>2, TorrentAssumption DEF BytesOf
      <3> QED BY <1>0, <2>2, <2>4, <3>1, <3>2 DEF BytesDone
    <2> QED BY <2>3, <2>4
  <1> QED BY <1>1, <1>2

-----------------------------------------------------------------------------
(* Steps of a torrent.                                                     *)

\* A change to one torrent that loses no complete torrent and removes none.
LEMMA ObjectStep ==
    ASSUME IInv,
           UNCHANGED <<session, record, phase, step, handle, retries, doomed, ctxDone>>,
           stop' \in [Resources -> Stops],
           NEW o \in Objects, NEW x \in Torrent, object' = [object EXCEPT ![o] = x],
           object[o].have = Pieces => x.have = Pieces,
           x.removed => object[o].removed
    PROVE  IInv'
  <1>1. object \in [Objects -> Torrent]
    BY DEF IInv, TypeOK, Torrent
  <1>2. object' \in [Objects -> Torrent]
    BY <1>1
  <1>3. \A u \in Objects : /\ object[u].have = Pieces => object'[u].have = Pieces
                           /\ object'[u].removed => object[u].removed
    BY <1>1
  <1>4. TypeOK'
    <2>1. ctxDone' \in BOOLEAN
      BY Zenon DEF IInv, TypeOK
    <2> QED BY <1>2, <2>1 DEF IInv, TypeOK, Torrent, Stops
  <1>5. AddedIsSpared'
    BY <1>3 DEF IInv, AddedIsSpared, Objects
  <1>6. \A q \in Resources : Fine(q)'
    <2> TAKE q \in Resources
    <2>1. Obj(q)' = Obj(q)
      BY DEF Obj
    <2>2. phase[q] = "ok" => Obj(q) \in Objects
      BY ObjFacts DEF IInv, Fine
    <2> QED BY <1>3, <2>1, <2>2 DEF IInv, Fine
  <1> QED BY <1>4, <1>5, <1>6 DEF IInv, DoomedKept

\* Adding a torrent: nobody held one of this run under its ID before.
LEMMA AddStep ==
    ASSUME IInv, NEW r \in Resources, Add(r)
    PROVE  IInv'
  <1> DEFINE o == <<IdOf[r], "added">>
  <1> DEFINE x == New(r \notin Magnets, phase[r] = "fetch")
  <1>1. IdOf[r] \in Ids /\ o \in Objects
    BY TorrentAssumption DEF Objects
  <1>2. x \in Torrent /\ ~x.removed
    BY NewType
  <1>3. /\ object' = [object EXCEPT ![o] = x]
        /\ record' = [record EXCEPT ![IdOf[r]] = "added"]
        /\ record[IdOf[r]] = "none" /\ step[r] = "add"
        /\ MoveTo(r, phase[r], "found", "added")
        /\ UNCHANGED <<session, retries, doomed, ctxDone>>
    BY DEF Add
  <1> HIDE DEF x
  <1>4. phase[r] \in {"probe", "fetch"} /\ retries[r] < MaxFetchRetries
    BY <1>3 DEF IInv, Fine
  <1>5. /\ phase' \in [Resources -> Phases] /\ step' \in [Resources -> Steps]
        /\ handle' \in [Resources -> Handles] /\ stop' \in [Resources -> Stops]
        /\ phase'[r] = phase[r] /\ step'[r] = "found" /\ handle'[r] = "added"
        /\ \A q \in Resources \ {r} : /\ phase'[q] = phase[q]
                                       /\ step'[q] = step[q]
                                       /\ handle'[q] = handle[q]
    <2>1. phase[r] \in Phases /\ "found" \in Steps /\ "added" \in Handles
      BY <1>4 DEF Phases, Steps, Stops, Handles
    <2>2. TypeOK
      BY DEF IInv
    <2> QED BY <1>3, <2>1, <2>2, MoveToFacts
  <1>6. /\ object \in [Objects -> Torrent] /\ record \in [Ids -> {"none", "kept", "added"}]
    BY DEF IInv, TypeOK, Torrent
  <1>7. TypeOK'
    <2>1. ctxDone' \in BOOLEAN
      BY <1>3, Zenon DEF IInv, TypeOK
    <2>2. object' \in [Objects -> Torrent]
      BY <1>2, <1>3, <1>6
    <2>3. record' \in [Ids -> {"none", "kept", "added"}]
      BY <1>3, <1>6
    <2>4. /\ session' \in {"none", "up", "failed", "closed"} /\ doomed' \subseteq Ids
          /\ retries' \in [Resources -> 0 .. MaxFetchRetries]
      BY <1>3 DEF IInv, TypeOK
    <2> QED BY <1>5, <2>1, <2>2, <2>3, <2>4 DEF TypeOK, Torrent, Phases, Steps, Stops, Handles
  <1>8. AddedIsSpared'
    BY <1>2, <1>3, <1>6 DEF IInv, AddedIsSpared, Objects
  <1>9. DoomedKept'
    BY <1>3, <1>6 DEF IInv, DoomedKept, TypeOK
  <1>10. ASSUME NEW q \in Resources \ {r} PROVE Fine(q)'
    <2>1. IdOf[q] \in Ids
      BY TorrentAssumption
    <2>2. Obj(q)' = Obj(q)
      BY <1>5 DEF Obj
    <2>3. phase[q] = "ok" => Obj(q) \in Objects /\ Obj(q) # o
      <3>1. phase[q] = "ok" => Obj(q) \in Objects
        BY ObjFacts DEF IInv, Fine
      <3>2. handle[q] = "added" => IdOf[q] # IdOf[r]
        BY <1>3 DEF IInv, Fine
      <3> QED BY <3>1, <3>2 DEF Obj
    <2>4. phase'[q] = "ok" => object'[Obj(q)'].have = Pieces
      BY <1>3, <1>5, <1>6, <2>2, <2>3 DEF IInv, Fine
    <2> QED BY <1>3, <1>5, <1>6, <2>1, <2>4 DEF IInv, Fine
  <1>11. Fine(r)'
    BY <1>1, <1>3, <1>4, <1>5, <1>6 DEF Fine
  <1> QED BY <1>7, <1>8, <1>9, <1>10, <1>11 DEF IInv

\* Starting a torrent: a step of the task and of its torrent.
LEMMA StartStep ==
    ASSUME IInv, NEW r \in Resources, Start(r)
    PROVE  IInv'
  <1> DEFINE o == Obj(r)
  <1> DEFINE x == [object[o] EXCEPT !.started = ~object[o].removed]
  <1>1. /\ object' = [object EXCEPT ![o] = x]
        /\ MoveTo(r, "fetch", "started", handle[r])
        /\ phase[r] = "fetch" /\ step[r] = "found"
        /\ UNCHANGED <<session, record, retries, doomed, ctxDone>>
    BY DEF Start
  <1>2. TypeOK /\ handle[r] # "none" /\ handle[r] \in Handles /\ retries[r] < MaxFetchRetries
    BY <1>1 DEF IInv, Fine, TypeOK, Handles
  <1>3. o \in Objects /\ object[o] \in Torrent
    BY <1>2, ObjFacts
  <1>4. x \in Torrent /\ x.have = object[o].have /\ x.removed = object[o].removed
    <2>1. (~object[o].removed) \in BOOLEAN
      BY Zenon
    <2>2. x \in Torrent
      BY <1>3, <2>1, TorrentFields, Zenon
    <2> QED BY <1>3, <2>2 DEF Torrent
  <1> HIDE DEF x, o
  <1>5. /\ phase' \in [Resources -> Phases] /\ step' \in [Resources -> Steps]
        /\ handle' \in [Resources -> Handles] /\ stop' \in [Resources -> Stops]
        /\ phase'[r] = "fetch" /\ step'[r] = "started" /\ handle'[r] = handle[r]
        /\ \A q \in Resources \ {r} : /\ phase'[q] = phase[q]
                                       /\ step'[q] = step[q]
                                       /\ handle'[q] = handle[q]
    <2>1. "fetch" \in Phases /\ "started" \in Steps
      BY DEF Phases, Steps
    <2> QED BY <1>1, <1>2, <2>1, MoveToFacts
  <1>6. object \in [Objects -> Torrent]
    BY DEF IInv, TypeOK, Torrent
  <1>7. /\ object' \in [Objects -> Torrent]
        /\ \A u \in Objects : /\ object'[u].have = object[u].have
                              /\ object'[u].removed = object[u].removed
    BY <1>1, <1>3, <1>4, <1>6
  <1>8. TypeOK'
    <2>1. ctxDone' \in BOOLEAN
      BY <1>1, Zenon DEF IInv, TypeOK
    <2> QED BY <1>1, <1>5, <1>7, <2>1 DEF IInv, TypeOK, Torrent, Phases, Steps, Stops, Handles
  <1>9. AddedIsSpared' /\ DoomedKept'
    BY <1>1, <1>7 DEF IInv, AddedIsSpared, DoomedKept, Objects
  <1>10. \A q \in Resources : Fine(q)'
    <2> TAKE q \in Resources
    <2>1. Obj(q)' = Obj(q)
      BY <1>5 DEF Obj
    <2>2. phase[q] = "ok" => Obj(q) \in Objects
      BY ObjFacts DEF IInv, Fine
    <2>3. CASE q = r
      BY <1>1, <1>2, <1>5, <2>3 DEF IInv, Fine
    <2>4. CASE q # r
      BY <1>1, <1>5, <1>7, <2>1, <2>2, <2>4 DEF IInv, Fine
    <2> QED BY <2>3, <2>4
  <1> QED BY <1>8, <1>9, <1>10 DEF IInv

\* Asking to be notified moves the task and nothing else.
LEMMA ListenStep ==
    ASSUME IInv, NEW r \in Resources, Listen(r)
    PROVE  IInv'
  <1>1. /\ step[r] = "started" /\ step' = [step EXCEPT ![r] = "loop"]
        /\ UNCHANGED <<session, record, object, phase, handle, stop, retries, doomed, ctxDone>>
    BY DEF Listen
  <1>2. TypeOK'
    <2>1. ctxDone' \in BOOLEAN
      BY <1>1, Zenon DEF IInv, TypeOK
    <2>2. step' \in [Resources -> Steps]
      BY <1>1 DEF IInv, TypeOK, Steps
    <2> QED BY <1>1, <2>1, <2>2 DEF IInv, TypeOK, Steps
  <1>3. \A q \in Resources : Fine(q)'
    <2> TAKE q \in Resources
    <2>1. Obj(q)' = Obj(q)
      BY <1>1 DEF Obj
    <2>2. step'[q] = step[q] \/ (step[q] = "started" /\ step'[q] = "loop")
      BY <1>1 DEF IInv, TypeOK
    <2> QED BY <1>1, <2>1, <2>2 DEF IInv, Fine
  <1> QED BY <1>1, <1>2, <1>3 DEF IInv, DoomedKept, AddedIsSpared

\* The janitor removes what it has listed, which is not of this run.
LEMMA RemoveStep ==
    ASSUME IInv, NEW i \in Ids, JanitorRemoves(i)
    PROVE  IInv'
  <1> DEFINE o == <<i, "kept">>
  <1> DEFINE x == [object[o] EXCEPT !.removed = TRUE, !.started = FALSE]
  <1>1. /\ record[i] = "kept" /\ o \in Objects
    BY DEF JanitorRemoves, IInv, DoomedKept, Objects
  <1>2. object \in [Objects -> Torrent]
    BY DEF IInv, TypeOK, Torrent
  <1>3. x \in Torrent /\ x.have = object[o].have
    <2>1. x \in Torrent
      BY <1>1, <1>2, TorrentFields
    <2> QED BY <1>1, <1>2 DEF Torrent
  <1>4. object' = [object EXCEPT ![o] = x]
    BY <1>1, <1>2 DEF JanitorRemoves
  <1>5. /\ record' = [record EXCEPT ![i] = "none"]
        /\ doomed' = doomed \ {i}
        /\ UNCHANGED <<session, phase, step, handle, retries, ctxDone>>
    BY DEF JanitorRemoves
  <1> HIDE DEF x
  <1>6. stop' \in [Resources -> Stops]
    <2>1. PICK heard : stop' = [r \in Resources |-> IF r \in heard THEN "heard" ELSE stop[r]]
      BY DEF JanitorRemoves
    <2> QED BY <2>1 DEF IInv, TypeOK, Stops
  <1>7. TypeOK'
    <2>1. ctxDone' \in BOOLEAN
      BY <1>5, Zenon DEF IInv, TypeOK
    <2>2. object' \in [Objects -> Torrent]
      BY <1>1, <1>2, <1>3, <1>4
    <2> QED BY <1>5, <1>6, <2>1, <2>2 DEF IInv, TypeOK, Torrent, Stops
  <1>8. AddedIsSpared'
    BY <1>2, <1>4 DEF IInv, AddedIsSpared, Objects
  <1>9. DoomedKept'
    BY <1>5 DEF IInv, DoomedKept, TypeOK
  <1>10. \A q \in Resources : Fine(q)'
    <2> TAKE q \in Resources
    <2>1. Obj(q)' = Obj(q) /\ IdOf[q] \in Ids
      BY <1>5, TorrentAssumption DEF Obj
    <2>2. phase[q] = "ok" => Obj(q) \in Objects
      BY ObjFacts DEF IInv, Fine
    <2>3. handle[q] = "added" => record'[IdOf[q]] = "added"
      BY <1>1, <1>5, <2>1 DEF IInv, Fine, TypeOK
    <2>4. phase[q] = "ok" => object'[Obj(q)].have = Pieces
      BY <1>2, <1>3, <1>4, <2>2 DEF IInv, Fine
    <2> QED BY <1>5, <2>1, <2>3, <2>4 DEF IInv, Fine
  <1> QED BY <1>7, <1>8, <1>9, <1>10 DEF IInv

-----------------------------------------------------------------------------
(* All steps.                                                              *)

\* Every step of a task keeps the invariant.
LEMMA TaskKeeps ==
    ASSUME IInv, NEW r \in Resources, Task(r)
    PROVE  IInv'
  <1>1. /\ TypeOK /\ Fine(r) /\ IdOf[r] \in Ids
        /\ session \in SessionType /\ record[IdOf[r]] \in Handles
        /\ phase[r] \in Phases /\ handle[r] \in Handles
    BY TorrentAssumption DEF IInv, TypeOK, SessionType, Phases, Handles
  <1>2. {"none", "lookup", "add", "again", "found", "started", "loop"} = Steps
    BY DEF Steps
  <1>3. {"none", "added"} \subseteq Handles
    BY DEF Handles
  <1>4. {"probe", "probed", "fetch", "ok", "crashed"} \subseteq Phases
    BY DEF Phases
  <1>5. step[r] # "none" => phase[r] \in {"probe", "fetch"}
    BY <1>1 DEF Fine
  <1>6. CASE BeginProbe(r)
    <2>1. CASE session' = "up" /\ MoveTo(r, "probe", "lookup", "none") /\ UNCHANGED retries
      BY <1>2, <1>3, <1>4, <1>6, <2>1, MoveStep DEF BeginProbe, SessionType
    <2>2. CASE session' = "failed" /\ Fail(r)
      BY <1>6, <2>2, FailStep DEF BeginProbe, SessionType
    <2>3. CASE MoveTo(r, "crashed", "none", "none") /\ UNCHANGED <<session, retries>>
      BY <1>1, <1>2, <1>3, <1>4, <1>6, <2>3, MoveStep DEF BeginProbe
    <2> QED BY <1>6, <2>1, <2>2, <2>3 DEF BeginProbe
  <1>7. CASE ProbeOk(r)
    BY <1>1, <1>2, <1>3, <1>4, <1>7, MoveStep DEF ProbeOk
  <1>8. CASE LookUp(r)
    <2>1. CASE record[IdOf[r]] # "none"
      BY <1>1, <1>2, <1>5, <1>8, <2>1, MoveStep DEF LookUp, Found
    <2>2. CASE record[IdOf[r]] = "none"
      BY <1>1, <1>2, <1>3, <1>5, <1>8, <2>2, MoveStep DEF LookUp
    <2> QED BY <2>1, <2>2
  <1>9. CASE AlreadyAdded(r)
    BY <1>1, <1>2, <1>3, <1>5, <1>9, MoveStep DEF AlreadyAdded
  <1>10. CASE LookUpAgain(r)
    <2>1. CASE record[IdOf[r]] # "none"
      BY <1>1, <1>2, <1>5, <1>10, <2>1, MoveStep DEF LookUpAgain, Found
    <2>2. CASE record[IdOf[r]] = "none"
      BY <1>1, <1>5, <1>10, <2>2, FailStep DEF LookUpAgain
    <2> QED BY <2>1, <2>2
  <1>11. CASE BeginFetch(r)
    BY <1>1, <1>2, <1>3, <1>4, <1>11, MoveStep DEF BeginFetch
  <1>12. CASE FetchOk(r)
    <2>1. /\ handle[r] # "none" /\ phase[r] # "error" /\ "none" \in Steps
          /\ handle[r] = "added" => record[IdOf[r]] = "added"
      BY <1>1, <1>2, <1>5, <1>12 DEF FetchOk, Fine
    <2>2. object[Obj(r)].have = Pieces
      <3>1. object[Obj(r)] \in Torrent
        BY <1>1, <2>1, ObjFacts
      <3> QED BY <1>12, <3>1, DoneHasAll DEF FetchOk
    <2>3. /\ MoveTo(r, "ok", "none", handle[r])
          /\ UNCHANGED <<session, record, object, retries, doomed, ctxDone>>
      BY <1>12 DEF FetchOk
    <2> QED BY <1>1, <1>4, <2>1, <2>2, <2>3, MoveStep
  <1>13. CASE AddFails(r) \/ ProbeTimeout(r) \/ FilesFail(r) \/ FetchStopped(r) \/ Aborted(r)
    BY <1>1, <1>5, <1>13, FailStep DEF AddFails, ProbeTimeout, FilesFail, FetchStopped, Aborted
  <1>14. CASE ContentFails(r)
    BY <1>1, <1>14, FailStep DEF ContentFails
  <1> QED
    BY <1>6, <1>7, <1>8, <1>9, <1>10, <1>11, <1>12, <1>13, <1>14, AddStep, StartStep, ListenStep
    DEF Task, Probing, Finding, Fetching

\* Every step keeps the invariant.
LEMMA NextIInv == IInv /\ [Next]_vars => IInv'
  <1> SUFFICES ASSUME IInv, [Next]_vars PROVE IInv'
    OBVIOUS
  <1>1. /\ session \in SessionType /\ object \in [Objects -> Torrent]
        /\ stop \in [Resources -> Stops]
    <2>1. stop \in [Resources -> Stops]
      BY DEF IInv, TypeOK, Stops
    <2> QED BY <2>1 DEF IInv, TypeOK, SessionType, Torrent
  <1>2. CASE JanitorLists \/ Cancel \/ CleanupProtocols \/ UNCHANGED vars
    <2>1. UNCHANGED <<record, object, phase, step, handle, stop, retries>>
      BY <1>2 DEF JanitorLists, Cancel, CleanupProtocols, vars, taskVars
    <2>2. ctxDone' \in BOOLEAN
      BY <1>2, Zenon DEF JanitorLists, Cancel, CleanupProtocols, vars, IInv, TypeOK
    <2>3. session' \in SessionType
      BY <1>1, <1>2 DEF JanitorLists, Cancel, CleanupProtocols, vars, SessionType
    <2>4. doomed' \subseteq Ids /\ \A i \in doomed' : record[i] = "kept"
      BY <1>2, TorrentAssumption DEF JanitorLists, Cancel, CleanupProtocols, vars, IInv, TypeOK, DoomedKept
    <2>5. TypeOK'
      BY <1>1, <2>1, <2>2, <2>3, <2>4 DEF IInv, TypeOK, SessionType
    <2> QED BY <2>1, <2>4, <2>5 DEF IInv, DoomedKept, AddedIsSpared, Fine, Obj
  <1>3. ASSUME NEW o \in Objects, MetadataArrives(o) PROVE IInv'
    <2> DEFINE x == [object[o] EXCEPT !.meta = TRUE]
    <2>1. object[o] \in Torrent
      BY <1>1
    <2>2. x \in Torrent /\ x.have = object[o].have /\ x.removed = object[o].removed
      <3>1. x \in Torrent
        BY <2>1, TorrentFields
      <3> QED BY <2>1 DEF Torrent
    <2>3. object' = [object EXCEPT ![o] = x]
      BY <1>3 DEF MetadataArrives
    <2> HIDE DEF x
    <2> QED BY <1>1, <1>3, <2>2, <2>3, ObjectStep DEF MetadataArrives, taskVars
  <1>4. ASSUME NEW o \in Objects, PieceArrives(o) PROVE IInv'
    <2> DEFINE x == [object[o] EXCEPT !.have = @ + 1]
    <2>1. object[o] \in Torrent /\ object[o].have < Pieces
      BY <1>1, <1>4 DEF PieceArrives
    <2>2. x \in Torrent /\ object[o].have # Pieces /\ x.removed = object[o].removed
      <3>1. x \in Torrent
        BY <2>1, TorrentFields
      <3>2. object[o].have # Pieces
        BY <2>1, TorrentAssumption DEF Torrent
      <3> QED BY <2>1, <3>1, <3>2 DEF Torrent
    <2>3. object' = [object EXCEPT ![o] = x]
      BY <1>4 DEF PieceArrives
    <2> HIDE DEF x
    <2> QED BY <1>1, <1>4, <2>2, <2>3, ObjectStep DEF PieceArrives, taskVars
  <1>5. ASSUME NEW o \in Objects, TorrentStops(o) PROVE IInv'
    <2> DEFINE x == [object[o] EXCEPT !.started = FALSE]
    <2>1. object[o] \in Torrent
      BY <1>1
    <2>2. x \in Torrent /\ x.have = object[o].have /\ x.removed = object[o].removed
      <3>1. x \in Torrent
        BY <2>1, TorrentFields
      <3> QED BY <2>1 DEF Torrent
    <2>3. object' = [object EXCEPT ![o] = x]
      BY <1>5 DEF TorrentStops
    <2>4. stop' \in [Resources -> Stops]
      BY <1>1, <1>5 DEF TorrentStops, Stops
    <2> HIDE DEF x
    <2> QED BY <1>5, <2>2, <2>3, <2>4, ObjectStep DEF TorrentStops
  <1> QED BY <1>2, <1>3, <1>4, <1>5, TaskKeeps, RemoveStep DEF Next

\* The invariant holds in every state the program reaches.
THEOREM Invariant == Spec => []IInv
  <1> QED BY InitIInv, NextIInv, PTL DEF Spec

\* Type correctness: the variables keep their types, the attempts of a fetch
\* stay within MaxFetchRetries and what the janitor listed are torrent IDs.
THEOREM TypeCorrect == Spec => []TypeOK
  <1>1. IInv => TypeOK
    BY DEF IInv
  <1> QED BY <1>1, Invariant, PTL

\* The janitor removes no torrent of this run, however its two passes over
\* the database interleave with probes and fetches (protocol.go 408-441).
THEOREM SparedCorrect == Spec => []AddedIsSpared
  <1>1. IInv => AddedIsSpared
    BY DEF IInv
  <1> QED BY <1>1, Invariant, PTL

\* A fetch that was reported complete has all pieces of its torrent, and keeps
\* them, whoever else shares or removes the torrent: for any piece sizes the
\* tick's counts of bytes and of pieces are right about it, and Stats() that say
\* nothing pass neither test (protocol.go 243-275, 900-932).
THEOREM OkCorrect == Spec => []OkHasAllPieces
  <1>1. IInv => OkHasAllPieces
    BY DEF IInv, Fine, OkHasAllPieces
  <1> QED BY <1>1, Invariant, PTL

-----------------------------------------------------------------------------
(* What a probe has learned of a magnet link.                              *)

\* Metadata of a torrent is in the session, or the janitor has taken it away.
Gone(i)  == object[<<i, "kept">>].removed
Known(i) == Gone(i) \/ (record[i] # "none" /\ object[<<i, record[i]>>].meta)

\* A torrent of an earlier run that a task holds is in the session or was
\* removed; what was probed once is known.
Learned(r) ==
    /\ handle[r] = "kept" => record[IdOf[r]] = "kept" \/ Gone(IdOf[r])
    /\ r \in Magnets /\ phase[r] \in {"probed", "fetch"} => Known(IdOf[r])

LearnedInv == \A r \in Resources : Learned(r)

\* A torrent that is removed stays so.  One of the earlier run leaves the
\* session in no other way, and what is known of an ID stays known.
Lasting(i) ==
    /\ Gone(i) => Gone(i)'
    /\ record[i] = "kept" => record'[i] = "kept" \/ Gone(i)'
    /\ Known(i) => Known(i)'

\* A change to one torrent that keeps its metadata and does not bring it back.
LEMMA ObjectLasts ==
    ASSUME IInv, record' = record, NEW o \in Objects, NEW x \in Torrent,
           object' = [object EXCEPT ![o] = x],
           object[o].meta => x.meta, object[o].removed => x.removed
    PROVE  \A i \in Ids : Lasting(i)
  <1> TAKE i \in Ids
  <1>1. \A u \in Objects : /\ object[u].meta => object'[u].meta
                           /\ object[u].removed => object'[u].removed
    BY DEF IInv, TypeOK
  <1>2. <<i, "kept">> \in Objects /\ (record[i] # "none" => <<i, record[i]>> \in Objects)
    BY DEF IInv, TypeOK, Objects
  <1> QED BY <1>1, <1>2 DEF Lasting, Gone, Known

\* Adding a torrent to an ID of which nothing is in the session.
LEMMA AddLasts ==
    ASSUME IInv, NEW r \in Resources, Add(r)
    PROVE  \A i \in Ids : Lasting(i)
  <1> TAKE i \in Ids
  <1>1. /\ object \in [Objects -> Torrent] /\ record \in [Ids -> {"none", "kept", "added"}]
        /\ IdOf[r] \in Ids
    BY TorrentAssumption DEF IInv, TypeOK, Torrent
  <1>2. PICK x : /\ object' = [object EXCEPT ![<<IdOf[r], "added">>] = x]
                 /\ record' = [record EXCEPT ![IdOf[r]] = "added"]
                 /\ record[IdOf[r]] = "none"
    BY DEF Add
  <1>3. <<i, "kept">> \in Objects /\ object'[<<i, "kept">>] = object[<<i, "kept">>]
    BY <1>1, <1>2 DEF Objects
  <1>4. CASE i = IdOf[r]
    BY <1>2, <1>3, <1>4 DEF Lasting, Gone, Known
  <1>5. CASE i # IdOf[r]
    <2>1. record'[i] = record[i]
      BY <1>1, <1>2, <1>5
    <2>2. record[i] # "none" => object'[<<i, record[i]>>] = object[<<i, record[i]>>]
      BY <1>1, <1>2, <1>5 DEF Objects
    <2> QED BY <1>3, <2>1, <2>2 DEF Lasting, Gone, Known
  <1> QED BY <1>4, <1>5

\* The removal of a torrent of the earlier run.
LEMMA RemoveLasts ==
    ASSUME IInv, NEW j \in Ids, JanitorRemoves(j)
    PROVE  \A i \in Ids : Lasting(i)
  <1> TAKE i \in Ids
  <1>1. /\ object \in [Objects -> Torrent] /\ record \in [Ids -> {"none", "kept", "added"}]
        /\ record[j] = "kept" /\ <<j, "kept">> \in Objects
    BY DEF IInv, TypeOK, Torrent, DoomedKept, JanitorRemoves, Objects
  <1>2. /\ object' = [object EXCEPT ![<<j, "kept">>].removed = TRUE,
                                    ![<<j, "kept">>].started = FALSE]
        /\ record' = [record EXCEPT ![j] = "none"]
    BY <1>1 DEF JanitorRemoves
  <1>3. CASE i = j
    <2>1. Gone(i)'
      BY <1>1, <1>2, <1>3 DEF Gone, Torrent
    <2> QED BY <2>1 DEF Lasting, Known
  <1>4. CASE i # j
    <2>1. record'[i] = record[i]
      BY <1>1, <1>2, <1>4
    <2>2. /\ object'[<<i, "kept">>] = object[<<i, "kept">>]
          /\ record[i] # "none" => object'[<<i, record[i]>>] = object[<<i, record[i]>>]
      BY <1>1, <1>2, <1>4 DEF Objects
    <2> QED BY <2>1, <2>2 DEF Lasting, Gone, Known
  <1> QED BY <1>3, <1>4

\* Every step is one of these, or leaves the torrents alone.
LEMMA NextLasts ==
    ASSUME IInv, [Next]_vars
    PROVE  \A i \in Ids : Lasting(i)
  <1>1. object \in [Objects -> Torrent]
    BY DEF IInv, TypeOK, Torrent
  <1>2. CASE UNCHANGED <<record, object>>
    BY <1>2 DEF Lasting, Gone, Known
  <1>3. ASSUME NEW r \in Resources, Start(r) PROVE \A i \in Ids : Lasting(i)
    <2> DEFINE o == Obj(r)
    <2> DEFINE x == [object[o] EXCEPT !.started = ~object[o].removed]
    <2>1. o \in Objects /\ object[o] \in Torrent
      BY <1>3, ObjFacts DEF Start, IInv, Fine
    <2>2. x \in Torrent
      <3>1. (~object[o].removed) \in BOOLEAN
        BY Zenon
      <3> QED BY <2>1, <3>1, TorrentFields, Zenon
    <2>3. x.meta = object[o].meta /\ x.removed = object[o].removed
      BY <2>1 DEF Torrent
    <2>4. object' = [object EXCEPT ![o] = x] /\ record' = record
      BY <1>3 DEF Start
    <2> HIDE DEF o, x
    <2> QED BY <2>1, <2>2, <2>3, <2>4, ObjectLasts
  <1>4. ASSUME NEW o \in Objects, MetadataArrives(o) \/ PieceArrives(o) \/ TorrentStops(o)
        PROVE  \A i \in Ids : Lasting(i)
    <2>1. record' = record /\ object[o] \in Torrent
      BY <1>1, <1>4 DEF MetadataArrives, PieceArrives, TorrentStops
    <2>2. PICK x \in Torrent : /\ object' = [object EXCEPT ![o] = x]
                               /\ object[o].meta => x.meta
                               /\ object[o].removed => x.removed
      <3>1. CASE MetadataArrives(o)
        <4>1. [object[o] EXCEPT !.meta = TRUE] \in Torrent
          BY <2>1, TorrentFields
        <4> QED BY <2>1, <3>1, <4>1 DEF MetadataArrives, Torrent
      <3>2. CASE PieceArrives(o)
        <4>1. [object[o] EXCEPT !.have = @ + 1] \in Torrent
          BY <2>1, <3>2, TorrentFields DEF PieceArrives
        <4> QED BY <2>1, <3>2, <4>1 DEF PieceArrives, Torrent
      <3>3. CASE TorrentStops(o)
        <4>1. [object[o] EXCEPT !.started = FALSE] \in Torrent
          BY <2>1, TorrentFields
        <4> QED BY <2>1, <3>3, <4>1 DEF TorrentStops, Torrent
      <3> QED BY <1>4, <3>1, <3>2, <3>3
    <2> QED BY <2>1, <2>2, ObjectLasts
  <1>5. ASSUME NEW r \in Resources, Task(r), ~Add(r), ~Start(r)
        PROVE  UNCHANGED <<record, object>>
    BY <1>5 DEF Task, Probing, Finding, Fetching, BeginProbe, ProbeOk, ProbeTimeout,
                FilesFail, BeginFetch, Listen, FetchOk, FetchStopped, LookUp, AddFails,
                AlreadyAdded, LookUpAgain, ContentFails, Aborted
  <1>6. JanitorLists \/ Cancel \/ CleanupProtocols \/ UNCHANGED vars => UNCHANGED <<record, object>>
    BY DEF JanitorLists, Cancel, CleanupProtocols, vars
  <1> QED BY <1>2, <1>3, <1>4, <1>5, <1>6, AddLasts, RemoveLasts DEF Next

\* A task comes to hold a torrent of the earlier run only by finding it in the
\* session, and it comes to be probed only with the metadata of what it holds.
Moves(r) ==
    /\ handle'[r] = "kept" => handle[r] = "kept" \/ record[IdOf[r]] = "kept"
    /\ phase'[r] \in {"probed", "fetch"} =>
           phase[r] \in {"probed", "fetch"} \/ (step[r] = "found" /\ MetaKnown(r))

LEMMA TaskMoves ==
    ASSUME IInv, NEW r \in Resources, Task(r)
    PROVE  \A q \in Resources : Moves(q)
  <1>1. phase \in [Resources -> Phases] /\ handle \in [Resources -> Handles]
    BY DEF IInv, TypeOK, Phases, Handles
  <1>2. ASSUME NEW p, NEW s, NEW h, MoveTo(r, p, s, h)
        PROVE  /\ phase'[r] = p /\ handle'[r] = h
               /\ \A q \in Resources \ {r} : phase'[q] = phase[q] /\ handle'[q] = handle[q]
    BY <1>1, <1>2 DEF MoveTo
  <1>3. (\E p, s, h : MoveTo(r, p, s, h)) \/ (UNCHANGED <<phase, handle>>)
    BY DEF Task, Probing, Finding, Fetching, BeginProbe, ProbeOk, ProbeTimeout, FilesFail,
           BeginFetch, Start, Listen, FetchOk, FetchStopped, LookUp, Found, Add, AddFails,
           AlreadyAdded, LookUpAgain, ContentFails, Aborted, Fail
  <1>4. \A q \in Resources \ {r} : Moves(q)
    BY <1>2, <1>3 DEF Moves
  <1>5. CASE Fail(r)
    BY <1>2, <1>5 DEF Fail, Moves
  <1>6. CASE BeginProbe(r) \/ ProbeOk(r) \/ BeginFetch(r)
    BY <1>2, <1>5, <1>6 DEF BeginProbe, ProbeOk, BeginFetch, Moves
  <1>7. CASE Start(r) \/ FetchOk(r)
    BY <1>2, <1>7 DEF Start, FetchOk, Moves, IInv, Fine
  <1>8. CASE LookUp(r) \/ LookUpAgain(r)
    BY <1>2, <1>5, <1>8 DEF LookUp, LookUpAgain, Found, Moves
  <1>9. CASE Add(r) \/ AlreadyAdded(r)
    BY <1>2, <1>9 DEF Add, AlreadyAdded, Moves
  <1>10. \/ Listen(r) \/ Fail(r) \/ BeginProbe(r) \/ ProbeOk(r) \/ BeginFetch(r) \/ Start(r)
         \/ FetchOk(r) \/ LookUp(r) \/ LookUpAgain(r) \/ Add(r) \/ AlreadyAdded(r)
    BY DEF Task, Probing, Finding, Fetching, ProbeTimeout, FilesFail, FetchStopped,
           AddFails, ContentFails, Aborted
  <1>11. CASE Listen(r)
    BY <1>11 DEF Listen, Moves
  <1>12. Moves(r)
    BY <1>5, <1>6, <1>7, <1>8, <1>9, <1>10, <1>11
  <1> QED BY <1>4, <1>12

LEMMA NextMoves ==
    ASSUME IInv, [Next]_vars
    PROVE  \A q \in Resources : Moves(q)
  <1>1. CASE UNCHANGED <<phase, handle>>
    BY <1>1 DEF Moves
  <1>2. \/ UNCHANGED <<phase, handle>>
        \/ \E r \in Resources : Task(r)
    BY DEF Next, vars, taskVars, JanitorLists, JanitorRemoves, MetadataArrives,
           PieceArrives, TorrentStops, Cancel, CleanupProtocols
  <1> QED BY <1>1, <1>2, TaskMoves

\* What a task with a torrent learns from its metadata.
LEMMA MetaIsKnown ==
    ASSUME IInv, NEW r \in Resources, Learned(r), step[r] = "found"
    PROVE  /\ MetaKnown(r) => Known(IdOf[r])
           /\ Known(IdOf[r]) => MetaKnown(r) \/ Gone(IdOf[r])
  <1>1. handle[r] \in {"kept", "added"}
    BY DEF IInv, TypeOK, Fine
  <1>2. handle[r] = record[IdOf[r]] \/ Gone(IdOf[r])
    BY <1>1 DEF IInv, Fine, Learned
  <1> QED BY <1>1, <1>2 DEF Known, MetaKnown, Obj

LEMMA NextLearned == IInv /\ LearnedInv /\ [Next]_vars => LearnedInv'
  <1> SUFFICES ASSUME IInv, LearnedInv, [Next]_vars, NEW r \in Resources PROVE Learned(r)'
    BY DEF LearnedInv
  <1>1. IdOf[r] \in Ids /\ Learned(r)
    BY TorrentAssumption DEF LearnedInv
  <1>2. Lasting(IdOf[r]) /\ Moves(r)
    BY <1>1, NextLasts, NextMoves
  <1>3. handle'[r] = "kept" => record'[IdOf[r]] = "kept" \/ Gone(IdOf[r])'
    BY <1>1, <1>2 DEF Lasting, Moves, Learned
  <1>4. r \in Magnets /\ phase'[r] \in {"probed", "fetch"} => Known(IdOf[r])
    BY <1>1, <1>2, MetaIsKnown DEF Moves, Learned
  <1> QED BY <1>2, <1>3, <1>4 DEF Lasting, Learned

\* The fetch of a magnet waits for metadata, which has no timeout, only when
\* the janitor has removed what the probe had found (protocol.go 790-824,
\* 871-875).
THEOREM MetadataCorrect == Spec => []NoWaitForMetadata
  <1>1. Init => LearnedInv
    BY DEF Init, LearnedInv, Learned
  <1>2. IInv /\ LearnedInv => NoWaitForMetadata
    <2> SUFFICES ASSUME IInv, LearnedInv, NEW r \in Magnets,
                        phase[r] = "fetch", step[r] = "found", ~MetaKnown(r)
                 PROVE  Gone(IdOf[r])
      BY DEF NoWaitForMetadata, Gone
    <2>1. r \in Resources
      BY TorrentAssumption
    <2> QED BY <2>1, MetaIsKnown DEF LearnedInv, Learned
  <1> QED BY <1>1, <1>2, InitIInv, NextIInv, NextLearned, PTL DEF Spec
=============================================================================
