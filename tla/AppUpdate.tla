------------------------------- MODULE AppUpdate -------------------------------
(***************************************************************************)
(* How the Switch app replaces itself (ui/settings_tab.cpp, the update     *)
(* part of app/session.cpp, update/*.cpp): it asks the library server and  *)
(* then GitHub for a release, offers one that is newer and signed, fetches *)
(* it and swaps it in by the calls of AtomicFile; what the server and      *)
(* GitHub hold may change between any two requests.                        *)
(***************************************************************************)
EXTENDS Integers, AtomicFile

CONSTANTS
    Apps,       \* contents of nslibrary.nro
    Torn,       \* a part file whose write was cut
    VersionIn,  \* the version an app says it is, in the order of cmpVersion
    Manifests,  \* update.json: [version, nro, size]; what cannot be parsed is of size 0
    Signed,     \* those the release key has signed
    SizeOf, MaxNro

VARIABLES
    upAt,       \* where the check, the download or the swap stands
    upCancel,   \* updateCancel_
    runs,       \* the app that runs
    upFiles,    \* nslibrary.nro, .part and .old
    shelf,      \* the server's copy: what is next to its .nro
    doc, tag,   \* the manifest read, and the version of GitHub's release
    offer,      \* the update offered, and whether the server has it
    bytes,      \* what was downloaded of it
    stranded    \* history: a swap failed and its old file could not be put back either

upVars == <<upAt, upCancel, runs, upFiles, shelf, doc, tag, offer, bytes, stranded>>

Updates == [manifest : Manifests, fromServer : BOOLEAN]
Shelves == [nro : Apps \cup {Absent}, doc : Manifests \cup {Absent}, sig : Manifests \cup {Absent}]
Checking == {"server json", "server sig", "release", "json", "sig"}
Fetching == {"fetching", "fetched"}
Files == [part : Apps \cup {Absent, Torn}, dest : Apps \cup {Absent}, old : Apps \cup {Absent}]

UpdateSized ==
    /\ Absent \notin Apps \cup Manifests /\ Torn \notin Apps \cup {Absent}
    /\ VersionIn \in [Apps -> Nat] /\ SizeOf \in [Apps -> Nat] /\ MaxNro \in Nat
    /\ Manifests \subseteq [version : Nat, nro : Apps, size : Nat]
    /\ Signed \subseteq Manifests
    /\ \A m \in Signed : m.version = VersionIn[m.nro]

UpdateTypeOK ==
    /\ upAt \in {"off", "idle", "offered"} \cup Checking \cup Fetching \cup Steps
    /\ upCancel \in BOOLEAN /\ stranded \in BOOLEAN /\ runs \in Apps
    /\ upFiles \in Files /\ shelf \in Shelves
    /\ doc \in Manifests \cup {Absent} /\ tag \in Nat
    /\ offer \in Updates \cup {Absent} /\ bytes \in Apps \cup {Absent, Torn}

UpdateInit ==
    /\ upAt = "idle" /\ upCancel = FALSE /\ stranded = FALSE /\ runs \in Apps
    /\ upFiles = [part |-> Absent, dest |-> runs, old |-> Absent]
    /\ shelf \in Shelves /\ doc = Absent /\ tag = 0 /\ offer = Absent /\ bytes = Absent

appKept == <<runs, upFiles, shelf, stranded>>

--------------------------------------------------------------------------------
(* Looking for one.                                                             *)

\* serverUpdate: the server says it has an app only when the manifest next to it is about it.
Advertised ==
    /\ shelf.nro # Absent /\ shelf.doc # Absent /\ shelf.sig # Absent
    /\ shelf.doc.nro = shelf.nro /\ shelf.doc.size = SizeOf[shelf.nro]

\* verifySignedManifest of document d with the signature made for s.
Verified(d, s) == d # Absent /\ d = s /\ d \in Signed /\ d.size \in 1..MaxNro

Newer(d) == d.version > VersionIn[runs]

\* checkForUpdates: the server first, when it has an address to ask, then GitHub.
CheckForUpdates ==
    /\ upAt = "idle" /\ upCancel' = FALSE
    /\ upAt' \in {"release"} \cup (IF Advertised THEN {"server json"} ELSE {})
    /\ UNCHANGED <<appKept, doc, tag, offer, bytes>>

ServerJson ==
    /\ upAt = "server json" /\ shelf.doc # Absent
    /\ upAt' = "server sig" /\ doc' = shelf.doc
    /\ UNCHANGED <<appKept, upCancel, tag, offer, bytes>>

\* An update of the server is offered at once; without a newer one GitHub is asked.
ServerSignature ==
    /\ upAt = "server sig" /\ ~upCancel /\ Verified(doc, shelf.sig)
    /\ IF Newer(doc)
       THEN upAt' = "offered" /\ offer' = [manifest |-> doc, fromServer |-> TRUE]
       ELSE upAt' = "release" /\ UNCHANGED offer
    /\ UNCHANGED <<appKept, upCancel, doc, tag, bytes>>

\* A failing server is left for GitHub; cancelling ends both.
ServerFails ==
    /\ upAt \in {"server json", "server sig"}
    /\ upAt' = (IF upCancel THEN "idle" ELSE "release") /\ upCancel' = FALSE
    /\ UNCHANGED <<appKept, doc, tag, offer, bytes>>

\* fetchSignedUpdate; each transfer that was cancelled fails.
ReadRelease(v) ==
    /\ upAt = "release" /\ ~upCancel /\ upAt' = "json" /\ tag' = v
    /\ UNCHANGED <<appKept, upCancel, doc, offer, bytes>>

ReleaseJson(d) ==
    /\ upAt = "json" /\ ~upCancel /\ upAt' = "sig" /\ doc' = d
    /\ UNCHANGED <<appKept, upCancel, tag, offer, bytes>>

ReleaseSignature(s) ==
    /\ upAt = "sig" /\ ~upCancel /\ Verified(doc, s) /\ doc.version = tag
    /\ IF Newer(doc)
       THEN upAt' = "offered" /\ offer' = [manifest |-> doc, fromServer |-> FALSE]
       ELSE upAt' = "idle" /\ UNCHANGED offer
    /\ UNCHANGED <<appKept, upCancel, doc, tag, bytes>>

ReleaseFails ==
    /\ upAt \in {"release", "json", "sig"} /\ upAt' = "idle"
    /\ UNCHANGED <<appKept, upCancel, doc, tag, offer, bytes>>

--------------------------------------------------------------------------------
(* Fetching it.                                                                 *)

AnswerOffer ==
    /\ upAt = "offered"
    /\ upAt' \in {"idle", "fetching"} /\ upCancel' = FALSE /\ bytes' = Absent
    /\ UNCHANGED <<appKept, doc, tag, offer>>

\* The last piece has come. The server's is not taken after a cancel.
LastPiece(b) ==
    /\ upAt = "fetching" /\ (offer.fromServer => ~upCancel)
    /\ upAt' = "fetched" /\ bytes' = b
    /\ UNCHANGED <<appKept, upCancel, doc, tag, offer>>

\* nroMatchesManifest: the bytes have the size and the hash the manifest says. A download from
\* GitHub that was cancelled fails first; one from the server does not, once all of it is here.
InstallVerified ==
    /\ upAt = "fetched" /\ (offer.fromServer \/ ~upCancel)
    /\ bytes = offer.manifest.nro /\ SizeOf[bytes] = offer.manifest.size
    /\ upAt' = "write"
    /\ UNCHANGED <<appKept, upCancel, doc, tag, offer, bytes>>

FetchFails ==
    /\ upAt \in Fetching /\ upAt' = "idle"
    /\ UNCHANGED <<appKept, upCancel, doc, tag, offer, bytes>>

PressCancel ==
    /\ upAt \in Checking \cup Fetching /\ upCancel' = TRUE
    /\ UNCHANGED <<appKept, upAt, doc, tag, offer, bytes>>

--------------------------------------------------------------------------------
(* Swapping it in.                                                              *)

SwapStep ==
    /\ upAt \in Steps
    /\ upFiles' = AfterStep(upFiles, upAt, bytes)
    /\ upAt' = LET next == NextStep(upFiles, upAt) IN IF next = "done" THEN "idle" ELSE next
    /\ UNCHANGED <<runs, shelf, stranded, upCancel, doc, tag, offer, bytes>>

\* A call fails; putting the old file back may fail as well, which nothing tells.
SwapFails ==
    /\ upAt \in {"write", "park", "swap"} /\ upAt' = "idle"
    /\ \/ upFiles' = AfterFailure(upFiles, upAt) /\ UNCHANGED stranded
       \/ /\ upAt = "swap" /\ HadDest(upFiles)
          /\ upFiles' = [upFiles EXCEPT !.part = Absent] /\ stranded' = TRUE
    /\ UNCHANGED <<runs, shelf, upCancel, doc, tag, offer, bytes>>

\* The app ends or the console goes off, wherever it stands.
AppEnds ==
    /\ upAt # "off" /\ upAt' = "off"
    /\ \/ UNCHANGED upFiles
       \/ upAt = "write" /\ upFiles' = [upFiles EXCEPT !.part = Torn]
    /\ UNCHANGED <<runs, shelf, stranded, upCancel, doc, tag, offer, bytes>>

\* main: it starts as the file in place, or as another copy when there is none, and then puts back
\* what a swap that was cut had parked.
AppStarts ==
    /\ upAt = "off" /\ upAt' = "idle"
    /\ upFiles' = Recovered(upFiles) /\ stranded' = (stranded /\ upFiles'.dest = Absent)
    /\ runs' \in (IF upFiles.dest # Absent THEN {upFiles.dest} ELSE Apps)
    /\ UNCHANGED <<shelf, upCancel, doc, tag, offer, bytes>>

\* Somebody puts another release next to the server, one file at a time.
ShelfChanges ==
    /\ shelf' \in Shelves
    /\ UNCHANGED <<upAt, upCancel, runs, upFiles, doc, tag, offer, bytes, stranded>>

UpdateNext ==
    \/ CheckForUpdates \/ ServerJson \/ ServerSignature \/ ServerFails
    \/ \E v \in Nat : ReadRelease(v)
    \/ \E d \in Manifests : ReleaseJson(d) \/ ReleaseSignature(d)
    \/ ReleaseFails \/ AnswerOffer \/ (\E b \in Apps \cup {Torn} : LastPiece(b))
    \/ InstallVerified \/ FetchFails \/ PressCancel
    \/ SwapStep \/ SwapFails \/ AppEnds \/ AppStarts \/ ShelfChanges

UpdateSpec == UpdateInit /\ [][UpdateNext]_upVars

--------------------------------------------------------------------------------
(* Properties.                                                                  *)

\* An app is in place, or parked where the next start finds it, at every moment a crash may choose,
\* unless a swap failed and so did putting the old file back.
AnAppSurvives == stranded \/ upFiles.dest # Absent \/ upFiles.old # Absent

\* What a swap moves into place is what a signed manifest describes, and is newer than the app that
\* runs, though the sources may change between the check, the offer and the download.
SwapsAreNewer ==
    upFiles'.dest \notin {upFiles.dest, upFiles.old, Absent} =>
        /\ VersionIn[upFiles'.dest] > VersionIn[runs]
        /\ \E m \in Signed : m.nro = upFiles'.dest /\ m.size = SizeOf[m.nro]

\* A part that was cut is never moved into place.
NoTornApp == upAt \in {"clear", "park", "swap"} => upFiles.part = offer.manifest.nro

================================================================================
