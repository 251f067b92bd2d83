---------------------------- MODULE ClientRelease ----------------------------
(* Client releases: services.py, server.py and window.py of the online       *)
(* update.                                                                   *)
(*                                                                           *)
(* Administrators upload builds of the desktop client.  An upload stores the *)
(* executable in a directory of the server, and then records it in a         *)
(* database transaction; the older interface stores ZIP packages and         *)
(* extracts them in place.  A request runs in a thread of its own and its    *)
(* transaction at READ COMMITTED, so that requests overlap.  Devices ask     *)
(* what the newest release of their channel is, download it, and tell the    *)
(* operator to install it.                                                   *)
EXTENDS Naturals, FiniteSets

CONSTANTS Thread,     \* server threads that handle administrators' requests
          Device,     \* desktop clients
          Version,    \* version numbers, as [patch |-> n, rc |-> k]; k = 0 is final
          Build,      \* what is compiled
          Uploads,    \* uploads administrators make
          Calls,      \* calls of the older interface they make
          Installed,  \* what devices run at first: a channel and a version
          MaxStamp,   \* bound: rows of client_update_files ever inserted
          Broken,     \* a file that lacks its end, or was written while it was read
          None

Channel == {"stable", "debug"}

Packs == {"release_file", "debug_file"}

ASSUME VersionAssumption == Version \subseteq [patch : Nat, rc : Nat]

ASSUME UploadsAssumption ==
    Uploads \subseteq [version : Version, channel : Channel, build : Build, active : BOOLEAN]

\* A release package may hold the debug executable as well; both says that it does.
ASSUME CallsAssumption ==
    /\ Calls \subseteq [version : Version, packs : SUBSET Packs, both : BOOLEAN,
                        stable : BOOLEAN, build : Build]
    /\ \A q \in Calls : q.both => "release_file" \in q.packs

ASSUME InstalledAssumption == Installed \subseteq Channel \X Version

ASSUME StampAssumption == MaxStamp \in Nat

VARIABLES disk,       \* the update directory and the release directories
          files,      \* committed rows of client_update_files, by order of upload
          releases,   \* committed rows of client_releases
          stamp,      \* time of the latest upload, which orders rows as their ids do
          req,        \* the request each thread handles
          dev,        \* what each device runs and what it was offered
          local       \* the updates directory of each device

vars == <<disk, files, releases, stamp, req, dev, local>>

Stamp == 1 .. MaxStamp

\* What a file holds: the executable of a channel, or the ZIP around it.
Content == [build : Build, form : Channel \cup {"zip"}]

(* Names of files.  An upload is stored under its channel, version and       *)
(* digest, a package of the older interface under a name of its own, and the *)
(* executables extracted from it under their version alone.                  *)
\* Mutant: a name without the digest.
StoredNameOfVersion(channel, version, build) ==
    <<"update", channel, version, CHOOSE b \in Build : TRUE>>

StoredName(channel, version, build) == <<"update", channel, version, build>>

PackageName(at) == <<"package", at>>

ReleaseName(version, channel) == <<"release", version, channel>>

Path == {"update"} \X Channel \X Version \X Build
        \cup {"package"} \X Stamp
        \cup {"release"} \X Version \X Channel

Row == [version : Version, channel : Channel, path : Path, sha : Content, active : BOOLEAN]

Release == [stable : BOOLEAN, path : [Channel -> Path \cup {None}],
            sha : [Channel -> Content \cup {None}], date : Stamp]

Upload == [kind : {"upload"}, stage : {"stored", "inserted", "hiding", "read"},
           version : Version, channel : Channel, build : Build, active : BOOLEAN,
           at : 0 .. MaxStamp, hides : SUBSET Stamp, existing : Release \cup {None}]

Package == [kind : {"package"}, version : Version, packs : SUBSET Packs, both : BOOLEAN,
            stable : BOOLEAN, build : Build, at : Stamp, existing : Release \cup {None}]

Url == {"file"} \X Stamp \cup {"release"} \X Version \X Channel

Offer == [version : Version, url : Url, sha : Content \cup {None}]

Transfer == [path : Path, content : Content]

Running == [channel : Channel, version : Version, pending : Offer \cup {None},
            transfer : Transfer \cup {None}, ready : BOOLEAN, spoilt : BOOLEAN]

ASSUME NoneAssumption ==
    /\ None \notin Content /\ None \notin Row /\ None \notin Release
    /\ None \notin Upload /\ None \notin Package /\ None \notin Offer /\ None \notin Transfer

TypeOK ==
    /\ disk \in [Path -> Content \cup {None}]
    /\ files \in [Stamp -> Row \cup {None}]
    /\ releases \in [Version -> Release \cup {None}]
    /\ stamp \in 0 .. MaxStamp
    /\ req \in [Thread -> Upload \cup Package \cup {None}]
    /\ dev \in [Device -> Running]
    /\ local \in [Device -> [Version -> Content \cup {None, Broken}]]

Init ==
    /\ disk = [p \in Path |-> None]
    /\ files = [n \in Stamp |-> None]
    /\ releases = [v \in Version |-> None]
    /\ stamp = 0
    /\ req = [t \in Thread |-> None]
    /\ dev \in [Device -> {[channel |-> i[1], version |-> i[2], pending |-> None, transfer |-> None,
                            ready |-> FALSE, spoilt |-> FALSE] : i \in Installed}]
    /\ local = [d \in Device |-> [v \in Version |-> None]]

-----------------------------------------------------------------------------
(* Versions                                                                  *)

(* The place of a number of one or two digits among texts of digits: 9 after *)
(* 10, 10 after 1.                                                           *)
TextRank(n) == IF n < 10 THEN 20 * n ELSE 2 * n + 1

(* _version_key splits a version at its dots.  The last part is a number for *)
(* a final version and a text like 3-rc8 for a candidate; Python orders two  *)
(* numbers or two texts, and raises TypeError between the two.               *)
Comparable(v, w) == (v.rc = 0) <=> (w.rc = 0)

(* Two candidates compare as texts, the number first: 10-rc1 before 9-rc1.   *)
Newer(v, w) ==
    \/ v.rc = 0 /\ v.patch > w.patch
    \/ /\ v.rc # 0
       /\ \/ TextRank(v.patch) > TextRank(w.patch)
          \/ v.patch = w.patch /\ TextRank(v.rc) > TextRank(w.rc)

-----------------------------------------------------------------------------
(* What a channel offers                                                     *)

RowsOf(channel) == {n \in Stamp : files[n] # None /\ files[n].channel = channel}

ActiveRows(channel) == {n \in RowsOf(channel) : files[n].active}

\* Release records the older answer falls back to.
Records(channel) ==
    {v \in Version : releases[v] # None /\ (channel = "stable" => releases[v].stable)}

Latest(S) == {n \in S : \A k \in S : k <= n}

OfRow(n) == [version |-> files[n].version, url |-> <<"file", n>>, sha |-> files[n].sha]

(* The digest of the answer is that of the stable executable, whichever is   *)
(* downloaded.                                                               *)
OfRelease(v, channel) ==
    [version |-> v, url |-> <<"release", v, channel>>, sha |-> releases[v].sha["stable"]]

Newest(channel) ==
    {v \in Records(channel) :
        \A w \in Records(channel) : releases[w].date <= releases[v].date}

\* latest_client_release: the newest active file, else, where the channel has no file
\* at all, the newest release record.
OffersOf(channel) ==
    IF RowsOf(channel) # {} THEN {OfRow(n) : n \in Latest(ActiveRows(channel))}
    ELSE {OfRelease(v, channel) : v \in Newest(channel)}

-----------------------------------------------------------------------------
(* An upload: POST /api/client-update/upload                                 *)

\* The executable is received, and moved to its name over a file of that name.
StoreUpload(t) ==
    /\ req[t] = None
    /\ stamp < MaxStamp
    /\ \E u \in Uploads :
        /\ disk' = [disk EXCEPT ![StoredName(u.channel, u.version, u.build)] =
                       [build |-> u.build, form |-> u.channel]]
        /\ req' = [req EXCEPT ![t] =
                    [kind |-> "upload", stage |-> "stored", version |-> u.version,
                     channel |-> u.channel, build |-> u.build, active |-> u.active,
                     at |-> 0, hides |-> {}, existing |-> None]]
    /\ UNCHANGED <<files, releases, stamp, dev, local>>

Uploading(t, stage) ==
    /\ req[t] # None
    /\ req[t].kind = "upload"
    /\ req[t].stage = stage

\* Mutant: the row takes the time of the one before it.
InsertRowLate(t) ==
    /\ Uploading(t, "stored")
    /\ stamp < MaxStamp
    /\ stamp' = stamp + 1
    /\ req' = [req EXCEPT ![t].stage = "inserted", ![t].at = stamp]
    /\ UNCHANGED <<disk, files, releases, dev, local>>

\* The row is inserted; it shows to others when the transaction commits.
InsertRow(t) ==
    /\ Uploading(t, "stored")
    /\ stamp < MaxStamp
    /\ stamp' = stamp + 1
    /\ req' = [req EXCEPT ![t].stage = "inserted", ![t].at = stamp']
    /\ UNCHANGED <<disk, files, releases, dev, local>>

\* Mutant: an active upload deactivates the rows of both channels.
HideOthersOfAll(t) ==
    /\ Uploading(t, "inserted")
    /\ req' = [req EXCEPT ![t].stage = "hiding",
                          ![t].hides = IF req[t].active THEN {n \in Stamp : files[n] # None} ELSE {}]
    /\ UNCHANGED <<disk, files, releases, stamp, dev, local>>

\* An active upload deactivates the rows of its channel this statement sees.
HideOthers(t) ==
    /\ Uploading(t, "inserted")
    /\ req' = [req EXCEPT ![t].stage = "hiding",
                          ![t].hides = IF req[t].active THEN RowsOf(req[t].channel) ELSE {}]
    /\ UNCHANGED <<disk, files, releases, stamp, dev, local>>

(* The statement waits for a transaction that has written one of its rows;   *)
(* then the release record of the version is read.                           *)
ReadRelease(t) ==
    /\ Uploading(t, "hiding")
    /\ \A u \in Thread \ {t} : Uploading(u, "read") => req[u].hides \cap req[t].hides = {}
    /\ req' = [req EXCEPT ![t].stage = "read", ![t].existing = releases[req[t].version]]
    /\ UNCHANGED <<disk, files, releases, stamp, dev, local>>

\* The release record of a version: each channel keeps what the other one does not set.
Merged(existing, q) ==
    [stable |-> q.channel = "stable" \/ (existing # None /\ existing.stable),
     path |-> [c \in Channel |-> IF c = q.channel THEN StoredName(c, q.version, q.build)
                                 ELSE IF existing # None THEN existing.path[c] ELSE None],
     sha |-> [c \in Channel |-> IF c = q.channel THEN [build |-> q.build, form |-> c]
                                ELSE IF existing # None THEN existing.sha[c] ELSE None],
     date |-> q.at]

\* What the database holds of a version once a record was written over what was read:
\* an UPDATE of a row that was deleted meanwhile changes nothing.
Written(v, existing, record) ==
    IF existing # None /\ releases[v] = None THEN None ELSE record

\* Two first records of one version: the later INSERT meets the unique constraint.
Conflicts(q) == q.existing = None /\ releases[q.version] # None

\* Mutant: an upload deactivates its own row with the others.
RecordedHidden(q) ==
    [version |-> q.version, channel |-> q.channel, active |-> FALSE,
     path |-> StoredName(q.channel, q.version, q.build),
     sha |-> [build |-> q.build, form |-> q.channel]]

\* The row of an upload.
Recorded(q) ==
    [version |-> q.version, channel |-> q.channel, active |-> q.active,
     path |-> StoredName(q.channel, q.version, q.build),
     sha |-> [build |-> q.build, form |-> q.channel]]

CommitUpload(t) ==
    /\ Uploading(t, "read")
    /\ ~Conflicts(req[t])
    /\ LET q == req[t]
       IN  /\ files' = [n \in Stamp |->
                  IF n = q.at THEN Recorded(q)
                  ELSE IF n \in q.hides THEN [files[n] EXCEPT !.active = FALSE]
                  ELSE files[n]]
           /\ releases' = [releases EXCEPT ![q.version] =
                               Written(q.version, q.existing, Merged(q.existing, q))]
    /\ req' = [req EXCEPT ![t] = None]
    /\ UNCHANGED <<disk, stamp, dev, local>>

(* The transaction fails, for the unique constraint or for the database, and *)
(* the finally clause removes the file the upload has stored.                *)
FailUpload(t) ==
    /\ req[t] # None
    /\ req[t].kind = "upload"
    /\ disk' = [disk EXCEPT ![StoredName(req[t].channel, req[t].version, req[t].build)] = None]
    /\ req' = [req EXCEPT ![t] = None]
    /\ UNCHANGED <<files, releases, stamp, dev, local>>

-----------------------------------------------------------------------------
(* The older interface: POST /api/client-releases                            *)

\* Executables a call extracts: those of its packages, and with the release package the
\* debug executable when the package also holds it.
Extracted(packs, both) ==
    {c \in Channel : \/ c = "stable" /\ "release_file" \in packs
                     \/ c = "debug" /\ ("debug_file" \in packs \/ both)}

\* The time of a package: the release package is stored first.
PackAt(at, packs, pack) ==
    IF pack = "debug_file" /\ "release_file" \in packs THEN at + 1 ELSE at

(* The record of the version is read, the packages are archived, and the     *)
(* executables in them written over those of the version.                    *)
StorePackages(t) ==
    /\ req[t] = None
    /\ \E q \in Calls :
        /\ stamp' = stamp + (IF q.packs = Packs THEN 2 ELSE 1)
        /\ stamp' <= MaxStamp
        /\ disk' = [p \in Path |->
                IF \E k \in q.packs : p = PackageName(PackAt(stamp + 1, q.packs, k))
                THEN [build |-> q.build, form |-> "zip"]
                ELSE IF \E c \in Extracted(q.packs, q.both) : p = ReleaseName(q.version, c)
                THEN [build |-> q.build, form |-> p[3]]
                ELSE disk[p]]
        /\ req' = [req EXCEPT ![t] =
                    [kind |-> "package", version |-> q.version, packs |-> q.packs,
                     both |-> q.both, stable |-> q.stable, build |-> q.build,
                     at |-> stamp + 1, existing |-> releases[q.version]]]
    /\ UNCHANGED <<files, releases, dev, local>>

\* The record keeps what the packages do not bring; the call says whether it is stable.
Repacked(existing, q) ==
    LET new == Extracted(q.packs, q.both)
    IN  [stable |-> q.stable,
         path |-> [c \in Channel |-> IF c \in new THEN ReleaseName(q.version, c)
                                     ELSE IF existing # None THEN existing.path[c] ELSE None],
         sha |-> [c \in Channel |-> IF c \in new THEN [build |-> q.build, form |-> c]
                                    ELSE IF existing # None THEN existing.sha[c] ELSE None],
         date |-> q.at]

(* The rows of the packages name no channel and are not said to be active:   *)
(* the schema makes them stable and active.                                  *)
CommitPackages(t) ==
    /\ req[t] # None
    /\ req[t].kind = "package"
    /\ ~Conflicts(req[t])
    /\ LET q == req[t]
       IN  /\ files' = [n \in Stamp |->
                  IF \E k \in q.packs : n = PackAt(q.at, q.packs, k)
                  THEN [version |-> q.version, channel |-> "stable", active |-> TRUE,
                        path |-> PackageName(n), sha |-> [build |-> q.build, form |-> "zip"]]
                  ELSE files[n]]
           /\ releases' = [releases EXCEPT ![q.version] =
                               Written(q.version, q.existing, Repacked(q.existing, q))]
    /\ req' = [req EXCEPT ![t] = None]
    /\ UNCHANGED <<disk, stamp, dev, local>>

\* The transaction fails; packages and extracted executables stay.  A call whose second
\* package is refused leaves what this leaves of a call of the first alone.
FailPackages(t) ==
    /\ req[t] # None
    /\ req[t].kind = "package"
    /\ req' = [req EXCEPT ![t] = None]
    /\ UNCHANGED <<disk, files, releases, stamp, dev, local>>

\* DELETE /api/client-releases/<version>: the record goes, its files stay.
DeleteRelease(v) ==
    /\ releases[v] # None
    /\ releases' = [releases EXCEPT ![v] = None]
    /\ UNCHANGED <<disk, files, stamp, req, dev, local>>

\* The server stops: nothing of an open request is committed, nor its file removed.
StopServer ==
    /\ \E t \in Thread : req[t] # None
    /\ req' = [t \in Thread |-> None]
    /\ UNCHANGED <<disk, files, releases, stamp, dev, local>>

-----------------------------------------------------------------------------
(* A device                                                                  *)

Idle(d) == dev[d].transfer = None

\* Mutant: the dialog is shown again as it was left, with its install button.
CheckUpdateKept(d) ==
    /\ Idle(d)
    /\ \E o \in OffersOf(dev[d].channel) :
        /\ Comparable(o.version, dev[d].version)
        /\ Newer(o.version, dev[d].version)
        /\ dev' = [dev EXCEPT ![d].pending = o]
    /\ UNCHANGED <<disk, files, releases, stamp, req, local>>

(* The device asks for the newest release of its channel; an answer that has *)
(* no update, or the error of two versions that do not compare, leaves what  *)
(* it was offered before.                                                    *)
CheckUpdate(d) ==
    /\ Idle(d)
    /\ \E o \in OffersOf(dev[d].channel) :
        /\ Comparable(o.version, dev[d].version)
        /\ Newer(o.version, dev[d].version)
        /\ dev' = [dev EXCEPT ![d].pending = o, ![d].ready = FALSE]
    /\ UNCHANGED <<disk, files, releases, stamp, req, local>>

\* The file a download address names: at most one.
Named(url) ==
    IF url[1] = "file"
    THEN {files[n].path : n \in {m \in Stamp : m = url[2] /\ files[m] # None}}
    ELSE {p \in Path : /\ releases[url[2]] # None
                       /\ p = releases[url[2]].path[url[3]]}

(* The server finds the file, and the device opens its own copy of that      *)
(* version for writing.  A file that is not found changes nothing.           *)
StartDownload(d) ==
    /\ Idle(d)
    /\ dev[d].pending # None
    /\ \E p \in Named(dev[d].pending.url) :
        /\ disk[p] # None
        /\ dev' = [dev EXCEPT ![d].transfer = [path |-> p, content |-> disk[p]]]
    /\ local' = [local EXCEPT ![d][dev[d].pending.version] = Broken]
    /\ UNCHANGED <<disk, files, releases, stamp, req>>

\* A name of the release directory is written in place, the others are replaced whole or
\* removed, which a reader that has the file open does not see.
WrittenOver(x) == x.path[1] = "release" /\ disk[x.path] # x.content

\* The whole file has come: the button is enabled and the download reported a success.
FinishDownload(d) ==
    /\ ~Idle(d)
    /\ LET x == dev[d].transfer
       IN  /\ local' = [local EXCEPT ![d][dev[d].pending.version] =
                            IF WrittenOver(x) THEN Broken ELSE x.content]
           /\ dev' = [dev EXCEPT ![d].transfer = None, ![d].ready = TRUE,
                                 ![d].spoilt = WrittenOver(x)]
    /\ UNCHANGED <<disk, files, releases, stamp, req>>

(* The connection ends early.  When it is closed, the HTTP library gives the *)
(* end of the body and the download counts as complete; when it is reset or  *)
(* times out, the user is told, and the button stays as it was.              *)
CutDownload(d) ==
    /\ ~Idle(d)
    /\ \E closed \in BOOLEAN :
        dev' = [dev EXCEPT ![d].transfer = None, ![d].spoilt = TRUE,
                           ![d].ready = closed \/ dev[d].ready]
    /\ UNCHANGED <<disk, files, releases, stamp, req, local>>

\* The client starts again, as the given version.
Started(d, v) ==
    [dev[d] EXCEPT !.version = v, !.transfer = None, !.pending = None,
                   !.ready = FALSE, !.spoilt = FALSE]

(* The window names the downloaded file, which must exist; the operator puts *)
(* it in the place of the client by hand, and starts it.                     *)
InstallUpdate(d) ==
    /\ Idle(d)
    /\ dev[d].pending # None
    /\ dev[d].ready
    /\ local[d][dev[d].pending.version] # None
    /\ dev' = [dev EXCEPT ![d] = Started(d, dev[d].pending.version)]
    /\ UNCHANGED <<disk, files, releases, stamp, req, local>>

\* The client is closed, or stops in the middle of a download, and starts again.
RestartDevice(d) ==
    /\ dev' = [dev EXCEPT ![d] = Started(d, dev[d].version)]
    /\ UNCHANGED <<disk, files, releases, stamp, req, local>>

-----------------------------------------------------------------------------
Administer(t) ==
    \/ StoreUpload(t) \/ InsertRow(t) \/ HideOthers(t) \/ ReadRelease(t)
    \/ CommitUpload(t) \/ FailUpload(t)
    \/ StorePackages(t) \/ CommitPackages(t) \/ FailPackages(t)

UpdateDevice(d) ==
    \/ CheckUpdate(d) \/ StartDownload(d) \/ FinishDownload(d) \/ CutDownload(d)
    \/ InstallUpdate(d) \/ RestartDevice(d)

Next ==
    \/ \E t \in Thread : Administer(t)
    \/ \E v \in Version : DeleteRelease(v)
    \/ StopServer
    \/ \E d \in Device : UpdateDevice(d)

Spec == Init /\ [][Next]_vars

-----------------------------------------------------------------------------
(* Properties                                                                *)

(* Every row tells the digest of what its file holds, as long as the file is *)
(* there: no upload, of whatever version, writes another build over a file   *)
(* that a row names (the names of services.py:2893-2902 and 3084-3089).      *)
StoredMatchesRecord ==
    \A n \in Stamp :
        files[n] # None /\ disk[files[n].path] # None => disk[files[n].path] = files[n].sha

(* The install button goes with the file whose digest the server had told,   *)
(* although the device never compares it: a check, a download, an upload of  *)
(* another build of that version or a restart in between do not part them.   *)
(* It excepts a transfer that was spoilt (services and window alike take the *)
(* end of the connection for the end of the file) and the older addresses,   *)
(* whose digest is that of the stable executable.                            *)
ReadyMatchesDigest ==
    \A d \in Device :
        /\ dev[d].ready /\ dev[d].transfer = None /\ ~dev[d].spoilt
        /\ dev[d].pending # None
        /\ dev[d].pending.url[1] = "file"
        => local[d][dev[d].pending.version] = dev[d].pending.sha

\* Thread t ends its request having put a new active row into the channel.
Activates(t, c) ==
    /\ req[t] # None
    /\ req'[t] = None
    /\ \/ req[t].kind = "upload" /\ req[t].channel = c /\ req[t].active
       \/ req[t].kind = "package" /\ c = "stable" /\ req[t].packs # {}

(* What the devices of a channel are offered changes only with an active     *)
(* upload to that channel: not with an upload to the other one, an inactive  *)
(* one, one that fails, or a release that is deleted                         *)
(* (services.py:2935-2942; tests/test_web_admin_auth.py:310).  A channel     *)
(* without a file is offered a release record.                               *)
ChannelIndependence ==
    [][\A c \in Channel :
        RowsOf(c) # {} /\ OffersOf(c)' # OffersOf(c) => \E t \in Thread : Activates(t, c)]_<<files, releases>>

(* A channel that has an active file keeps one, in whatever order uploads    *)
(* overlap: two that deactivate each other's rows do not leave it with none  *)
(* (services.py:2935-2942).                                                  *)
OfferSurvives ==
    [][\A c \in Channel : ActiveRows(c) # {} => ActiveRows(c)' # {}]_<<files, releases>>

=============================================================================
