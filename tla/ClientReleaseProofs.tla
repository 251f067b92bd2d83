------------------------- MODULE ClientReleaseProofs -------------------------
(***************************************************************************)
(* Theorems of ClientRelease: its types, that a row tells the digest of    *)
(* its file and the install button goes with what was offered, and that a  *)
(* channel keeps its own offer, for any number of overlapping requests.    *)
(***************************************************************************)
EXTENDS ClientRelease, TLAPS

-----------------------------------------------------------------------------
(* Names of files                                                           *)

LEMMA StoredNamePath ==
    ASSUME NEW c \in Channel, NEW v \in Version, NEW b \in Build
    PROVE  /\ StoredName(c, v, b) \in Path
           /\ StoredName(c, v, b)[1] = "update"
           /\ StoredName(c, v, b)[2] = c
           /\ StoredName(c, v, b)[4] = b
BY DEF StoredName, Path

LEMMA PackageNamePath ==
    ASSUME NEW n \in Stamp
    PROVE  /\ PackageName(n) \in Path /\ PackageName(n)[1] = "package"
           /\ PackageName(n)[2] = n
           /\ \A m \in Stamp : PackageName(m) = PackageName(n) => m = n
BY DEF PackageName, Path

LEMMA ReleaseNamePath ==
    ASSUME NEW v \in Version, NEW c \in Channel
    PROVE  /\ ReleaseName(v, c) \in Path
           /\ ReleaseName(v, c)[1] = "release"
           /\ ReleaseName(v, c)[3] = c
BY DEF ReleaseName, Path

-----------------------------------------------------------------------------
(* The inductive invariant                                                  *)

\* An upload's file holds what its name says, whoever stored it.
DiskGood ==
    \A p \in Path : p[1] = "update" => disk[p] \in {None, [build |-> p[4], form |-> p[2]]}

FromUpload(n) ==
    \E b \in Build : /\ files[n].path = StoredName(files[n].channel, files[n].version, b)
                     /\ files[n].sha = [build |-> b, form |-> files[n].channel]

FromPackage(n) == files[n].path = PackageName(n) /\ disk[PackageName(n)] = files[n].sha

RowsGood ==
    \A n \in Stamp : files[n] # None => n <= stamp /\ (FromUpload(n) \/ FromPackage(n))

\* The rows a request will insert.
Slots(q) ==
    IF q.kind = "upload" THEN IF q.stage = "stored" THEN {} ELSE {q.at}
    ELSE {PackAt(q.at, q.packs, k) : k \in q.packs}

\* The rows are still to come; an upload hides rows of its channel only, and the
\* packages of a call lie where its rows will say.
RequestGood(q) ==
    /\ \A n \in Slots(q) : n \in Stamp /\ n <= stamp /\ files[n] = None
    /\ q.kind = "upload" =>
         /\ \A n \in q.hides : files[n] # None /\ files[n].channel = q.channel
         /\ ~q.active => q.hides = {}
    /\ q.kind = "package" =>
         \A n \in Slots(q) : disk[PackageName(n)] = [build |-> q.build, form |-> "zip"]

Apart ==
    \A t, u \in Thread : t # u /\ req[t] # None /\ req[u] # None =>
        Slots(req[t]) \cap Slots(req[u]) = {}

RequestsGood == Apart /\ \A t \in Thread : req[t] # None => RequestGood(req[t])

\* A device was offered what a row still says, and is sent what that row's file held.
OfferedByRow(o) ==
    o.url[1] = "file" =>
        /\ o.url[2] \in Stamp /\ files[o.url[2]] # None
        /\ files[o.url[2]].sha = o.sha

DeviceGood(d) ==
    /\ dev[d].pending # None => OfferedByRow(dev[d].pending)
    /\ dev[d].transfer # None =>
         /\ dev[d].pending # None
         /\ dev[d].pending.url[1] = "file" => dev[d].transfer.content = dev[d].pending.sha

DevicesGood == \A d \in Device : DeviceGood(d)

IInv ==
    /\ TypeOK /\ DiskGood /\ RowsGood /\ RequestsGood /\ DevicesGood /\ ReadyMatchesDigest

-----------------------------------------------------------------------------
(* What the invariant gives                                                 *)

\* Every row tells what its file holds.
LEMMA RowsTellFiles ==
    ASSUME IInv
    PROVE  StoredMatchesRecord
<1> SUFFICES ASSUME NEW n \in Stamp, files[n] # None, disk[files[n].path] # None
             PROVE  disk[files[n].path] = files[n].sha
    BY DEF StoredMatchesRecord
<1>0. files[n] \in Row /\ files[n].channel \in Channel /\ files[n].version \in Version
    BY DEF IInv, TypeOK, Row
<1>1. CASE FromPackage(n)
    BY <1>1 DEF FromPackage
<1>2. CASE FromUpload(n)
    <2>1. PICK b \in Build :
              /\ files[n].path = StoredName(files[n].channel, files[n].version, b)
              /\ files[n].sha = [build |-> b, form |-> files[n].channel]
        BY <1>2 DEF FromUpload
    <2>2. /\ files[n].path \in Path /\ files[n].path[1] = "update"
          /\ files[n].path[2] = files[n].channel /\ files[n].path[4] = b
        BY <2>1, <1>0, StoredNamePath
    <2>3. disk[files[n].path] \in {None, [build |-> files[n].path[4], form |-> files[n].path[2]]}
        BY <2>2 DEF IInv, DiskGood
    <2>4. QED
        BY <2>1, <2>2, <2>3
<1>3. QED
    BY <1>1, <1>2 DEF IInv, RowsGood

LEMMA InitGood ==
    ASSUME Init
    PROVE  IInv
<1>1. TypeOK
    <2>1. dev \in [Device -> Running]
        <3> SUFFICES ASSUME NEW i \in Installed
                     PROVE  [channel |-> i[1], version |-> i[2], pending |-> None, transfer |-> None,
                             ready |-> FALSE, spoilt |-> FALSE] \in Running
            BY DEF Init
        <3>1. i[1] \in Channel /\ i[2] \in Version
            BY InstalledAssumption
        <3>2. FALSE \in BOOLEAN
            OBVIOUS
        <3>3. QED
            BY <3>1, <3>2 DEF Running
    <2>2. QED
        BY <2>1, StampAssumption DEF Init, TypeOK
<1>2. DiskGood /\ RowsGood /\ RequestsGood
    BY DEF Init, DiskGood, RowsGood, RequestsGood, Apart
<1>3. \A d \in Device : dev[d].pending = None /\ dev[d].transfer = None
    BY DEF Init
<1>4. DevicesGood /\ ReadyMatchesDigest
    BY <1>3 DEF DevicesGood, DeviceGood, ReadyMatchesDigest
<1>5. QED
    BY <1>1, <1>2, <1>4 DEF IInv

\* The rows that are there stay, and say the same of their files.
RowsStay ==
    \A n \in Stamp : files[n] # None => /\ files'[n] # None
                                        /\ files'[n].channel = files[n].channel
                                        /\ files'[n].sha = files[n].sha

\* A request of the server leaves what the devices know true.
LEMMA ServerKeepsDevices ==
    ASSUME IInv, RowsStay, UNCHANGED <<dev, local>>
    PROVE  DevicesGood' /\ ReadyMatchesDigest'
<1>1. ReadyMatchesDigest'
    BY DEF IInv, ReadyMatchesDigest
<1>2. ASSUME NEW d \in Device PROVE DeviceGood(d)'
    <2>1. DeviceGood(d)
        BY DEF IInv, DevicesGood
    <2>2. QED
        BY <2>1 DEF DeviceGood, OfferedByRow, RowsStay
<1>3. QED
    BY <1>1, <1>2 DEF DevicesGood

\* One request moves: the others stay good when only its rows appear, and no package
\* that is stored is lost.
LEMMA RequestsStep ==
    ASSUME IInv, NEW t \in Thread,
           \A u \in Thread \ {t} : req'[u] = req[u],
           stamp' \in Nat, stamp <= stamp', RowsStay,
           \A n \in Stamp : files[n] = None /\ files'[n] # None =>
               req[t] # None /\ n \in Slots(req[t]),
           \A n \in Stamp : n <= stamp => disk'[PackageName(n)] = disk[PackageName(n)],
           (req[t] # None => RequestGood(req[t]))',
           req'[t] # None =>
               \A n \in Slots(req'[t]) : n > stamp \/ (req[t] # None /\ n \in Slots(req[t]))
    PROVE  RequestsGood'
<1>0. stamp \in Nat /\ RequestsGood
    BY StampAssumption DEF IInv, TypeOK
<1>1. ASSUME NEW u \in Thread, u # t, req[u] # None
      PROVE  RequestGood(req[u])' /\ \A n \in Slots(req[u]) : n \in Stamp /\ n <= stamp
    <2>1. RequestGood(req[u]) /\ req'[u] = req[u]
        BY <1>0, <1>1 DEF RequestsGood
    <2>2. \A n \in Slots(req[u]) : n \in Stamp /\ n <= stamp /\ files[n] = None /\ files'[n] = None
        BY <1>0, <1>1, <2>1 DEF RequestGood, RequestsGood, Apart
    <2>3. \A n \in Slots(req[u]) : n <= stamp'
        BY <2>2, <1>0, StampAssumption DEF Stamp
    <2>4. \A n \in Slots(req[u]) : disk'[PackageName(n)] = disk[PackageName(n)]
        BY <2>2
    <2>5. req[u].kind = "upload" => \A n \in req[u].hides : n \in Stamp
        BY <1>1 DEF IInv, TypeOK, Upload, Package
    <2>6. QED
        BY <2>1, <2>2, <2>3, <2>4, <2>5 DEF RequestGood, RowsStay
<1>2. Apart'
    <2> SUFFICES ASSUME NEW u \in Thread, NEW w \in Thread, u # w, req'[u] # None, req'[w] # None
                 PROVE  Slots(req'[u]) \cap Slots(req'[w]) = {}
        BY DEF Apart
    <2>1. CASE u # t /\ w # t
        BY <2>1, <1>0 DEF RequestsGood, Apart
    <2>2. ASSUME NEW x \in Thread, x # t, req'[x] # None, req'[t] # None
          PROVE  Slots(req'[x]) \cap Slots(req'[t]) = {}
        <3>1. req'[x] = req[x] /\ req[x] # None
            BY <2>2
        <3>2. \A n \in Slots(req[x]) : n \in Nat /\ n <= stamp
            BY <1>1, <2>2, <3>1 DEF Stamp
        <3>3. req[t] # None => Slots(req[x]) \cap Slots(req[t]) = {}
            BY <1>0, <2>2, <3>1 DEF RequestsGood, Apart
        <3>4. \A n \in Slots(req[x]) : n \notin Slots(req'[t])
            BY <1>0, <2>2, <3>2, <3>3
        <3>5. QED
            BY <3>1, <3>4
    <2>3. QED
        BY <2>1, <2>2
<1>3. QED
    BY <1>1, <1>2 DEF RequestsGood

\* No row is written: the rows stay good.
LEMMA RowsKept ==
    ASSUME IInv, UNCHANGED files, stamp' \in Nat, stamp <= stamp',
           \A n \in Stamp : n <= stamp => disk'[PackageName(n)] = disk[PackageName(n)]
    PROVE  RowsGood' /\ RowsStay
<1>0. stamp \in Nat /\ RowsGood
    BY StampAssumption DEF IInv, TypeOK
<1>1. ASSUME NEW n \in Stamp, files'[n] # None
      PROVE  n <= stamp' /\ (FromUpload(n) \/ FromPackage(n))'
    <2>1. n <= stamp /\ (FromUpload(n) \/ FromPackage(n))
        BY <1>0, <1>1 DEF RowsGood
    <2>2. QED
        BY <1>0, <2>1 DEF FromUpload, FromPackage, Stamp
<1>2. QED
    BY <1>1 DEF RowsGood, RowsStay

LEMMA UploadType ==
    ASSUME IInv, NEW t \in Thread, req[t] # None, req[t].kind = "upload"
    PROVE  /\ req[t] \in Upload
           /\ req[t].version \in Version /\ req[t].channel \in Channel
           /\ req[t].build \in Build /\ req[t].active \in BOOLEAN
           /\ req[t].existing \in Release \cup {None}
           /\ RequestGood(req[t])
           /\ req[t].stage # "stored" =>
                /\ Slots(req[t]) = {req[t].at} /\ req[t].at \in Stamp /\ req[t].at <= stamp
                /\ files[req[t].at] = None
<1>1. req[t] \in Upload
    BY DEF IInv, TypeOK, Package
<1>2. RequestGood(req[t])
    BY DEF IInv, RequestsGood
<1>3. QED
    BY <1>1, <1>2 DEF Upload, RequestGood, Slots

LEMMA PackageType ==
    ASSUME IInv, NEW t \in Thread, req[t] # None, req[t].kind = "package"
    PROVE  /\ req[t] \in Package
           /\ req[t].version \in Version /\ req[t].packs \in SUBSET Packs
           /\ req[t].build \in Build /\ req[t].stable \in BOOLEAN /\ req[t].at \in Stamp
           /\ req[t].existing \in Release \cup {None}
           /\ RequestGood(req[t])
           /\ Slots(req[t]) = {PackAt(req[t].at, req[t].packs, k) : k \in req[t].packs}
<1>1. req[t] \in Package
    BY DEF IInv, TypeOK, Upload
<1>2. RequestGood(req[t])
    BY DEF IInv, RequestsGood
<1>3. QED
    BY <1>1, <1>2 DEF Package, Slots

-----------------------------------------------------------------------------
(* An upload                                                                *)

\* What a request of the server must leave good.
LEMMA ServerGood ==
    ASSUME IInv, TypeOK', DiskGood', RowsGood', RowsStay, RequestsGood', UNCHANGED <<dev, local>>
    PROVE  IInv'
BY ServerKeepsDevices DEF IInv

LEMMA StoreUploadGood ==
    ASSUME IInv, NEW t \in Thread, StoreUpload(t)
    PROVE  IInv'
<1>0. /\ stamp \in Nat /\ req \in [Thread -> Upload \cup Package \cup {None}]
      /\ disk \in [Path -> Content \cup {None}] /\ DiskGood
    BY StampAssumption DEF IInv, TypeOK
<1>1. PICK u \in Uploads :
          /\ disk' = [disk EXCEPT ![StoredName(u.channel, u.version, u.build)] =
                         [build |-> u.build, form |-> u.channel]]
          /\ req' = [req EXCEPT ![t] =
                      [kind |-> "upload", stage |-> "stored", version |-> u.version,
                       channel |-> u.channel, build |-> u.build, active |-> u.active,
                       at |-> 0, hides |-> {}, existing |-> None]]
    BY DEF StoreUpload
<1> DEFINE name == StoredName(u.channel, u.version, u.build)
           active == u.active
           r == [kind |-> "upload", stage |-> "stored", version |-> u.version,
                 channel |-> u.channel, build |-> u.build, active |-> active,
                 at |-> 0, hides |-> {}, existing |-> None]
<1>2. u.version \in Version /\ u.channel \in Channel /\ u.build \in Build /\ active \in BOOLEAN
    BY UploadsAssumption
<1>3. req' = [req EXCEPT ![t] = r]
    BY <1>1
<1> HIDE DEF active
<1>4. r \in Upload /\ r # None /\ r.kind = "upload" /\ r.stage = "stored" /\ r.hides = {}
    BY <1>0, <1>2, NoneAssumption, StampAssumption DEF Upload
<1> HIDE DEF r
<1>5. req' \in [Thread -> Upload \cup Package \cup {None}]
    BY <1>0, <1>3, <1>4
<1>6. UNCHANGED <<files, releases, stamp, dev, local>>
    BY DEF StoreUpload
<1>7. name \in Path /\ name[1] = "update" /\ name[2] = u.channel /\ name[4] = u.build
    BY <1>2, StoredNamePath
<1>8. [build |-> u.build, form |-> u.channel] \in Content
    BY <1>2 DEF Content
<1>9. disk' = [disk EXCEPT ![name] = [build |-> u.build, form |-> u.channel]]
    BY <1>1
<1> HIDE DEF name
<1>10. TypeOK'
    BY <1>0, <1>5, <1>6, <1>8, <1>9 DEF IInv, TypeOK
<1>11. DiskGood'
    BY <1>0, <1>7, <1>9 DEF DiskGood
<1>12. \A n \in Stamp : disk'[PackageName(n)] = disk[PackageName(n)]
    BY <1>0, <1>7, <1>9, PackageNamePath
<1>13. RowsGood' /\ RowsStay
    BY <1>0, <1>6, <1>12, RowsKept
<1>14. Slots(r) = {}
    BY <1>4 DEF Slots
<1>15. RequestGood(r)'
    BY <1>4, <1>14 DEF RequestGood, Slots
<1>16. req'[t] = r /\ \A w \in Thread \ {t} : req'[w] = req[w]
    BY <1>0, <1>3
<1>17. RequestsGood'
    BY <1>0, <1>6, <1>12, <1>13, <1>14, <1>15, <1>16, RequestsStep
<1>18. QED
    BY <1>6, <1>10, <1>11, <1>13, <1>17, ServerGood

\* One thread's request changes and nothing else of the server does, but the time.
LEMMA RequestMoves ==
    ASSUME IInv, NEW t \in Thread, NEW r, req' = [req EXCEPT ![t] = r],
           UNCHANGED <<disk, files, releases, dev, local>>,
           r \in Upload \cup Package \cup {None},
           stamp' \in 0 .. MaxStamp, stamp <= stamp',
           r # None => RequestGood(r)',
           r # None => \A n \in Slots(r) : n > stamp \/ (req[t] # None /\ n \in Slots(req[t]))
    PROVE  IInv'
<1>0. /\ stamp \in Nat /\ req \in [Thread -> Upload \cup Package \cup {None}] /\ DiskGood
      /\ stamp' \in Nat
    BY StampAssumption DEF IInv, TypeOK
<1>1. TypeOK'
    BY <1>0 DEF IInv, TypeOK
<1>2. DiskGood'
    BY <1>0 DEF DiskGood
<1>3. RowsGood' /\ RowsStay
    BY <1>0, RowsKept
<1>4. req'[t] = r /\ \A w \in Thread \ {t} : req'[w] = req[w]
    BY <1>0
<1>5. (req[t] # None => RequestGood(req[t]))'
    BY <1>4 DEF RequestGood
<1>6. RequestsGood'
    BY <1>0, <1>3, <1>4, <1>5, RequestsStep
<1>7. QED
    BY <1>1, <1>2, <1>3, <1>6, ServerGood

\* A record of this shape keeps it when two of its fields are set.
LEMMA FieldsSet ==
    ASSUME NEW S, NEW V, NEW C, NEW B, NEW A, NEW T, NEW H, NEW X,
           NEW q \in [kind : {"upload"}, stage : S, version : V, channel : C, build : B,
                      active : A, at : T, hides : H, existing : X],
           NEW s \in S, NEW n \in T, NEW h \in H, NEW x \in X
    PROVE  /\ [q EXCEPT !.stage = s, !.at = n] \in
                  [kind : {"upload"}, stage : S, version : V, channel : C, build : B,
                   active : A, at : T, hides : H, existing : X]
           /\ [q EXCEPT !.stage = s, !.hides = h] \in
                  [kind : {"upload"}, stage : S, version : V, channel : C, build : B,
                   active : A, at : T, hides : H, existing : X]
           /\ [q EXCEPT !.stage = s, !.existing = x] \in
                  [kind : {"upload"}, stage : S, version : V, channel : C, build : B,
                   active : A, at : T, hides : H, existing : X]
OBVIOUS

\* The fields that are not set stay.
LEMMA FieldsKept ==
    ASSUME NEW S, NEW V, NEW C, NEW B, NEW A, NEW T, NEW H, NEW X,
           NEW q \in [kind : {"upload"}, stage : S, version : V, channel : C, build : B,
                      active : A, at : T, hides : H, existing : X],
           NEW s, NEW n, NEW h, NEW x
    PROVE  /\ LET r == [q EXCEPT !.stage = s, !.at = n]
              IN  /\ r.kind = "upload" /\ r.stage = s /\ r.at = n
                  /\ r.hides = q.hides /\ r.channel = q.channel /\ r.active = q.active
           /\ LET r == [q EXCEPT !.stage = s, !.hides = h]
              IN  /\ r.kind = "upload" /\ r.stage = s /\ r.at = q.at
                  /\ r.hides = h /\ r.channel = q.channel /\ r.active = q.active
           /\ LET r == [q EXCEPT !.stage = s, !.existing = x]
              IN  /\ r.kind = "upload" /\ r.stage = s /\ r.at = q.at
                  /\ r.hides = q.hides /\ r.channel = q.channel /\ r.active = q.active
OBVIOUS

LEMMA Inserted ==
    ASSUME NEW q \in Upload, NEW n \in 0 .. MaxStamp
    PROVE  LET r == [q EXCEPT !.stage = "inserted", !.at = n]
           IN  /\ r \in Upload /\ r.kind = "upload" /\ r.stage = "inserted" /\ r.at = n
               /\ r.hides = q.hides /\ r.channel = q.channel /\ r.active = q.active
<1>1. "inserted" \in {"stored", "inserted", "hiding", "read"}
    OBVIOUS
<1>2. q.hides \in SUBSET Stamp /\ q.existing \in Release \cup {None}
    BY DEF Upload
<1>3. QED
    BY <1>1, <1>2, FieldsSet, FieldsKept, Zenon DEF Upload

LEMMA Hiding ==
    ASSUME NEW q \in Upload, NEW h \in SUBSET Stamp
    PROVE  LET r == [q EXCEPT !.stage = "hiding", !.hides = h]
           IN  /\ r \in Upload /\ r.kind = "upload" /\ r.stage = "hiding" /\ r.at = q.at
               /\ r.hides = h /\ r.channel = q.channel /\ r.active = q.active
<1>1. "hiding" \in {"stored", "inserted", "hiding", "read"}
    OBVIOUS
<1>2. q.at \in 0 .. MaxStamp /\ q.existing \in Release \cup {None}
    BY DEF Upload
<1>3. QED
    BY <1>1, <1>2, FieldsSet, FieldsKept, Zenon DEF Upload

LEMMA ReadOver ==
    ASSUME NEW q \in Upload, NEW x \in Release \cup {None}
    PROVE  LET r == [q EXCEPT !.stage = "read", !.existing = x]
           IN  /\ r \in Upload /\ r.kind = "upload" /\ r.stage = "read" /\ r.at = q.at
               /\ r.hides = q.hides /\ r.channel = q.channel /\ r.active = q.active
<1>1. "read" \in {"stored", "inserted", "hiding", "read"}
    OBVIOUS
<1>2. q.at \in 0 .. MaxStamp /\ q.hides \in SUBSET Stamp
    BY DEF Upload
<1>3. QED
    BY <1>1, <1>2, FieldsSet, FieldsKept, Zenon DEF Upload

LEMMA InsertRowGood ==
    ASSUME IInv, NEW t \in Thread, InsertRow(t)
    PROVE  IInv'
<1> PICK r : r = [req[t] EXCEPT !.stage = "inserted", !.at = stamp']
    OBVIOUS
<1>0. stamp \in Nat /\ stamp' = stamp + 1 /\ stamp' \in Stamp /\ MaxStamp \in Nat
    BY StampAssumption DEF InsertRow, IInv, TypeOK, Stamp
<1>1. req[t] \in Upload /\ RequestGood(req[t]) /\ req[t] # None
    BY UploadType DEF InsertRow, Uploading
<1>2. /\ r \in Upload /\ r.kind = "upload" /\ r.stage = "inserted" /\ r.at = stamp'
      /\ r.hides = req[t].hides /\ r.channel = req[t].channel /\ r.active = req[t].active
    <2>1. stamp' \in 0 .. MaxStamp
        BY <1>0 DEF Stamp
    <2>2. QED
        BY <1>1, <2>1, Inserted, ZenonT(40)
<1>3. Slots(r) = {stamp'}
    BY <1>2 DEF Slots
<1>4. files[stamp'] = None
    BY <1>0 DEF IInv, RowsGood
<1>5. req' = [req EXCEPT ![t] = r] /\ UNCHANGED <<disk, files, releases, dev, local>>
    BY <1>0 DEF InsertRow, IInv, TypeOK
<1>6. RequestGood(r)'
    <2>1. \A n \in Slots(r) : n \in Stamp /\ n <= stamp' /\ files[n] = None
        BY <1>0, <1>3, <1>4
    <2>2. \A n \in r.hides : files[n] # None /\ files[n].channel = r.channel
        BY <1>1, <1>2, UploadType DEF RequestGood
    <2>3. ~r.active => r.hides = {}
        BY <1>1, <1>2, UploadType DEF RequestGood
    <2>4. QED
        BY <1>2, <1>5, <2>1, <2>2, <2>3 DEF RequestGood
<1>7. stamp' \in 0 .. MaxStamp /\ stamp <= stamp'
    BY <1>0 DEF Stamp
<1>8. \A n \in Slots(r) : n > stamp
    BY <1>0, <1>3
<1>9. QED
    BY <1>0, <1>2, <1>5, <1>6, <1>7, <1>8, RequestMoves

\* An upload goes on with the row it has: what it hides is all that may have changed.
LEMMA UploadGoesOn ==
    ASSUME IInv, NEW t \in Thread, NEW r \in Upload,
           req[t] # None, req[t].kind = "upload", req[t].stage # "stored", r.stage # "stored",
           req' = [req EXCEPT ![t] = r], UNCHANGED <<disk, files, releases, stamp, dev, local>>,
           r.at = req[t].at,
           \A n \in r.hides : files[n] # None /\ files[n].channel = r.channel,
           ~r.active => r.hides = {}
    PROVE  IInv'
<1>1. Slots(r) = {r.at} /\ r.kind = "upload" /\ Slots(req[t]) = {r.at} /\ r.at \in Stamp
      /\ r.at <= stamp /\ files[r.at] = None
    BY UploadType DEF Slots, Upload
<1>2. RequestGood(r)'
    BY <1>1 DEF RequestGood
<1>3. stamp' \in 0 .. MaxStamp /\ stamp <= stamp'
    BY StampAssumption DEF IInv, TypeOK
<1>4. QED
    BY <1>1, <1>2, <1>3, RequestMoves

LEMMA HideOthersGood ==
    ASSUME IInv, NEW t \in Thread, HideOthers(t)
    PROVE  IInv'
<1> DEFINE h == IF req[t].active THEN RowsOf(req[t].channel) ELSE {}
<1>1. /\ req[t] \in Upload /\ RequestGood(req[t]) /\ req[t] # None
      /\ req[t].kind = "upload" /\ req[t].stage = "inserted" /\ req[t].channel \in Channel
    BY UploadType DEF HideOthers, Uploading
<1>2. h \in SUBSET Stamp /\ (\A n \in h : files[n] # None /\ files[n].channel = req[t].channel)
    BY DEF RowsOf
<1>3. ~req[t].active => h = {}
    OBVIOUS
<1>4. req' = [req EXCEPT ![t].stage = "hiding", ![t].hides = h]
    BY DEF HideOthers
<1> HIDE DEF h
<1> PICK r : r = [req[t] EXCEPT !.stage = "hiding", !.hides = h]
    OBVIOUS
<1>5. req' = [req EXCEPT ![t] = r] /\ UNCHANGED <<disk, files, releases, stamp, dev, local>>
    BY <1>4 DEF HideOthers, IInv, TypeOK
<1>6. /\ r \in Upload /\ r.kind = "upload" /\ r.stage = "hiding" /\ r.at = req[t].at
      /\ r.hides = h /\ r.channel = req[t].channel /\ r.active = req[t].active
    <2>1. req[t] \in Upload
        BY <1>1
    <2>2. h \in SUBSET Stamp
        BY <1>2
    <2>3. QED
        BY <2>1, <2>2, Hiding, ZenonT(40)
<1>7. ~r.active => r.hides = {}
    BY <1>3, <1>6, Zenon
<1>8. \A n \in r.hides : files[n] # None /\ files[n].channel = r.channel
    BY <1>2, <1>6
<1>9. req[t].stage # "stored" /\ r.stage # "stored"
    BY <1>1, <1>6
<1>10. QED
    BY <1>1, <1>5, <1>6, <1>7, <1>8, <1>9, UploadGoesOn, Zenon

LEMMA ReadReleaseGood ==
    ASSUME IInv, NEW t \in Thread, ReadRelease(t)
    PROVE  IInv'
<1> DEFINE x == releases[req[t].version]
<1>1. /\ req[t] \in Upload /\ RequestGood(req[t]) /\ req[t] # None
      /\ req[t].kind = "upload" /\ req[t].stage = "hiding" /\ req[t].version \in Version
    BY UploadType DEF ReadRelease, Uploading
<1>2. x \in Release \cup {None}
    BY <1>1 DEF IInv, TypeOK
<1>3. req' = [req EXCEPT ![t].stage = "read", ![t].existing = x]
    BY DEF ReadRelease
<1> HIDE DEF x
<1> PICK r : r = [req[t] EXCEPT !.stage = "read", !.existing = x]
    OBVIOUS
<1>4. req' = [req EXCEPT ![t] = r] /\ UNCHANGED <<disk, files, releases, stamp, dev, local>>
    BY <1>3 DEF ReadRelease, IInv, TypeOK
<1>5. /\ r \in Upload /\ r.kind = "upload" /\ r.stage = "read" /\ r.at = req[t].at
      /\ r.hides = req[t].hides /\ r.channel = req[t].channel /\ r.active = req[t].active
    BY <1>1, <1>2, ReadOver, Zenon
<1>6. \A n \in req[t].hides : files[n] # None /\ files[n].channel = req[t].channel
    BY <1>1, Zenon DEF RequestGood
<1>7. ~req[t].active => req[t].hides = {}
    BY <1>1, Zenon DEF RequestGood
<1>8. ~r.active => r.hides = {}
    BY <1>5, <1>7, Zenon
<1>9. \A n \in r.hides : files[n] # None /\ files[n].channel = r.channel
    BY <1>5, <1>6
<1>10. req[t].stage # "stored" /\ r.stage # "stored"
    BY <1>1, <1>5
<1>11. QED
    BY <1>1, <1>4, <1>5, <1>8, <1>9, <1>10, UploadGoesOn, Zenon

LEMMA FailPackagesGood ==
    ASSUME IInv, NEW t \in Thread, FailPackages(t)
    PROVE  IInv'
<1>1. stamp' \in 0 .. MaxStamp /\ stamp <= stamp'
    BY StampAssumption DEF FailPackages, IInv, TypeOK
<1>2. QED
    BY <1>1, RequestMoves DEF FailPackages

LEMMA FailUploadGood ==
    ASSUME IInv, NEW t \in Thread, FailUpload(t)
    PROVE  IInv'
<1> DEFINE name == StoredName(req[t].channel, req[t].version, req[t].build)
<1>0. /\ stamp \in Nat /\ req \in [Thread -> Upload \cup Package \cup {None}]
      /\ disk \in [Path -> Content \cup {None}] /\ DiskGood
    BY StampAssumption DEF IInv, TypeOK
<1>1. name \in Path /\ name[1] = "update"
    BY UploadType, StoredNamePath DEF FailUpload
<1>2. /\ disk' = [disk EXCEPT ![name] = None] /\ req' = [req EXCEPT ![t] = None]
      /\ UNCHANGED <<files, releases, stamp, dev, local>>
    BY DEF FailUpload
<1> HIDE DEF name
<1>3. TypeOK'
    BY <1>0, <1>2 DEF IInv, TypeOK
<1>4. DiskGood'
    BY <1>0, <1>2 DEF DiskGood
<1>5. \A n \in Stamp : disk'[PackageName(n)] = disk[PackageName(n)]
    BY <1>0, <1>1, <1>2, PackageNamePath
<1>6. RowsGood' /\ RowsStay
    BY <1>0, <1>2, <1>5, RowsKept
<1>7. req'[t] = None /\ \A w \in Thread \ {t} : req'[w] = req[w]
    BY <1>0, <1>2
<1>8. RequestsGood'
    BY <1>0, <1>2, <1>5, <1>6, <1>7, RequestsStep
<1>9. QED
    BY <1>2, <1>3, <1>4, <1>6, <1>8, ServerGood

LEMMA DeleteReleaseGood ==
    ASSUME IInv, NEW v \in Version, DeleteRelease(v)
    PROVE  IInv'
<1>1. UNCHANGED <<disk, files, stamp, req, dev, local>> /\ stamp \in Nat
    BY StampAssumption DEF DeleteRelease, IInv, TypeOK
<1>2. TypeOK' /\ DiskGood'
    BY DEF DeleteRelease, IInv, TypeOK, DiskGood
<1>3. RowsGood' /\ RowsStay
    BY <1>1, RowsKept
<1>4. RequestsGood'
    BY <1>1 DEF IInv, RequestsGood, Apart, RequestGood
<1>5. QED
    BY <1>1, <1>2, <1>3, <1>4, ServerGood

LEMMA StopServerGood ==
    ASSUME IInv, StopServer
    PROVE  IInv'
<1>1. UNCHANGED <<disk, files, releases, stamp, dev, local>> /\ stamp \in Nat
    BY StampAssumption DEF StopServer, IInv, TypeOK
<1>2. \A t \in Thread : req'[t] = None
    BY DEF StopServer
<1>3. TypeOK' /\ DiskGood'
    BY DEF StopServer, IInv, TypeOK, DiskGood
<1>4. RowsGood' /\ RowsStay
    BY <1>1, RowsKept
<1>5. RequestsGood'
    BY <1>2 DEF RequestsGood, Apart
<1>6. QED
    BY <1>1, <1>3, <1>4, <1>5, ServerGood

\* The record an upload writes.
LEMMA MergedRelease ==
    ASSUME NEW q, NEW e \in Release \cup {None},
           q.channel \in Channel, q.version \in Version, q.build \in Build, q.at \in Stamp
    PROVE  Merged(e, q) \in Release
<1> DEFINE stable == q.channel = "stable" \/ (e # None /\ e.stable)
           path == [c \in Channel |-> IF c = q.channel THEN StoredName(c, q.version, q.build)
                                      ELSE IF e # None THEN e.path[c] ELSE None]
           sha == [c \in Channel |-> IF c = q.channel THEN [build |-> q.build, form |-> c]
                                     ELSE IF e # None THEN e.sha[c] ELSE None]
<1>1. stable \in BOOLEAN
    OBVIOUS
<1>2. path \in [Channel -> Path \cup {None}]
    <2> SUFFICES ASSUME NEW c \in Channel PROVE path[c] \in Path \cup {None}
        OBVIOUS
    <2>1. StoredName(c, q.version, q.build) \in Path
        BY StoredNamePath
    <2>2. e # None => e.path[c] \in Path \cup {None}
        BY DEF Release
    <2>3. QED
        BY <2>1, <2>2
<1>3. sha \in [Channel -> Content \cup {None}]
    <2> SUFFICES ASSUME NEW c \in Channel PROVE sha[c] \in Content \cup {None}
        OBVIOUS
    <2>1. [build |-> q.build, form |-> c] \in Content
        BY DEF Content
    <2>2. e # None => e.sha[c] \in Content \cup {None}
        BY DEF Release
    <2>3. QED
        BY <2>1, <2>2
<1>4. Merged(e, q) = [stable |-> stable, path |-> path, sha |-> sha, date |-> q.at]
    BY DEF Merged
<1> HIDE DEF stable, path, sha
<1>5. QED
    BY <1>1, <1>2, <1>3, <1>4 DEF Release

\* The row an upload writes.
LEMMA RecordedRow ==
    ASSUME NEW q, q.channel \in Channel, q.version \in Version, q.build \in Build,
           q.active \in BOOLEAN
    PROVE  /\ Recorded(q) \in Row
           /\ Recorded(q).channel = q.channel
           /\ Recorded(q).path = StoredName(Recorded(q).channel, Recorded(q).version, q.build)
           /\ Recorded(q).sha = [build |-> q.build, form |-> Recorded(q).channel]
<1> DEFINE active == q.active
           path == StoredName(q.channel, q.version, q.build)
<1>1. path \in Path /\ active \in BOOLEAN /\ [build |-> q.build, form |-> q.channel] \in Content
    BY StoredNamePath DEF Content
<1>2. Recorded(q) = [version |-> q.version, channel |-> q.channel, active |-> active,
                     path |-> path, sha |-> [build |-> q.build, form |-> q.channel]]
    BY DEF Recorded
<1> HIDE DEF active
<1>3. QED
    BY <1>1, <1>2 DEF Row

\* A row that is hidden keeps the rest.
LEMMA HiddenRow ==
    ASSUME NEW V, NEW C, NEW P, NEW S, NEW A, NEW a \in A,
           NEW w \in [version : V, channel : C, path : P, sha : S, active : A]
    PROVE  LET h == [w EXCEPT !.active = a]
           IN  /\ h \in [version : V, channel : C, path : P, sha : S, active : A]
               /\ h.version = w.version /\ h.channel = w.channel
               /\ h.path = w.path /\ h.sha = w.sha
OBVIOUS

LEMMA HiddenIsRow ==
    ASSUME NEW w \in Row
    PROVE  LET h == [w EXCEPT !.active = FALSE]
           IN  /\ h \in Row /\ h.version = w.version /\ h.channel = w.channel
               /\ h.path = w.path /\ h.sha = w.sha
<1>1. FALSE \in BOOLEAN
    OBVIOUS
<1>2. QED
    BY <1>1, HiddenRow, Zenon DEF Row

\* What the rows are after an upload is committed.
LEMMA CommittedRows ==
    ASSUME IInv, NEW t \in Thread, CommitUpload(t)
    PROVE  /\ req[t] # None /\ req[t].at \in Stamp
           /\ files'[req[t].at] = Recorded(req[t])
           /\ \A n \in Stamp \ {req[t].at} :
                  files'[n] = IF n \in req[t].hides THEN [files[n] EXCEPT !.active = FALSE]
                              ELSE files[n]
           /\ \A n \in req[t].hides : n \in Stamp /\ n # req[t].at /\ files[n] \in Row
                                      /\ files[n].channel = req[t].channel
           /\ files[req[t].at] = None
           /\ files' \in [Stamp -> Row \cup {None}]
           /\ Recorded(req[t]) \in Row
           /\ RowsStay
<1>1. /\ req[t] \in Upload /\ RequestGood(req[t]) /\ req[t] # None /\ req[t].kind = "upload"
      /\ req[t].at \in Stamp /\ files[req[t].at] = None
    BY UploadType DEF CommitUpload, Uploading
<1>2. files' = [n \in Stamp |->
                  IF n = req[t].at THEN Recorded(req[t])
                  ELSE IF n \in req[t].hides THEN [files[n] EXCEPT !.active = FALSE]
                  ELSE files[n]]
    BY DEF CommitUpload
<1>3. \A n \in req[t].hides : n \in Stamp /\ n # req[t].at /\ files[n] \in Row
                              /\ files[n].channel = req[t].channel
    BY <1>1 DEF RequestGood, Upload, IInv, TypeOK
<1>4. Recorded(req[t]) \in Row
    BY <1>1, UploadType, RecordedRow
<1>5. /\ files'[req[t].at] = Recorded(req[t])
      /\ \A n \in Stamp \ {req[t].at} :
             files'[n] = IF n \in req[t].hides THEN [files[n] EXCEPT !.active = FALSE]
                         ELSE files[n]
    BY <1>1, <1>2
<1>6. \A n \in Stamp : files'[n] \in Row \cup {None}
    <2> TAKE n \in Stamp
    <2>1. CASE n = req[t].at
        BY <2>1, <1>4, <1>5
    <2>2. CASE n # req[t].at /\ n \in req[t].hides
        BY <2>2, <1>3, <1>5, HiddenIsRow
    <2>3. CASE n # req[t].at /\ n \notin req[t].hides
        BY <2>3, <1>5 DEF IInv, TypeOK
    <2>4. QED
        BY <2>1, <2>2, <2>3
<1>7. files' \in [Stamp -> Row \cup {None}]
    BY <1>2, <1>6
<1>8. RowsStay
    <2> SUFFICES ASSUME NEW n \in Stamp, files[n] # None
                 PROVE  /\ files'[n] # None
                        /\ files'[n].channel = files[n].channel /\ files'[n].sha = files[n].sha
        BY DEF RowsStay
    <2>1. n # req[t].at
        BY <1>1
    <2>2. CASE n \in req[t].hides
        <3>1. files'[n] = [files[n] EXCEPT !.active = FALSE] /\ files[n] \in Row
            BY <2>1, <2>2, <1>3, <1>5
        <3>2. /\ files'[n] \in Row
              /\ files'[n].channel = files[n].channel /\ files'[n].sha = files[n].sha
            BY <3>1, HiddenIsRow
        <3>3. QED
            BY <3>2, NoneAssumption
    <2>3. CASE n \notin req[t].hides
        BY <2>1, <2>3, <1>5
    <2>4. QED
        BY <2>2, <2>3
<1>9. QED
    BY <1>1, <1>3, <1>4, <1>5, <1>7, <1>8

LEMMA CommitUploadGood ==
    ASSUME IInv, NEW t \in Thread, CommitUpload(t)
    PROVE  IInv'
<1>0. /\ stamp \in Nat /\ req \in [Thread -> Upload \cup Package \cup {None}] /\ RowsGood
      /\ files \in [Stamp -> Row \cup {None}]
    BY StampAssumption DEF IInv, TypeOK
<1>1. /\ req[t].version \in Version /\ req[t].channel \in Channel
      /\ req[t].build \in Build /\ req[t].active \in BOOLEAN
      /\ req[t].existing \in Release \cup {None} /\ req[t].at \in Stamp /\ req[t].at <= stamp
      /\ Slots(req[t]) = {req[t].at}
    BY UploadType DEF CommitUpload, Uploading
<1>2. UNCHANGED <<disk, stamp, dev, local>> /\ req' = [req EXCEPT ![t] = None]
    BY DEF CommitUpload
<1>3. TypeOK'
    <2>1. Merged(req[t].existing, req[t]) \in Release
        BY <1>1, MergedRelease
    <2>2. releases' \in [Version -> Release \cup {None}]
        BY <2>1 DEF CommitUpload, Written, IInv, TypeOK
    <2>3. files' \in [Stamp -> Row \cup {None}]
        BY CommittedRows
    <2>4. req' \in [Thread -> Upload \cup Package \cup {None}]
        BY <1>0, <1>2
    <2>5. QED
        BY <1>2, <2>2, <2>3, <2>4 DEF IInv, TypeOK
<1>4. DiskGood'
    BY <1>2 DEF IInv, DiskGood
<1>5. RowsStay
    BY CommittedRows
<1>6. ASSUME NEW n \in Stamp, files'[n] # None
      PROVE  (n <= stamp /\ (FromUpload(n) \/ FromPackage(n)))'
    <2>1. CASE n = req[t].at
        <3>1. files'[n] = Recorded(req[t])
            BY <2>1, CommittedRows
        <3>2. FromUpload(n)'
            BY <1>1, <3>1, RecordedRow DEF FromUpload
        <3>3. QED
            BY <1>1, <1>2, <2>1, <3>2
    <2>2. CASE n # req[t].at /\ n \in req[t].hides
        <3>1. files'[n] = [files[n] EXCEPT !.active = FALSE] /\ files[n] \in Row
            BY <2>2, CommittedRows
        <3>2. /\ files'[n].version = files[n].version /\ files'[n].channel = files[n].channel
              /\ files'[n].path = files[n].path /\ files'[n].sha = files[n].sha
            BY <3>1, HiddenIsRow
        <3>3. n <= stamp /\ (FromUpload(n) \/ FromPackage(n))
            BY <1>0, <3>1, NoneAssumption DEF RowsGood
        <3>4. QED
            BY <1>2, <3>2, <3>3 DEF FromUpload, FromPackage
    <2>3. CASE n # req[t].at /\ n \notin req[t].hides
        <3>1. files'[n] = files[n]
            BY <2>3, CommittedRows
        <3>2. n <= stamp /\ (FromUpload(n) \/ FromPackage(n))
            BY <1>0, <1>6, <3>1 DEF RowsGood
        <3>3. QED
            BY <1>2, <3>1, <3>2 DEF FromUpload, FromPackage
    <2>4. QED
        BY <2>1, <2>2, <2>3
<1>7. RowsGood'
    BY <1>6 DEF RowsGood
<1>8. req'[t] = None /\ \A w \in Thread \ {t} : req'[w] = req[w]
    BY <1>0, <1>2
<1>9. \A n \in Stamp : files[n] = None /\ files'[n] # None =>
          req[t] # None /\ n \in Slots(req[t])
    <2> SUFFICES ASSUME NEW n \in Stamp, files[n] = None, n # req[t].at
                 PROVE  files'[n] = None
        BY <1>1, CommittedRows
    <2>1. n \notin req[t].hides
        BY CommittedRows, NoneAssumption
    <2>2. QED
        BY <2>1, CommittedRows
<1>10. RequestsGood'
    BY <1>0, <1>2, <1>5, <1>8, <1>9, RequestsStep
<1>11. QED
    BY <1>2, <1>3, <1>4, <1>5, <1>7, <1>10, ServerGood

-----------------------------------------------------------------------------
(* The older interface                                                      *)

\* The slots of a call that is stored now come after all others.
LEMMA SlotsOf ==
    ASSUME NEW n \in Nat, NEW m \in Nat, NEW packs \in SUBSET Packs,
           m = n + (IF packs = Packs THEN 2 ELSE 1), NEW k \in packs
    PROVE  PackAt(n + 1, packs, k) \in Nat
           /\ PackAt(n + 1, packs, k) > n /\ PackAt(n + 1, packs, k) <= m
<1>1. CASE k = "debug_file" /\ "release_file" \in packs
    <2>1. packs = Packs
        BY <1>1 DEF Packs
    <2>2. m = n + 2 /\ PackAt(n + 1, packs, k) = (n + 1) + 1
        BY <1>1, <2>1 DEF PackAt
    <2>3. QED
        BY <2>2
<1>2. CASE ~(k = "debug_file" /\ "release_file" \in packs)
    <2>1. PackAt(n + 1, packs, k) = n + 1
        BY <1>2 DEF PackAt
    <2>2. m = n + 1 \/ m = n + 2
        OBVIOUS
    <2>3. QED
        BY <2>1, <2>2
<1>3. QED
    BY <1>1, <1>2

LEMMA StorePackagesGood ==
    ASSUME IInv, NEW t \in Thread, StorePackages(t)
    PROVE  IInv'
<1>0. /\ stamp \in Nat /\ req \in [Thread -> Upload \cup Package \cup {None}] /\ DiskGood
      /\ disk \in [Path -> Content \cup {None}] /\ MaxStamp \in Nat
    BY StampAssumption DEF IInv, TypeOK
<1>1. PICK q \in Calls :
          /\ stamp' = stamp + (IF q.packs = Packs THEN 2 ELSE 1)
          /\ stamp' <= MaxStamp
          /\ disk' = [p \in Path |->
                  IF \E k \in q.packs : p = PackageName(PackAt(stamp + 1, q.packs, k))
                  THEN [build |-> q.build, form |-> "zip"]
                  ELSE IF \E c \in Extracted(q.packs, q.both) : p = ReleaseName(q.version, c)
                  THEN [build |-> q.build, form |-> p[3]]
                  ELSE disk[p]]
          /\ req' = [req EXCEPT ![t] =
                      [kind |-> "package", version |-> q.version, packs |-> q.packs,
                       both |-> q.both, stable |-> q.stable, build |-> q.build,
                       at |-> stamp + 1, existing |-> releases[q.version]]]
    BY DEF StorePackages
<1>2. UNCHANGED <<files, releases, dev, local>>
    BY DEF StorePackages
<1> DEFINE both == q.both
           stable == q.stable
           x == releases[q.version]
<1>3. /\ q.version \in Version /\ q.packs \in SUBSET Packs /\ q.build \in Build
      /\ both \in BOOLEAN /\ stable \in BOOLEAN
    BY CallsAssumption
<1>4. stamp' \in Nat /\ stamp' \in 0 .. MaxStamp /\ stamp <= stamp' /\ stamp + 1 \in Stamp
    BY <1>0, <1>1 DEF Stamp
<1>5. x \in Release \cup {None}
    BY <1>3 DEF IInv, TypeOK
<1> PICK r : r = [kind |-> "package", version |-> q.version, packs |-> q.packs,
                  both |-> both, stable |-> stable, build |-> q.build,
                  at |-> stamp + 1, existing |-> x]
    OBVIOUS
<1>6. req' = [req EXCEPT ![t] = r]
    BY <1>1
<1> HIDE DEF both, stable, x
<1>7. /\ r \in Package /\ r.kind = "package" /\ r.packs = q.packs /\ r.at = stamp + 1
      /\ r.build = q.build
    BY <1>3, <1>4, <1>5 DEF Package
<1>8. Slots(r) = {PackAt(stamp + 1, q.packs, k) : k \in q.packs}
    BY <1>7 DEF Slots
<1>9. \A n \in Slots(r) : n \in Stamp /\ n > stamp /\ n <= stamp'
    <2> SUFFICES ASSUME NEW k \in q.packs
                 PROVE  LET n == PackAt(stamp + 1, q.packs, k)
                        IN  n \in Stamp /\ n > stamp /\ n <= stamp'
        BY <1>8
    <2> DEFINE n == PackAt(stamp + 1, q.packs, k)
    <2>1. n \in Nat /\ n > stamp /\ n <= stamp'
        BY <1>0, <1>1, <1>3, <1>4, SlotsOf
    <2> HIDE DEF n
    <2>2. n \in Stamp
        BY <2>1, <1>0, <1>4 DEF Stamp
    <2>3. QED
        BY <2>1, <2>2 DEF n
<1>10. \A n \in Slots(r) : disk'[PackageName(n)] = [build |-> q.build, form |-> "zip"]
    BY <1>1, <1>8, <1>9, PackageNamePath
<1>11. \A n \in Stamp : n <= stamp => disk'[PackageName(n)] = disk[PackageName(n)]
    <2> SUFFICES ASSUME NEW n \in Stamp, n <= stamp
                 PROVE  disk'[PackageName(n)] = disk[PackageName(n)]
        OBVIOUS
    <2>1. PackageName(n) \in Path /\ PackageName(n)[1] = "package"
        BY PackageNamePath
    <2>2. ASSUME NEW k \in q.packs PROVE PackageName(n) # PackageName(PackAt(stamp + 1, q.packs, k))
        <3>1. /\ PackAt(stamp + 1, q.packs, k) \in Stamp
              /\ PackAt(stamp + 1, q.packs, k) > stamp
            BY <1>8, <1>9
        <3>2. PackAt(stamp + 1, q.packs, k) # n
            BY <3>1, <1>0 DEF Stamp
        <3>3. QED
            BY <3>1, <3>2, PackageNamePath
    <2>3. ASSUME NEW c \in Extracted(q.packs, q.both) PROVE PackageName(n) # ReleaseName(q.version, c)
        BY <1>3, <2>1, ReleaseNamePath DEF Extracted
    <2>4. QED
        BY <1>1, <2>1, <2>2, <2>3
<1>12. disk' \in [Path -> Content \cup {None}]
    <2> SUFFICES ASSUME NEW p \in Path PROVE disk'[p] \in Content \cup {None}
        BY <1>1
    <2>1. CASE \E k \in q.packs : p = PackageName(PackAt(stamp + 1, q.packs, k))
        BY <1>1, <1>3, <2>1 DEF Content
    <2>2. CASE /\ ~\E k \in q.packs : p = PackageName(PackAt(stamp + 1, q.packs, k))
               /\ \E c \in Extracted(q.packs, q.both) : p = ReleaseName(q.version, c)
        <3>1. p[3] \in Channel
            BY <2>2, <1>3, ReleaseNamePath DEF Extracted
        <3>2. disk'[p] = [build |-> q.build, form |-> p[3]]
            BY <1>1, <2>2
        <3>3. QED
            BY <1>3, <3>1, <3>2 DEF Content
    <2>3. CASE /\ ~\E k \in q.packs : p = PackageName(PackAt(stamp + 1, q.packs, k))
               /\ ~\E c \in Extracted(q.packs, q.both) : p = ReleaseName(q.version, c)
        BY <1>0, <1>1, <2>3
    <2>4. QED
        BY <2>1, <2>2, <2>3
<1>13. TypeOK'
    BY <1>0, <1>2, <1>4, <1>6, <1>7, <1>12 DEF IInv, TypeOK
<1>14. DiskGood'
    <2> SUFFICES ASSUME NEW p \in Path, p[1] = "update"
                 PROVE  disk'[p] \in {None, [build |-> p[4], form |-> p[2]]}
        BY DEF DiskGood
    <2>1. \A k \in q.packs : p # PackageName(PackAt(stamp + 1, q.packs, k))
        BY <1>8, <1>9, PackageNamePath
    <2>2. \A c \in Extracted(q.packs, q.both) : p # ReleaseName(q.version, c)
        BY <1>3, ReleaseNamePath DEF Extracted
    <2>3. disk'[p] = disk[p]
        BY <1>1, <2>1, <2>2
    <2>4. QED
        BY <1>0, <2>3 DEF DiskGood
<1>15. RowsGood' /\ RowsStay
    BY <1>2, <1>4, <1>11, RowsKept
<1>16. RequestGood(r)'
    <2>1. \A n \in Slots(r) : files[n] = None
        BY <1>0, <1>9 DEF IInv, RowsGood, Stamp
    <2>2. QED
        BY <1>2, <1>7, <1>9, <1>10, <2>1 DEF RequestGood
<1>17. req'[t] = r /\ \A w \in Thread \ {t} : req'[w] = req[w]
    BY <1>0, <1>6
<1>18. (req[t] # None => RequestGood(req[t]))'
    BY <1>16, <1>17 DEF RequestGood
<1>19. RequestsGood'
    BY <1>2, <1>4, <1>9, <1>11, <1>15, <1>17, <1>18, RequestsStep
<1>20. QED
    BY <1>2, <1>13, <1>14, <1>15, <1>19, ServerGood

\* The record a call of the older interface writes.
LEMMA RepackedRelease ==
    ASSUME NEW q, NEW e \in Release \cup {None},
           q.version \in Version, q.build \in Build, q.at \in Stamp, q.stable \in BOOLEAN
    PROVE  Repacked(e, q) \in Release
<1> DEFINE new == Extracted(q.packs, q.both)
           stable == q.stable
           path == [c \in Channel |-> IF c \in new THEN ReleaseName(q.version, c)
                                      ELSE IF e # None THEN e.path[c] ELSE None]
           sha == [c \in Channel |-> IF c \in new THEN [build |-> q.build, form |-> c]
                                     ELSE IF e # None THEN e.sha[c] ELSE None]
<1>1. stable \in BOOLEAN
    OBVIOUS
<1>2. path \in [Channel -> Path \cup {None}]
    <2> SUFFICES ASSUME NEW c \in Channel PROVE path[c] \in Path \cup {None}
        OBVIOUS
    <2>1. ReleaseName(q.version, c) \in Path
        BY ReleaseNamePath
    <2>2. e # None => e.path[c] \in Path \cup {None}
        BY DEF Release
    <2>3. QED
        BY <2>1, <2>2
<1>3. sha \in [Channel -> Content \cup {None}]
    <2> SUFFICES ASSUME NEW c \in Channel PROVE sha[c] \in Content \cup {None}
        OBVIOUS
    <2>1. [build |-> q.build, form |-> c] \in Content
        BY DEF Content
    <2>2. e # None => e.sha[c] \in Content \cup {None}
        BY DEF Release
    <2>3. QED
        BY <2>1, <2>2
<1>4. Repacked(e, q) = [stable |-> stable, path |-> path, sha |-> sha, date |-> q.at]
    BY DEF Repacked
<1> HIDE DEF stable, path, sha
<1>5. QED
    BY <1>1, <1>2, <1>3, <1>4 DEF Release

\* What the rows are after a call of the older interface is committed.
LEMMA PackedRows ==
    ASSUME IInv, NEW t \in Thread, CommitPackages(t)
    PROVE  /\ req[t] # None
           /\ \A n \in Slots(req[t]) :
                /\ n \in Stamp /\ n <= stamp /\ files[n] = None
                /\ files'[n].channel = "stable"
                /\ files'[n].path = PackageName(n)
                /\ files'[n].sha = [build |-> req[t].build, form |-> "zip"]
                /\ files'[n] \in Row
                /\ disk[PackageName(n)] = [build |-> req[t].build, form |-> "zip"]
           /\ \A n \in Stamp \ Slots(req[t]) : files'[n] = files[n]
           /\ files' \in [Stamp -> Row \cup {None}]
           /\ RowsStay
<1>1. /\ req[t] \in Package /\ RequestGood(req[t]) /\ req[t] # None /\ req[t].kind = "package"
      /\ req[t].version \in Version /\ req[t].build \in Build
      /\ Slots(req[t]) = {PackAt(req[t].at, req[t].packs, k) : k \in req[t].packs}
    BY PackageType DEF CommitPackages
<1>2. files' = [n \in Stamp |->
                  IF n \in Slots(req[t])
                  THEN [version |-> req[t].version, channel |-> "stable", active |-> TRUE,
                        path |-> PackageName(n), sha |-> [build |-> req[t].build, form |-> "zip"]]
                  ELSE files[n]]
    BY <1>1 DEF CommitPackages
<1>3. ASSUME NEW n \in Slots(req[t])
      PROVE  /\ n \in Stamp /\ n <= stamp /\ files[n] = None
             /\ files'[n].channel = "stable"
             /\ files'[n].path = PackageName(n)
             /\ files'[n].sha = [build |-> req[t].build, form |-> "zip"]
             /\ files'[n] \in Row
             /\ disk[PackageName(n)] = [build |-> req[t].build, form |-> "zip"]
    <2>1. n \in Stamp /\ n <= stamp /\ files[n] = None
          /\ disk[PackageName(n)] = [build |-> req[t].build, form |-> "zip"]
        BY <1>1, <1>3 DEF RequestGood
    <2>2. files'[n] = [version |-> req[t].version, channel |-> "stable", active |-> TRUE,
                       path |-> PackageName(n),
                       sha |-> [build |-> req[t].build, form |-> "zip"]]
        BY <1>2, <1>3, <2>1
    <2>3. PackageName(n) \in Path /\ [build |-> req[t].build, form |-> "zip"] \in Content
          /\ "stable" \in Channel
        BY <1>1, <2>1, PackageNamePath DEF Content, Channel
    <2> DEFINE active == TRUE
    <2>4. /\ active \in BOOLEAN
          /\ files'[n] = [version |-> req[t].version, channel |-> "stable", active |-> active,
                          path |-> PackageName(n),
                          sha |-> [build |-> req[t].build, form |-> "zip"]]
        BY <2>2
    <2> HIDE DEF active
    <2>5. /\ files'[n] \in Row /\ files'[n].channel = "stable" /\ files'[n].path = PackageName(n)
          /\ files'[n].sha = [build |-> req[t].build, form |-> "zip"]
        BY <1>1, <2>3, <2>4 DEF Row
    <2>6. QED
        BY <2>1, <2>5
<1>4. \A n \in Stamp \ Slots(req[t]) : files'[n] = files[n]
    BY <1>2
<1>5. files' \in [Stamp -> Row \cup {None}]
    <2>1. \A n \in Stamp : files'[n] \in Row \cup {None}
        BY <1>3, <1>4 DEF IInv, TypeOK
    <2>2. QED
        BY <1>2, <2>1
<1>6. RowsStay
    BY <1>3, <1>4 DEF RowsStay
<1>7. QED
    BY <1>1, <1>3, <1>4, <1>5, <1>6

LEMMA CommitPackagesGood ==
    ASSUME IInv, NEW t \in Thread, CommitPackages(t)
    PROVE  IInv'
<1>0. /\ stamp \in Nat /\ req \in [Thread -> Upload \cup Package \cup {None}] /\ RowsGood
    BY StampAssumption DEF IInv, TypeOK
<1>1. /\ req[t].version \in Version /\ req[t].build \in Build /\ req[t].stable \in BOOLEAN
      /\ req[t].existing \in Release \cup {None} /\ req[t].at \in Stamp
    BY PackageType DEF CommitPackages
<1>2. UNCHANGED <<disk, stamp, dev, local>> /\ req' = [req EXCEPT ![t] = None]
    BY DEF CommitPackages
<1>3. TypeOK'
    <2>1. Repacked(req[t].existing, req[t]) \in Release
        BY <1>1, RepackedRelease
    <2>2. releases' \in [Version -> Release \cup {None}]
        BY <2>1 DEF CommitPackages, Written, IInv, TypeOK
    <2>3. files' \in [Stamp -> Row \cup {None}]
        BY PackedRows
    <2>4. req' \in [Thread -> Upload \cup Package \cup {None}]
        BY <1>0, <1>2
    <2>5. QED
        BY <1>2, <2>2, <2>3, <2>4 DEF IInv, TypeOK
<1>4. DiskGood'
    BY <1>2 DEF IInv, DiskGood
<1>5. RowsStay
    BY PackedRows
<1>6. ASSUME NEW n \in Stamp, files'[n] # None
      PROVE  (n <= stamp /\ (FromUpload(n) \/ FromPackage(n)))'
    <2>1. CASE n \in Slots(req[t])
        <3>1. /\ n <= stamp /\ files'[n].path = PackageName(n)
              /\ files'[n].sha = disk[PackageName(n)]
            BY <2>1, PackedRows, ZenonT(40)
        <3>2. QED
            BY <1>2, <3>1 DEF FromPackage
    <2>2. CASE n \notin Slots(req[t])
        <3>1. files'[n] = files[n]
            BY <2>2, PackedRows
        <3>2. n <= stamp /\ (FromUpload(n) \/ FromPackage(n))
            BY <1>0, <1>6, <3>1 DEF RowsGood
        <3>3. QED
            BY <1>2, <3>1, <3>2 DEF FromUpload, FromPackage
    <2>3. QED
        BY <2>1, <2>2
<1>7. RowsGood'
    BY <1>6 DEF RowsGood
<1>8. req'[t] = None /\ \A w \in Thread \ {t} : req'[w] = req[w]
    BY <1>0, <1>2
<1>9. \A n \in Stamp : files[n] = None /\ files'[n] # None =>
          req[t] # None /\ n \in Slots(req[t])
    BY PackedRows
<1>10. RequestsGood'
    BY <1>0, <1>2, <1>5, <1>8, <1>9, RequestsStep
<1>11. QED
    BY <1>2, <1>3, <1>4, <1>5, <1>7, <1>10, ServerGood

-----------------------------------------------------------------------------
(* A device                                                                 *)

\* A device's record keeps its shape when its fields are set.
LEMMA DeviceFieldsSet ==
    ASSUME NEW C, NEW V, NEW P, NEW T, NEW R, NEW S,
           NEW q \in [channel : C, version : V, pending : P, transfer : T, ready : R, spoilt : S],
           NEW v \in V, NEW p \in P, NEW x \in T, NEW r \in R, NEW s \in S
    PROVE  /\ [q EXCEPT !.pending = p, !.ready = r] \in
                  [channel : C, version : V, pending : P, transfer : T, ready : R, spoilt : S]
           /\ [q EXCEPT !.transfer = x] \in
                  [channel : C, version : V, pending : P, transfer : T, ready : R, spoilt : S]
           /\ [q EXCEPT !.transfer = x, !.ready = r, !.spoilt = s] \in
                  [channel : C, version : V, pending : P, transfer : T, ready : R, spoilt : S]
           /\ [q EXCEPT !.transfer = x, !.spoilt = s, !.ready = r] \in
                  [channel : C, version : V, pending : P, transfer : T, ready : R, spoilt : S]
           /\ [q EXCEPT !.version = v, !.transfer = x, !.pending = p, !.ready = r, !.spoilt = s] \in
                  [channel : C, version : V, pending : P, transfer : T, ready : R, spoilt : S]
OBVIOUS

LEMMA DeviceFieldsKept ==
    ASSUME NEW C, NEW V, NEW P, NEW T, NEW R, NEW S,
           NEW q \in [channel : C, version : V, pending : P, transfer : T, ready : R, spoilt : S],
           NEW v, NEW p, NEW x, NEW r, NEW s
    PROVE  /\ LET w == [q EXCEPT !.pending = p, !.ready = r]
              IN  w.pending = p /\ w.ready = r /\ w.transfer = q.transfer
           /\ LET w == [q EXCEPT !.transfer = x]
              IN  w.pending = q.pending /\ w.transfer = x
           /\ LET w == [q EXCEPT !.transfer = x, !.ready = r, !.spoilt = s]
              IN  w.pending = q.pending /\ w.transfer = x /\ w.spoilt = s
           /\ LET w == [q EXCEPT !.transfer = x, !.spoilt = s, !.ready = r]
              IN  w.pending = q.pending /\ w.transfer = x /\ w.spoilt = s
           /\ LET w == [q EXCEPT !.version = v, !.transfer = x, !.pending = p, !.ready = r, !.spoilt = s]
              IN  w.pending = p /\ w.transfer = x
OBVIOUS

\* One device moves, and nothing of the server.
LEMMA DeviceMoves ==
    ASSUME IInv, NEW d \in Device, NEW w \in Running, dev' = [dev EXCEPT ![d] = w],
           UNCHANGED <<disk, files, releases, stamp, req>>,
           local' \in [Device -> [Version -> Content \cup {None, Broken}]],
           \A e \in Device \ {d} : local'[e] = local[e],
           w.pending # None => OfferedByRow(w.pending),
           w.transfer # None =>
               /\ w.pending # None
               /\ w.pending.url[1] = "file" => w.transfer.content = w.pending.sha,
           /\ w.ready /\ w.transfer = None /\ ~w.spoilt
           /\ w.pending # None /\ w.pending.url[1] = "file"
           => local'[d][w.pending.version] = w.pending.sha
    PROVE  IInv'
<1>0. dev \in [Device -> Running]
    BY DEF IInv, TypeOK
<1>1. dev'[d] = w /\ \A e \in Device \ {d} : dev'[e] = dev[e]
    BY <1>0
<1>2. TypeOK' /\ DiskGood'
    BY <1>0 DEF IInv, TypeOK, DiskGood
<1>3. RowsGood' /\ RequestsGood'
    BY DEF IInv, RowsGood, FromUpload, FromPackage, RequestsGood, Apart, RequestGood
<1>4. DevicesGood'
    <2> SUFFICES ASSUME NEW e \in Device PROVE DeviceGood(e)'
        BY DEF DevicesGood
    <2>1. CASE e = d
        BY <1>1, <2>1 DEF DeviceGood, OfferedByRow
    <2>2. CASE e # d
        <3>1. DeviceGood(e) /\ dev'[e] = dev[e]
            BY <1>1, <2>2 DEF IInv, DevicesGood
        <3>2. QED
            BY <3>1 DEF DeviceGood, OfferedByRow
    <2>3. QED
        BY <2>1, <2>2
<1>5. ReadyMatchesDigest'
    <2> SUFFICES ASSUME NEW e \in Device,
                        /\ dev'[e].ready /\ dev'[e].transfer = None /\ ~dev'[e].spoilt
                        /\ dev'[e].pending # None /\ dev'[e].pending.url[1] = "file"
                 PROVE  local'[e][dev'[e].pending.version] = dev'[e].pending.sha
        BY Zenon DEF ReadyMatchesDigest
    <2>1. CASE e = d
        BY <1>1, <2>1, Zenon
    <2>2. CASE e # d
        <3>1. dev'[e] = dev[e] /\ local'[e] = local[e] /\ ReadyMatchesDigest
            BY <1>1, <2>2, Zenon DEF IInv
        <3>2. QED
            BY <3>1, Zenon DEF ReadyMatchesDigest
    <2>3. QED
        BY <2>1, <2>2
<1>6. QED
    BY <1>2, <1>3, <1>4, <1>5 DEF IInv

\* What a channel offers is well formed, and a row still says it.
LEMMA OffersGood ==
    ASSUME IInv, NEW c \in Channel, NEW o \in OffersOf(c)
    PROVE  o \in Offer /\ OfferedByRow(o)
<1>1. CASE RowsOf(c) # {}
    <2>1. PICK n \in Stamp : files[n] # None /\ o = OfRow(n)
        BY <1>1 DEF OffersOf, Latest, ActiveRows, RowsOf
    <2>2. files[n] \in Row /\ files[n].version \in Version /\ files[n].sha \in Content
        BY <2>1 DEF IInv, TypeOK, Row
    <2>3. o.version \in Version /\ o.url = <<"file", n>> /\ o.sha = files[n].sha /\ o \in Offer
        BY <2>1, <2>2 DEF OfRow, Offer, Url
    <2>4. QED
        BY <2>1, <2>3 DEF OfferedByRow
<1>2. CASE RowsOf(c) = {}
    <2>1. PICK v \in Version : releases[v] # None /\ o = OfRelease(v, c)
        BY <1>2 DEF OffersOf, Newest, Records
    <2>2. releases[v].sha["stable"] \in Content \cup {None}
        BY <2>1 DEF IInv, TypeOK, Release, Channel
    <2>3. o.url = <<"release", v, c>> /\ o \in Offer
        BY <2>1, <2>2 DEF OfRelease, Offer, Url
    <2>4. QED
        BY <2>3 DEF OfferedByRow
<1>3. QED
    BY <1>1, <1>2

LEMMA CheckUpdateGood ==
    ASSUME IInv, NEW d \in Device, CheckUpdate(d)
    PROVE  IInv'
<1>1. dev[d] \in Running /\ dev[d].channel \in Channel /\ dev[d].transfer = None
      /\ local \in [Device -> [Version -> Content \cup {None, Broken}]]
    BY DEF IInv, TypeOK, Running, CheckUpdate, Idle
<1>2. PICK o \in OffersOf(dev[d].channel) : dev' = [dev EXCEPT ![d].pending = o, ![d].ready = FALSE]
    BY DEF CheckUpdate
<1>3. o \in Offer /\ OfferedByRow(o)
    BY <1>1, <1>2, OffersGood
<1> DEFINE ready == FALSE
<1>4. ready \in BOOLEAN /\ ~ready
    OBVIOUS
<1> PICK w : w = [dev[d] EXCEPT !.pending = o, !.ready = ready]
    OBVIOUS
<1>5. dev' = [dev EXCEPT ![d] = w] /\ UNCHANGED <<disk, files, releases, stamp, req, local>>
    BY <1>2 DEF CheckUpdate, IInv, TypeOK
<1> HIDE DEF ready
<1>6. w \in Running
    <2>1. dev[d].version \in Version /\ dev[d].transfer \in Transfer \cup {None}
          /\ dev[d].spoilt \in BOOLEAN
        BY <1>1, Zenon DEF Running
    <2>2. o \in Offer \cup {None}
        BY <1>3
    <2>3. QED
        BY <1>1, <1>4, <2>1, <2>2, DeviceFieldsSet, Zenon DEF Running
<1>7. w.pending = o /\ w.ready = ready /\ w.transfer = dev[d].transfer
    BY <1>1, DeviceFieldsKept, Zenon DEF Running
<1>8. w.transfer = None /\ ~w.ready
    BY <1>1, <1>4, <1>7, Zenon
<1>9. OfferedByRow(w.pending) /\ \A e \in Device \ {d} : local'[e] = local[e]
    BY <1>3, <1>5, <1>7
<1>10. local' \in [Device -> [Version -> Content \cup {None, Broken}]]
    BY <1>1, <1>5
<1>11. QED
    BY <1>5, <1>6, <1>8, <1>9, <1>10, DeviceMoves, Zenon

\* The address a device was offered names a file whose content the row tells.
LEMMA NamedFile ==
    ASSUME IInv, NEW d \in Device, dev[d].pending # None, NEW p \in Named(dev[d].pending.url),
           disk[p] # None
    PROVE  /\ p \in Path /\ disk[p] \in Content
           /\ dev[d].pending \in Offer /\ dev[d].pending.version \in Version
           /\ dev[d].pending.url[1] = "file" => disk[p] = dev[d].pending.sha
<1>1. dev[d].pending \in Offer /\ OfferedByRow(dev[d].pending)
    BY DEF IInv, TypeOK, Running, DevicesGood, DeviceGood
<1>2. dev[d].pending.version \in Version
    BY <1>1 DEF Offer
<1>3. CASE dev[d].pending.url[1] = "file"
    <2>1. PICK m \in Stamp : m = dev[d].pending.url[2] /\ files[m] # None /\ p = files[m].path
        BY <1>3 DEF Named
    <2>2. files[m].sha = dev[d].pending.sha
        BY <1>1, <1>3, <2>1 DEF OfferedByRow
    <2>3. p \in Path
        BY <2>1 DEF IInv, TypeOK, Row
    <2>4. disk[p] = files[m].sha
        BY <2>1, RowsTellFiles DEF StoredMatchesRecord
    <2>5. QED
        BY <1>1, <1>2, <2>2, <2>3, <2>4 DEF IInv, TypeOK
<1>4. CASE dev[d].pending.url[1] # "file"
    BY <1>1, <1>2, <1>4 DEF Named, IInv, TypeOK
<1>5. QED
    BY <1>3, <1>4

LEMMA StartDownloadGood ==
    ASSUME IInv, NEW d \in Device, StartDownload(d)
    PROVE  IInv'
<1>1. dev[d] \in Running /\ dev[d].pending # None
      /\ local \in [Device -> [Version -> Content \cup {None, Broken}]]
    BY DEF IInv, TypeOK, StartDownload
<1>2. PICK p \in Named(dev[d].pending.url) :
          disk[p] # None /\ dev' = [dev EXCEPT ![d].transfer = [path |-> p, content |-> disk[p]]]
    BY DEF StartDownload
<1>3. /\ p \in Path /\ disk[p] \in Content
      /\ dev[d].pending \in Offer /\ dev[d].pending.version \in Version
      /\ dev[d].pending.url[1] = "file" => disk[p] = dev[d].pending.sha
    BY <1>1, <1>2, NamedFile
<1>4. [path |-> p, content |-> disk[p]] \in Transfer
    BY <1>3 DEF Transfer
<1> PICK x : x = [path |-> p, content |-> disk[p]]
    OBVIOUS
<1> PICK w : w = [dev[d] EXCEPT !.transfer = x]
    OBVIOUS
<1>5. dev' = [dev EXCEPT ![d] = w] /\ UNCHANGED <<disk, files, releases, stamp, req>>
      /\ local' = [local EXCEPT ![d][dev[d].pending.version] = Broken]
    BY <1>2 DEF StartDownload, IInv, TypeOK
<1>6. w \in Running
    <2>1. dev[d].version \in Version /\ dev[d].pending \in Offer \cup {None}
          /\ dev[d].spoilt \in BOOLEAN /\ dev[d].ready \in BOOLEAN
        BY <1>1, Zenon DEF Running
    <2>2. x \in Transfer \cup {None}
        BY <1>4
    <2>3. QED
        BY <1>1, <2>1, <2>2, DeviceFieldsSet, Zenon DEF Running
<1>7. w.pending = dev[d].pending /\ w.transfer = x
    BY <1>1, DeviceFieldsKept, Zenon DEF Running
<1>8. OfferedByRow(w.pending)
    BY <1>1, <1>7 DEF IInv, DevicesGood, DeviceGood
<1>9. w.pending # None /\ x # None /\ x.content = disk[p]
    BY <1>1, <1>4, <1>7, NoneAssumption
<1>10. /\ local' \in [Device -> [Version -> Content \cup {None, Broken}]]
       /\ \A e \in Device \ {d} : local'[e] = local[e]
    BY <1>1, <1>3, <1>5
<1>11. w.pending.url[1] = "file" => w.transfer.content = w.pending.sha
    BY <1>3, <1>7, <1>9
<1>12. w.transfer # None
    BY <1>7, <1>9
<1>13. QED
    BY <1>5, <1>6, <1>8, <1>9, <1>10, <1>11, <1>12, DeviceMoves, Zenon

\* What a transfer that goes on is of.
LEMMA TransferType ==
    ASSUME IInv, NEW d \in Device, ~Idle(d)
    PROVE  /\ dev[d] \in Running /\ dev[d].transfer # None /\ dev[d].transfer.content \in Content
           /\ dev[d].pending # None /\ dev[d].pending \in Offer
           /\ dev[d].pending.version \in Version /\ OfferedByRow(dev[d].pending)
           /\ dev[d].pending.url[1] = "file" => dev[d].transfer.content = dev[d].pending.sha
<1>1. dev[d] \in Running /\ dev[d].transfer # None
    BY DEF IInv, TypeOK, Idle
<1>2. dev[d].transfer \in Transfer /\ dev[d].pending \in Offer \cup {None}
    BY <1>1 DEF Running
<1>3. DeviceGood(d)
    BY DEF IInv, DevicesGood
<1>4. QED
    BY <1>1, <1>2, <1>3 DEF Transfer, Offer, DeviceGood

LEMMA FinishDownloadGood ==
    ASSUME IInv, NEW d \in Device, FinishDownload(d)
    PROVE  IInv'
<1>1. /\ dev[d] \in Running /\ dev[d].transfer.content \in Content
      /\ dev[d].pending # None /\ dev[d].pending.version \in Version
      /\ OfferedByRow(dev[d].pending)
      /\ dev[d].pending.url[1] = "file" => dev[d].transfer.content = dev[d].pending.sha
    BY TransferType DEF FinishDownload
<1>2. local \in [Device -> [Version -> Content \cup {None, Broken}]]
    BY DEF IInv, TypeOK
<1> DEFINE spoilt == WrittenOver(dev[d].transfer)
           ready == TRUE
           content == IF WrittenOver(dev[d].transfer) THEN Broken ELSE dev[d].transfer.content
<1>3. spoilt \in BOOLEAN /\ ready \in BOOLEAN
    BY DEF WrittenOver
<1>4. content \in Content \cup {None, Broken} /\ (~spoilt => content = dev[d].transfer.content)
    BY <1>1
<1>5. /\ dev' = [dev EXCEPT ![d].transfer = None, ![d].ready = ready, ![d].spoilt = spoilt]
      /\ local' = [local EXCEPT ![d][dev[d].pending.version] = content]
      /\ UNCHANGED <<disk, files, releases, stamp, req>>
    BY DEF FinishDownload
<1> HIDE DEF spoilt, ready, content
<1> PICK w : w = [dev[d] EXCEPT !.transfer = None, !.ready = ready, !.spoilt = spoilt]
    OBVIOUS
<1>6. dev' = [dev EXCEPT ![d] = w]
    BY <1>5 DEF IInv, TypeOK
<1>7. w \in Running
    <2>1. dev[d].version \in Version /\ dev[d].pending \in Offer \cup {None}
        BY <1>1, Zenon DEF Running
    <2>2. None \in Transfer \cup {None}
        OBVIOUS
    <2>3. QED
        BY <1>1, <1>3, <2>1, <2>2, DeviceFieldsSet, Zenon DEF Running
<1>8. w.pending = dev[d].pending /\ w.transfer = None /\ w.spoilt = spoilt
    BY <1>1, DeviceFieldsKept, Zenon DEF Running
<1>9. OfferedByRow(w.pending) /\ w.pending # None
    BY <1>1, <1>8
<1>10. /\ local' \in [Device -> [Version -> Content \cup {None, Broken}]]
       /\ \A e \in Device \ {d} : local'[e] = local[e]
       /\ local'[d][dev[d].pending.version] = content
    BY <1>1, <1>2, <1>4, <1>5
<1>11. ~w.spoilt => content = dev[d].transfer.content
    BY <1>4, <1>8, Zenon
<1>12. ~w.spoilt /\ w.pending.url[1] = "file" => local'[d][w.pending.version] = w.pending.sha
    BY <1>1, <1>8, <1>10, <1>11, Zenon
<1>13. QED
    BY <1>5, <1>6, <1>7, <1>8, <1>9, <1>10, <1>12, DeviceMoves, Zenon

LEMMA CutDownloadGood ==
    ASSUME IInv, NEW d \in Device, CutDownload(d)
    PROVE  IInv'
<1>1. /\ dev[d] \in Running /\ dev[d].pending # None /\ OfferedByRow(dev[d].pending)
      /\ local \in [Device -> [Version -> Content \cup {None, Broken}]]
    BY TransferType DEF CutDownload, IInv, TypeOK
<1>2. PICK closed \in BOOLEAN :
          dev' = [dev EXCEPT ![d].transfer = None, ![d].spoilt = TRUE,
                             ![d].ready = closed \/ dev[d].ready]
    BY DEF CutDownload
<1> DEFINE spoilt == TRUE
           ready == closed \/ dev[d].ready
<1>3. spoilt \in BOOLEAN /\ spoilt /\ ready \in BOOLEAN
    OBVIOUS
<1>4. /\ dev' = [dev EXCEPT ![d].transfer = None, ![d].spoilt = spoilt, ![d].ready = ready]
      /\ UNCHANGED <<disk, files, releases, stamp, req, local>>
    BY <1>2 DEF CutDownload
<1> HIDE DEF spoilt, ready
<1> PICK w : w = [dev[d] EXCEPT !.transfer = None, !.spoilt = spoilt, !.ready = ready]
    OBVIOUS
<1>5. dev' = [dev EXCEPT ![d] = w]
    BY <1>4 DEF IInv, TypeOK
<1>6. w \in Running
    <2>1. dev[d].version \in Version /\ dev[d].pending \in Offer \cup {None}
        BY <1>1, Zenon DEF Running
    <2>2. None \in Transfer \cup {None}
        OBVIOUS
    <2>3. QED
        BY <1>1, <1>3, <2>1, <2>2, DeviceFieldsSet, Zenon DEF Running
<1>7. w.pending = dev[d].pending /\ w.transfer = None /\ w.spoilt = spoilt
    BY <1>1, DeviceFieldsKept, Zenon DEF Running
<1>8. OfferedByRow(w.pending)
    BY <1>1, <1>7
<1>9. w.spoilt
    BY <1>3, <1>7, Zenon
<1>10. /\ local' \in [Device -> [Version -> Content \cup {None, Broken}]]
       /\ \A e \in Device \ {d} : local'[e] = local[e]
    BY <1>1, <1>4
<1>11. QED
    BY <1>4, <1>5, <1>6, <1>7, <1>8, <1>9, <1>10, DeviceMoves, Zenon

\* A client that starts has nothing pending.
LEMMA StartedGood ==
    ASSUME IInv, NEW d \in Device, NEW v \in Version,
           dev' = [dev EXCEPT ![d] = Started(d, v)],
           UNCHANGED <<disk, files, releases, stamp, req, local>>
    PROVE  IInv'
<1>1. dev[d] \in Running /\ local \in [Device -> [Version -> Content \cup {None, Broken}]]
    BY DEF IInv, TypeOK
<1> DEFINE no == FALSE
<1>2. no \in BOOLEAN
    OBVIOUS
<1> PICK w : w = [dev[d] EXCEPT !.version = v, !.transfer = None, !.pending = None,
                               !.ready = no, !.spoilt = no]
    OBVIOUS
<1>3. dev' = [dev EXCEPT ![d] = w]
    BY DEF Started
<1> HIDE DEF no
<1>4. w \in Running
    <2>1. None \in Transfer \cup {None} /\ None \in Offer \cup {None}
        OBVIOUS
    <2>2. QED
        BY <1>1, <1>2, <2>1, DeviceFieldsSet, Zenon DEF Running
<1>5. w.pending = None /\ w.transfer = None
    BY <1>1, DeviceFieldsKept, Zenon DEF Running
<1>6. /\ local' \in [Device -> [Version -> Content \cup {None, Broken}]]
      /\ \A e \in Device \ {d} : local'[e] = local[e]
    BY <1>1
<1>7. QED
    BY <1>3, <1>4, <1>5, <1>6, DeviceMoves, Zenon

LEMMA InstallUpdateGood ==
    ASSUME IInv, NEW d \in Device, InstallUpdate(d)
    PROVE  IInv'
<1>1. dev[d].pending.version \in Version
    BY DEF InstallUpdate, IInv, TypeOK, Running, Offer
<1>2. QED
    BY <1>1, StartedGood DEF InstallUpdate

LEMMA RestartDeviceGood ==
    ASSUME IInv, NEW d \in Device, RestartDevice(d)
    PROVE  IInv'
<1>1. dev[d].version \in Version
    BY DEF IInv, TypeOK, Running
<1>2. QED
    BY <1>1, StartedGood DEF RestartDevice

-----------------------------------------------------------------------------
(* The invariant                                                            *)

LEMMA StepGood ==
    ASSUME IInv, [Next]_vars
    PROVE  IInv'
<1>1. CASE UNCHANGED vars
    BY <1>1 DEF vars, IInv, TypeOK, DiskGood, RowsGood, FromUpload, FromPackage, RequestsGood,
                Apart, RequestGood, DevicesGood, DeviceGood, OfferedByRow, ReadyMatchesDigest
<1>2. ASSUME NEW t \in Thread, Administer(t) PROVE IInv'
    <2>1. CASE StoreUpload(t) \/ InsertRow(t) \/ HideOthers(t) \/ ReadRelease(t)
        BY <2>1, StoreUploadGood, InsertRowGood, HideOthersGood, ReadReleaseGood
    <2>2. CASE CommitUpload(t) \/ FailUpload(t)
        BY <2>2, CommitUploadGood, FailUploadGood
    <2>3. CASE StorePackages(t) \/ CommitPackages(t) \/ FailPackages(t)
        BY <2>3, StorePackagesGood, CommitPackagesGood, FailPackagesGood
    <2>4. QED
        BY <1>2, <2>1, <2>2, <2>3 DEF Administer
<1>3. ASSUME NEW v \in Version, DeleteRelease(v) PROVE IInv'
    BY <1>3, DeleteReleaseGood
<1>4. CASE StopServer
    BY <1>4, StopServerGood
<1>5. ASSUME NEW d \in Device, UpdateDevice(d) PROVE IInv'
    <2>1. CASE CheckUpdate(d) \/ StartDownload(d) \/ FinishDownload(d)
        BY <2>1, CheckUpdateGood, StartDownloadGood, FinishDownloadGood
    <2>2. CASE CutDownload(d) \/ InstallUpdate(d) \/ RestartDevice(d)
        BY <2>2, CutDownloadGood, InstallUpdateGood, RestartDeviceGood
    <2>3. QED
        BY <1>5, <2>1, <2>2 DEF UpdateDevice
<1>6. QED
    BY <1>1, <1>2, <1>3, <1>4, <1>5 DEF Next

\* The invariant holds whatever requests overlap.
THEOREM Invariant == Spec => []IInv
<1>1. Init => IInv
    BY InitGood
<1>2. IInv /\ [Next]_vars => IInv'
    BY StepGood
<1>3. QED
    BY <1>1, <1>2, PTL DEF Spec

\* Every variable has its type.
THEOREM TypeCorrect == Spec => []TypeOK
<1>1. IInv => TypeOK
    BY DEF IInv
<1>2. QED
    BY <1>1, Invariant, PTL

\* No upload writes another build over a file that a row names: every row tells the digest
\* of what its file holds (services.py:2893-2902 and 3084-3089).
THEOREM RowsTellFilesAlways == Spec => []StoredMatchesRecord
<1>1. IInv => StoredMatchesRecord
    BY RowsTellFiles
<1>2. QED
    BY <1>1, Invariant, PTL

\* The install button goes with the file whose digest the server had told, unless the
\* transfer was spoilt (window.py, start_download and the finished handler).
THEOREM ReadyMatchesDigestAlways == Spec => []ReadyMatchesDigest
<1>1. IInv => ReadyMatchesDigest
    BY DEF IInv
<1>2. QED
    BY <1>1, Invariant, PTL

-----------------------------------------------------------------------------
(* What a channel offers                                                    *)

\* Rows are written by the two commits only.
LEMMA WhoWritesRows ==
    ASSUME Next, files' # files
    PROVE  \E t \in Thread : CommitUpload(t) \/ CommitPackages(t)
<1>1. ASSUME NEW t \in Thread, Administer(t) PROVE CommitUpload(t) \/ CommitPackages(t)
    BY <1>1 DEF Administer, StoreUpload, InsertRow, HideOthers, ReadRelease, FailUpload,
                StorePackages, FailPackages
<1>2. \A v \in Version : ~DeleteRelease(v)
    BY DEF DeleteRelease
<1>3. ~StopServer
    BY DEF StopServer
<1>4. ASSUME NEW d \in Device, UpdateDevice(d) PROVE FALSE
    BY <1>4 DEF UpdateDevice, CheckUpdate, StartDownload, FinishDownload, CutDownload,
                InstallUpdate, RestartDevice
<1>5. QED
    BY <1>1, <1>2, <1>3, <1>4 DEF Next

\* The active rows stay and say the same: so does the offer.
LEMMA SameOffers ==
    ASSUME NEW c \in Channel, RowsOf(c) # {},
           \A n \in Stamp : n \in RowsOf(c) => n \in RowsOf(c)',
           ActiveRows(c)' = ActiveRows(c),
           \A n \in ActiveRows(c) : files'[n] = files[n]
    PROVE  OffersOf(c)' = OffersOf(c)
<1>1. RowsOf(c)' # {} /\ RowsOf(c) \subseteq Stamp
    BY DEF RowsOf
<1>2. \A n \in Latest(ActiveRows(c)) : OfRow(n)' = OfRow(n)
    BY DEF Latest, OfRow
<1>3. Latest(ActiveRows(c))' = Latest(ActiveRows(c))
    BY DEF Latest
<1>4. OffersOf(c) = {OfRow(n) : n \in Latest(ActiveRows(c))}
    BY DEF OffersOf
<1>5. OffersOf(c)' = {OfRow(n)' : n \in Latest(ActiveRows(c))'}
    BY <1>1 DEF OffersOf
<1>6. QED
    BY <1>2, <1>3, <1>4, <1>5

\* A row of another channel is committed: the rows of this one stay as they are.
LEMMA OtherChannel ==
    ASSUME IInv, NEW c \in Channel, NEW t \in Thread, CommitUpload(t), req[t].channel # c
    PROVE  /\ RowsOf(c)' = RowsOf(c) /\ ActiveRows(c)' = ActiveRows(c)
           /\ \A n \in RowsOf(c) : files'[n] = files[n]
<1>1. \A n \in RowsOf(c) : n # req[t].at /\ n \notin req[t].hides /\ files'[n] = files[n]
    BY CommittedRows DEF RowsOf
<1>2. Recorded(req[t]).channel # c
    BY DEF Recorded
<1>3. \A n \in Stamp : n \notin RowsOf(c) => n \notin RowsOf(c)'
    <2> SUFFICES ASSUME NEW n \in Stamp, files'[n] # None, files'[n].channel = c
                 PROVE  files[n] # None /\ files[n].channel = c
        BY DEF RowsOf
    <2>1. n # req[t].at
        BY <1>2, CommittedRows
    <2>2. n \notin req[t].hides
        <3> SUFFICES ASSUME n \in req[t].hides PROVE FALSE
            OBVIOUS
        <3>1. files'[n] = [files[n] EXCEPT !.active = FALSE] /\ files[n] \in Row
              /\ files[n].channel = req[t].channel
            BY <2>1, CommittedRows
        <3>2. files'[n].channel = files[n].channel
            BY <3>1, HiddenIsRow
        <3>3. QED
            BY <3>1, <3>2
    <2>3. files'[n] = files[n]
        BY <2>1, <2>2, CommittedRows
    <2>4. QED
        BY <2>3
<1>4. RowsOf(c)' = RowsOf(c)
    BY <1>1, <1>3 DEF RowsOf
<1>5. ActiveRows(c)' = ActiveRows(c)
    BY <1>1, <1>4 DEF ActiveRows
<1>6. QED
    BY <1>1, <1>4, <1>5

\* A row that is not active is committed: what is there stays, and nothing active comes.
LEMMA InactiveRow ==
    ASSUME IInv, NEW c \in Channel, NEW t \in Thread, CommitUpload(t), ~req[t].active
    PROVE  /\ \A n \in RowsOf(c) : n \in RowsOf(c)' /\ files'[n] = files[n]
           /\ ActiveRows(c)' = ActiveRows(c)
<1>1. req[t].hides = {} /\ ~Recorded(req[t]).active /\ req[t].at \in Stamp
    BY UploadType, Zenon DEF CommitUpload, Uploading, RequestGood, Recorded
<1>2. files'[req[t].at] = Recorded(req[t]) /\ files[req[t].at] = None
    BY CommittedRows
<1>3. \A n \in Stamp \ {req[t].at} : files'[n] = files[n]
    BY <1>1, CommittedRows
<1>4. ~files'[req[t].at].active
    BY <1>1, <1>2, Zenon
<1>5. \A n \in RowsOf(c) : n \in RowsOf(c)' /\ files'[n] = files[n]
    BY <1>2, <1>3 DEF RowsOf
<1>6. \A n \in ActiveRows(c)' : n \in ActiveRows(c)
    BY <1>3, <1>4 DEF ActiveRows, RowsOf
<1>7. \A n \in ActiveRows(c) : n \in ActiveRows(c)'
    BY <1>5 DEF ActiveRows
<1>8. QED
    BY <1>5, <1>6, <1>7 DEF ActiveRows, RowsOf

\* Packages are committed, in a channel that is not theirs or without any.
LEMMA NoPackages ==
    ASSUME IInv, NEW c \in Channel, NEW t \in Thread, CommitPackages(t),
           c # "stable" \/ req[t].packs = {}
    PROVE  /\ \A n \in RowsOf(c) : n \in RowsOf(c)' /\ files'[n] = files[n]
           /\ ActiveRows(c)' = ActiveRows(c)
<1>1. \A n \in RowsOf(c) : n \in RowsOf(c)' /\ files'[n] = files[n]
    BY PackedRows DEF RowsOf
<1>2. \A n \in RowsOf(c)' : n \in RowsOf(c) /\ files'[n] = files[n]
    <2> SUFFICES ASSUME NEW n \in Stamp, files'[n] # None, files'[n].channel = c
                 PROVE  n \in RowsOf(c) /\ files'[n] = files[n]
        BY DEF RowsOf
    <2>1. n \notin Slots(req[t])
        <3>1. CASE c # "stable"
            BY <3>1, PackedRows
        <3>2. CASE req[t].packs = {}
            BY <3>2, PackageType DEF CommitPackages
        <3>3. QED
            BY <3>1, <3>2
    <2>2. QED
        BY <2>1, PackedRows DEF RowsOf
<1>3. QED
    BY <1>1, <1>2 DEF ActiveRows

LEMMA IndependentStep ==
    ASSUME IInv, Next, NEW c \in Channel, RowsOf(c) # {}, OffersOf(c)' # OffersOf(c)
    PROVE  \E t \in Thread : Activates(t, c)
<1>1. files' # files
    <2> SUFFICES ASSUME files' = files PROVE OffersOf(c)' = OffersOf(c)
        OBVIOUS
    <2>1. RowsOf(c)' = RowsOf(c) /\ ActiveRows(c)' = ActiveRows(c)
        BY DEF RowsOf, ActiveRows
    <2>2. QED
        BY <2>1, SameOffers
<1>2. PICK t \in Thread : CommitUpload(t) \/ CommitPackages(t)
    BY <1>1, WhoWritesRows
<1>3. CASE CommitUpload(t)
    <2>1. req[t].channel = c
        <3> SUFFICES ASSUME req[t].channel # c PROVE OffersOf(c)' = OffersOf(c)
            OBVIOUS
        <3>1. ActiveRows(c) \subseteq RowsOf(c)
            BY DEF ActiveRows
        <3>2. QED
            BY <1>3, <3>1, OtherChannel, SameOffers
    <2>2. req[t].active
        <3> SUFFICES ASSUME ~req[t].active PROVE OffersOf(c)' = OffersOf(c)
            OBVIOUS
        <3>1. ActiveRows(c) \subseteq RowsOf(c)
            BY DEF ActiveRows
        <3>2. QED
            BY <1>3, <3>1, InactiveRow, SameOffers
    <2>3. req[t] # None /\ req[t].kind = "upload" /\ req'[t] = None
        BY <1>3 DEF CommitUpload, Uploading, IInv, TypeOK
    <2>4. QED
        BY <2>1, <2>2, <2>3, Zenon DEF Activates
<1>4. CASE CommitPackages(t)
    <2>1. c = "stable" /\ req[t].packs # {}
        <3> SUFFICES ASSUME c # "stable" \/ req[t].packs = {} PROVE OffersOf(c)' = OffersOf(c)
            OBVIOUS
        <3>1. ActiveRows(c) \subseteq RowsOf(c)
            BY DEF ActiveRows
        <3>2. QED
            BY <1>4, <3>1, NoPackages, SameOffers
    <2>2. req[t] # None /\ req[t].kind = "package" /\ req'[t] = None
        BY <1>4 DEF CommitPackages, IInv, TypeOK
    <2>3. QED
        BY <2>1, <2>2, Zenon DEF Activates
<1>5. QED
    BY <1>2, <1>3, <1>4

\* What a channel that has a file offers changes only when a request that brings it an
\* active row commits (services.py:2935-2942).
THEOREM ChannelIndependenceAlways == Spec => ChannelIndependence
<1>1. IInv /\ [Next]_vars =>
          [\A c \in Channel :
              RowsOf(c) # {} /\ OffersOf(c)' # OffersOf(c) =>
                  \E t \in Thread : Activates(t, c)]_<<files, releases>>
    BY IndependentStep DEF vars
<1>2. QED
    BY <1>1, Invariant, PTL DEF Spec, ChannelIndependence

LEMMA SurvivingStep ==
    ASSUME IInv, Next, NEW c \in Channel, ActiveRows(c) # {}
    PROVE  ActiveRows(c)' # {}
<1>1. CASE files' = files
    BY <1>1 DEF ActiveRows, RowsOf
<1>2. CASE files' # files
    <2>1. PICK t \in Thread : CommitUpload(t) \/ CommitPackages(t)
        BY <1>2, WhoWritesRows
    <2>2. CASE CommitUpload(t) /\ req[t].channel # c
        BY <2>2, OtherChannel
    <2>3. CASE CommitUpload(t) /\ ~req[t].active
        BY <2>3, InactiveRow
    <2>4. CASE CommitUpload(t) /\ req[t].channel = c /\ req[t].active
        <3>1. /\ req[t].at \in Stamp /\ files'[req[t].at] = Recorded(req[t])
              /\ Recorded(req[t]) # None
            BY <2>4, CommittedRows, NoneAssumption
        <3>2. Recorded(req[t]).channel = c /\ Recorded(req[t]).active
            BY <2>4, Zenon DEF Recorded
        <3>3. req[t].at \in RowsOf(c)'
            BY <3>1, <3>2 DEF RowsOf
        <3>4. files'[req[t].at].active
            BY <3>1, <3>2, Zenon
        <3>5. QED
            BY <3>3, <3>4 DEF ActiveRows
    <2>5. CASE CommitPackages(t)
        <3>1. \A n \in RowsOf(c) : n \in RowsOf(c)' /\ files'[n] = files[n]
            BY <2>5, PackedRows DEF RowsOf
        <3>2. QED
            BY <3>1 DEF ActiveRows
    <2>6. QED
        BY <2>1, <2>2, <2>3, <2>4, <2>5
<1>3. QED
    BY <1>1, <1>2

\* A channel that has an active file keeps one, in whatever order uploads overlap
\* (services.py:2935-2942).
THEOREM OfferSurvivesAlways == Spec => OfferSurvives
<1>1. IInv /\ [Next]_vars =>
          [\A c \in Channel : ActiveRows(c) # {} => ActiveRows(c)' # {}]_<<files, releases>>
    BY SurvivingStep DEF vars
<1>2. QED
    BY <1>1, Invariant, PTL DEF Spec, OfferSurvives
=============================================================================
