---------------------------- MODULE IndexImport ----------------------------
(***************************************************************************)
(* ImportRepository against a repository that is being republished         *)
(* (engine/import.go, engine/adopt.go, formats/*/repository.go).           *)
(*                                                                         *)
(* The repository is somebody else's and no request locks it: its root     *)
(* document (Release, repomd.xml), its index and the pool behind every     *)
(* mirror are files, and each moves from one revision to the next on its   *)
(* own.  An import reads them one after the other.  What it records is a   *)
(* digest and a claim about how the digest was established.                *)
(*                                                                         *)
(* A digest of a document is the document; a file is named by its place in *)
(* the order of file names.  A name, a version and an architecture are     *)
(* one with the file name made of them.  When the session's lock reaches   *)
(* the disk is module LockCommands' matter; here it does at the end.       *)
(***************************************************************************)
EXTENDS Integers, Sequences, FiniteSets

CONSTANTS
  None,
  Formats,      \* the formats a repository of the workspace may have
  Upstream,     \* the revisions of the repository, in order
  Mirrors,      \* where artifacts are fetched from; the repository itself is Home
  Home,
  Requests,     \* what the operator may ask for
  Held,         \* artifacts the lock may hold before, added by hand
  MaxImports, MaxFaults    \* bounds

VARIABLES
  format,       \* of the configured repository
  request,      \* ImportRepositoryRequest
  served,       \* the revision each upstream file is at
  lock,         \* the blobs of the lock: file, digest, origin, provenance
  import,       \* the running import
  imports, faults

vars == <<format, request, served, lock, import, imports, faults>>

Idle == [at |-> "idle"]

Init ==
  /\ format \in Formats /\ request \in Requests
  /\ served = [root |-> 1, index |-> 1, pool |-> [m \in Mirrors |-> 1]]
  /\ lock \in {{}, Held}
  /\ import = Idle /\ imports = 0 /\ faults = 0

-----------------------------------------------------------------------------
(* The publisher replaces one file by its next revision.                   *)
Republish ==
  /\ \/ served.root < Len(Upstream) /\ served' = [served EXCEPT !.root = @ + 1]
     \/ served.index < Len(Upstream) /\ served' = [served EXCEPT !.index = @ + 1]
     \/ \E m \in Mirrors :
          /\ served.pool[m] < Len(Upstream)
          /\ served' = [served EXCEPT !.pool[m] = @ + 1]
  /\ UNCHANGED <<format, request, lock, import, imports, faults>>

(* An index of revision n: for Debian one for every component and          *)
(* architecture, in several encodings; for the others one for the whole.   *)
Whole == <<"", "">>
Body(n, key, encoding) == [entries |-> Upstream[n].entries[key], encoding |-> encoding]

(* What its URL answers while revision n is served.                        *)
Answer(n, key, encoding) ==
  IF /\ key \in DOMAIN Upstream[n].entries
     /\ format = "deb" => <<key, encoding>> \in Upstream[n].paths
     /\ format = "rpm" => encoding = Upstream[n].encoding
    THEN Body(n, key, encoding)
    ELSE None

-----------------------------------------------------------------------------
(* How strongly a digest was established: provenanceStrength, a map whose  *)
(* missing keys read as zero.                                              *)
Strength ==
  [computed |-> 1, indexStated |-> 2, indexChain |-> 3, operator |-> 4, signedIndex |-> 5]

AtLeast(provenance, floor) ==
  (IF provenance = None THEN 0 ELSE Strength[provenance]) >= Strength[floor]

importable(entry, urls, provenance, ambiguous) ==
  [file |-> entry.file, urls |-> urls, sha |-> entry.sha, provenance |-> provenance,
   ambiguous |-> ambiguous]

(* An index as the parsers return it: entries, or None for one refused.    *)
Elements(s) == {s[i] : i \in DOMAIN s}
Repeated(s) == \E i, j \in DOMAIN s : i # j /\ s[i].file = s[j].file
Firsts(s) == {i \in DOMAIN s : \A j \in 1 .. i - 1 : s[j].file # s[i].file}

(* A file named twice refuses the whole page.                              *)
ParseSimpleProject(s) == IF Repeated(s) THEN None ELSE s

importPyPIFiles(s) ==
  {importable(e, <<Home>>, "indexStated", FALSE) : e \in {x \in Elements(s) : x.supported}}

(* A chart needs a digest and a URL; one named twice is marked, every time.*)
ParseRepositoryIndex(s) ==
  IF \E e \in Elements(s) : e.sha = None \/ e.urls = << >> THEN None ELSE s

importHelmFiles(s) ==
  {IF \E j \in DOMAIN s \ {i} : s[j].file = s[i].file
     THEN [file |-> s[i].file, urls |-> << >>, sha |-> None, provenance |-> None, ambiguous |-> TRUE]
     ELSE importable(s[i], s[i].urls, "indexStated", FALSE) : i \in DOMAIN s}

(* A package without a digest or named twice refuses the index, as does an *)
(* index that names none.                                                  *)
ParseRepositoryPackages(s) ==
  IF s = << >> \/ Repeated(s) \/ \E e \in Elements(s) : e.sha = None THEN None ELSE s

debFiles(s) == {importable(e, <<Home>>, "indexChain", FALSE) : e \in Elements(s)}

(* The first of several entries is kept, and marked when another disagrees *)
(* with it: about the SHA-256 in primary.xml, about the SHA-1 of the       *)
(* control section in APKINDEX.                                            *)
ParsePrimary(s) ==
  {[file |-> s[i].file, sha |-> s[i].sha,
    ambiguous |-> \E j \in DOMAIN s : s[j].file = s[i].file /\ s[j].sha # s[i].sha] : i \in Firsts(s)}

importRPMFiles(s) ==
  {importable(e, <<Home>>, "indexChain", e.ambiguous) : e \in ParsePrimary(s)}

ParseIndexEntries(s) ==
  {[file |-> s[i].file, sha |-> None,
    ambiguous |-> \E j \in DOMAIN s : s[j].file = s[i].file /\ s[j].control # s[i].control] : i \in Firsts(s)}

importAPKFiles(s) ==
  {importable(e, <<Home>>, "computed", e.ambiguous) : e \in ParseIndexEntries(s)}

(* ParseRepositoryRelease: a Release that lists nothing is refused.        *)
ParseRepositoryRelease(root) == IF root.paths = {} THEN None ELSE root

(* findReleaseFile: the first encoding that Release lists.                 *)
Encodings == <<"xz", "gz", "plain", "zst">>
findReleaseFile(root, key) ==
  LET listed == {i \in DOMAIN Encodings : <<key, Encodings[i]>> \in root.paths}
  IN IF listed = {} THEN None
     ELSE Encodings[CHOOSE i \in listed : \A j \in listed : i <= j]

(* DecompressPrimary knows gzip and none.                                  *)
DecompressPrimary(encoding) == encoding \in {"gz", "plain"}

(* The component and the architecture asked for, or the first that Release *)
(* names; "all" is nobody's machine.                                       *)
Machines(root) == SelectSeq(root.architectures, LAMBDA a : a # "all")
FirstOf(asked, s) == IF asked # None THEN asked ELSE IF s = << >> THEN None ELSE Head(s)
Selected(root) ==
  <<FirstOf(request.component, root.components), FirstOf(request.architecture, Machines(root))>>

-----------------------------------------------------------------------------
Stop == import' = Idle

(* ImportRepository up to its first request.                               *)
ImportRepository ==
  /\ import = Idle /\ imports < MaxImports
  /\ imports' = imports + 1
  /\ CASE format = "raw" -> Stop                                 \* no enumerator
       [] format \in {"pypi", "deb"} /\ ~request.selected -> Stop   \* --project, --suite
       [] format \in {"deb", "rpm"} -> import' = [at |-> "root"]
       [] OTHER -> import' = [at |-> "index", key |-> Whole, encoding |-> "plain", stated |-> None]
  /\ UNCHANGED <<format, request, served, lock, faults>>

(* A request for a document fails, answers anything but 200 or is cut      *)
(* short, or the import is cancelled between two files: nothing is flushed.*)
GiveUp ==
  /\ import.at \in {"root", "index", "files"} /\ faults < MaxFaults
  /\ faults' = faults + 1
  /\ Stop
  /\ UNCHANGED <<format, request, served, lock, imports>>

(* importDebFiles reads Release for the index to read and its digest.      *)
ReadRelease ==
  LET root == ParseRepositoryRelease(Upstream[served.root])
      key == Selected(root)
      encoding == findReleaseFile(root, key)
  IN /\ import.at = "root" /\ format = "deb"
     /\ IF root = None \/ None \in {key[1], key[2]} \/ encoding = None
          THEN Stop
          ELSE import' = [at |-> "index", key |-> key, encoding |-> encoding,
                          stated |-> Body(served.root, key, encoding)]
     /\ UNCHANGED <<format, request, served, lock, imports, faults>>

(* importRPMFiles reads repomd.xml; one without a SHA-256 for primary.xml  *)
(* gives no chain to check.                                                *)
ReadRepomd ==
  LET root == Upstream[served.root]
  IN /\ import.at = "root" /\ format = "rpm"
     /\ IF root.primary = "sha256"
          THEN import' = [at |-> "index", key |-> Whole, encoding |-> root.encoding,
                          stated |-> Body(served.root, Whole, root.encoding)]
          ELSE Stop
     /\ UNCHANGED <<format, request, served, lock, imports, faults>>

(* Mutation: an index is read as long as it is the one that was listed.    *)
chainedByName(stated, body) == stated.encoding = body.encoding

(* The size and the SHA-256 the root document states hold for the index.   *)
chained(stated, body) == stated = body

(* The artifacts an index names, or None when it is refused.               *)
Enumerated(body) ==
  CASE format = "pypi" ->
         IF Upstream[served.index].name = "other" \/ ParseSimpleProject(body.entries) = None
           THEN None ELSE importPyPIFiles(body.entries)
    [] format = "helm" ->
         IF ParseRepositoryIndex(body.entries) = None THEN None ELSE importHelmFiles(body.entries)
    [] format = "deb" ->
         IF ~chained(import.stated, body) \/ ParseRepositoryPackages(body.entries) = None
           THEN None ELSE debFiles(body.entries)
    [] format = "rpm" ->
         IF ~chained(import.stated, body) \/ ~DecompressPrimary(body.encoding)
           THEN None ELSE importRPMFiles(body.entries)
    [] OTHER -> importAPKFiles(body.entries)

(* The index is fetched and enumerated, and the adopt session is opened.   *)
ReadIndex ==
  /\ import.at = "index"
  /\ LET body == Answer(served.index, import.key, import.encoding)
         files == IF body = None THEN None ELSE Enumerated(body)
     IN IF files = None
          THEN Stop
          ELSE import' = [at |-> "files", listed |-> files, todo |-> files, tried |-> 0,
                          mem |-> lock, imported |-> {}, skipped |-> {}]
  /\ UNCHANGED <<format, request, served, lock, imports, faults>>

-----------------------------------------------------------------------------
(* Files are taken in the order of their names.                            *)
Current(file) == file \in import.todo /\ \A other \in import.todo : file.file <= other.file

Skip(file) ==
  import' = [import EXCEPT !.todo = @ \ {file}, !.skipped = @ \cup {file}, !.tried = 0]

(* Named twice, not pinned, pinned too weakly, or beyond the limit.        *)
Passed(file) ==
  \/ file.ambiguous
  \/ file.sha = None /\ file.provenance # "computed"
  \/ request.floor # None /\ ~AtLeast(file.provenance, request.floor)
  \/ request.limit > 0 /\ Cardinality(import.imported) >= request.limit

PassOver(file) ==
  /\ import.at = "files" /\ Current(file)
  /\ Passed(file)
  /\ Skip(file)
  /\ UNCHANGED <<format, request, served, lock, imports, faults>>

(* AddBlob and SetBlobOrigin, for a blob that is not bound otherwise.      *)
Of(blobs, file) == {b \in blobs : b.file = file}
Recordable(blobs, blob) ==
  \A b \in Of(blobs, blob.file) : b.sha = blob.sha /\ (b.origin = None \/ b = blob)

(* adoptFirstReachable: a URL that fails leaves the next one to be tried.  *)
NextURL(file) ==
  IF import.tried + 1 < Len(file.urls)
    THEN import' = [import EXCEPT !.tried = @ + 1]
    ELSE Skip(file)

(* AdoptArtifact: what arrives is held to the digest the index states, if  *)
(* it states one, and is recorded with the URL it came from.               *)
Adopt(file) ==
  LET url == file.urls[import.tried + 1]
      arrived == Upstream[served.pool[url]].files[file.file]
      blob == [file |-> file.file, sha |-> arrived, origin |-> url, provenance |-> file.provenance]
      good == /\ arrived # None
              /\ file.provenance # "computed" => arrived = file.sha
              /\ Recordable(import.mem, blob)
  IN /\ import.at = "files" /\ Current(file)
     /\ ~Passed(file)
     /\ IF good
          THEN import' = [import EXCEPT !.todo = @ \ {file}, !.imported = @ \cup {blob}, !.tried = 0,
                                        !.mem = (@ \ Of(@, file.file)) \cup {blob}]
          ELSE NextURL(file)
     /\ UNCHANGED <<format, request, served, lock, imports, faults>>

AdoptFails(file) ==
  /\ import.at = "files" /\ Current(file)
  /\ ~Passed(file)
  /\ faults < MaxFaults
  /\ faults' = faults + 1
  /\ NextURL(file)
  /\ UNCHANGED <<format, request, served, lock, imports>>

(* The result, after the last flush; a dry run writes nothing.             *)
Finish ==
  /\ import.at = "files" /\ import.todo = {}
  /\ lock' = IF request.dryRun THEN lock ELSE import.mem
  /\ import' = [import EXCEPT !.at = "done"]
  /\ UNCHANGED <<format, request, served, imports, faults>>

Return ==
  /\ import.at = "done"
  /\ Stop
  /\ UNCHANGED <<format, request, served, lock, imports, faults>>

Named == IF import.at = "files" THEN import.todo ELSE {}

Next ==
  \/ Republish \/ ImportRepository \/ GiveUp \/ ReadRelease \/ ReadRepomd \/ ReadIndex
  \/ \E file \in Named : PassOver(file) \/ Adopt(file) \/ AdoptFails(file)
  \/ Finish \/ Return

Spec == Init /\ [][Next]_vars

-----------------------------------------------------------------------------
(* An index of revision n states that the file has these bytes, and no     *)
(* other entry of it says otherwise.                                       *)
States(n, blob) ==
  \E key \in DOMAIN Upstream[n].entries :
    LET about == {e \in Elements(Upstream[n].entries[key]) : e.file = blob.file}
    IN /\ about # {}
       /\ IF blob.provenance = "computed"
            THEN \A e, f \in about : e.control = f.control
            ELSE \A e \in about : e.sha = blob.sha

(* What the lock says about a digest is true of the repository it was      *)
(* imported from, whatever was republished between the requests:           *)
(* index-chain, that a root document which was served names an index which *)
(* states it; index-stated, that an index which was served states it;      *)
(* computed, that the format states none.  The recorded origin did serve   *)
(* those bytes, and no claim is below the floor the operator set.  A       *)
(* finished import accounts for every file it listed and keeps to the      *)
(* limit.                                                                  *)
PinsTrue ==
  /\ \A b \in lock \ Held :
       /\ b.provenance = "computed" <=> format = "apk"
       /\ \E n \in 1 .. (IF b.provenance = "indexChain" THEN served.root ELSE served.index) :
            States(n, b)
       /\ \E n \in 1 .. served.pool[b.origin] : Upstream[n].files[b.file] = b.sha
       /\ request.floor # None => AtLeast(b.provenance, request.floor)
       /\ ~request.dryRun
  /\ import.at = "done" =>
       /\ {f.file : f \in import.listed} = {f.file : f \in import.imported \cup import.skipped}
       /\ request.limit > 0 => Cardinality(import.imported) <= request.limit
       /\ ~request.dryRun => import.imported \subseteq lock
=============================================================================
