--------------------------- MODULE PackageUpdates ---------------------------
(***************************************************************************)
(* internal/debversion and internal/collector/pkgupdates: which packages,  *)
(* plugins and images have an update.  Versions are sequences of           *)
(* characters.  One package, one plugin and one image stand for all, since *)
(* each is looked at by itself; the sources are read one after the other.  *)
(***************************************************************************)
EXTENDS Integers, Sequences, SequencesExt

CONSTANTS
  Versions,     \* Debian versions
  Weight,       \* character -> its ASCII code
  PackageLists, \* what a list of apt may say of the package: its stanzas
  Digests,      \* digests of an image and versions of a plugin
  MaxLists      \* bound on the package lists of apt

VARIABLES
  source,       \* the source Collect is reading
  status,       \* what dpkg says of the package
  installed,    \* its version
  lists,        \* the lists read so far, in order
  candidate,    \* the best version found, <<>> while there is none
  registry,     \* where the exchange with the registry stands
  digest,       \* the digest it gave
  items         \* what is reported

updateVars == <<source, status, installed, lists, candidate, registry, digest, items>>

None == "none"

-----------------------------------------------------------------------------
Digit == {"0", "1", "2", "3", "4", "5", "6", "7", "8", "9"}
Letter == {"a", "b", "c"}

\* charOrder, the end of a run being the empty string.
charOrder(c) ==
  CASE c = "~"         -> -1
    [] c = ""          -> 0
    [] c \in Letter    -> Weight[c]
    [] OTHER           -> Weight[c] + 256

At(s, k) == IF k <= Len(s) THEN s[k] ELSE ""
Sign(a, b) == IF a < b THEN -1 ELSE IF a > b THEN 1 ELSE 0

\* The first place in 1 .. n where the two differ decides.
FirstDifference(n, Differs(_), Result(_)) ==
  IF \E k \in 1 .. n : Differs(k)
    THEN Result(CHOOSE k \in 1 .. n : Differs(k) /\ \A m \in 1 .. k - 1 : ~Differs(m))
    ELSE 0

compareNonDigitRun(a, b) ==
  LET order(s, k) == charOrder(At(s, k))
  IN  FirstDifference(IF Len(a) > Len(b) THEN Len(a) ELSE Len(b),
                      LAMBDA k : order(a, k) # order(b, k),
                      LAMBDA k : Sign(order(a, k), order(b, k)))

\* compareDigitRun: by length without leading zeros, then place by place.
TrimLeft(s) ==
  LET rest == {k \in 1 .. Len(s) : s[k] # "0"}
  IN  IF rest = {} THEN <<>> ELSE SubSeq(s, CHOOSE k \in rest : \A m \in rest : k <= m, Len(s))

compareDigitRun(a, b) ==
  LET x == TrimLeft(a)
      y == TrimLeft(b)
  IN  IF Len(x) # Len(y) THEN Sign(Len(x), Len(y))
      ELSE FirstDifference(Len(x), LAMBDA k : x[k] # y[k],
                           LAMBDA k : Sign(Weight[x[k]], Weight[y[k]]))

\* The end of the run of characters in set that begins at i.
RunEnd(s, i, set) ==
  CHOOSE j \in i .. Len(s) + 1 :
    /\ \A k \in i .. j - 1 : s[k] \in set
    /\ j > Len(s) \/ s[j] \notin set

\* compareVersionPart: non-digits and digits in turn.
compareVersionPart(a, b) ==
  LET others == DOMAIN Weight \ Digit
      from[i \in 1 .. Len(a) + 1, j \in 1 .. Len(b) + 1] ==
        IF i > Len(a) /\ j > Len(b) THEN 0
        ELSE LET i1 == RunEnd(a, i, others)
                 j1 == RunEnd(b, j, others)
                 i2 == RunEnd(a, i1, Digit)
                 j2 == RunEnd(b, j1, Digit)
                 c == compareNonDigitRun(SubSeq(a, i, i1 - 1), SubSeq(b, j, j1 - 1))
                 d == compareDigitRun(SubSeq(a, i1, i2 - 1), SubSeq(b, j1, j2 - 1))
             IN  IF c # 0 THEN c ELSE IF d # 0 THEN d ELSE from[i2, j2]
  IN  from[1, 1]

\* splitEpoch at the first ':', splitUpstreamRevision at the last '-'.
splitEpoch(v) ==
  LET colons == {k \in 1 .. Len(v) : v[k] = ":"}
  IN  IF colons = {} THEN <<<<"0">>, v>>
      ELSE LET k == CHOOSE k \in colons : \A m \in colons : k <= m
           IN  <<SubSeq(v, 1, k - 1), SubSeq(v, k + 1, Len(v))>>

splitUpstreamRevision(v) ==
  LET dashes == {k \in 1 .. Len(v) : v[k] = "-"}
  IN  IF dashes = {} THEN <<v, <<>>>>
      ELSE LET k == CHOOSE k \in dashes : \A m \in dashes : m <= k
           IN  <<SubSeq(v, 1, k - 1), SubSeq(v, k + 1, Len(v))>>

\* Compare: epoch, upstream version, revision.
Compare(a, b) ==
  LET ea == splitEpoch(a)
      eb == splitEpoch(b)
      ua == splitUpstreamRevision(ea[2])
      ub == splitUpstreamRevision(eb[2])
      e == compareDigitRun(ea[1], eb[1])
      u == compareVersionPart(ua[1], ub[1])
  IN  IF e # 0 THEN e ELSE IF u # 0 THEN u ELSE compareVersionPart(ua[2], ub[2])

-----------------------------------------------------------------------------
UpdatesInit ==
  /\ source = "reported"
  /\ status = "installed"
  /\ installed = <<>>
  /\ lists = <<>>
  /\ candidate = <<>>
  /\ registry = "unasked"
  /\ digest = None
  /\ items = {}

\* parseDpkgStatus: "installed" anywhere in the status will do.
parseDpkgStatus == IF status \in {"installed", "half-installed"} THEN installed ELSE <<>>

\* parsePackagesFile: of several stanzas of a package the last one stays; a
\* list that cannot be read to its end counts for nothing.
parsePackagesFile(list) == IF list.whole THEN Last(list.stanzas) ELSE <<>>

BetterAny(version, best) == version # <<>>

Better(version, best) == version # <<>> /\ (best = <<>> \/ Compare(version, best) > 0)

\* candidateVersions reads one more list.
candidateVersions(list) ==
  LET version == parsePackagesFile(list)
  IN  /\ source = "apt" /\ Len(lists) < MaxLists
      /\ lists' = Append(lists, list)
      /\ candidate' = IF Better(version, candidate) THEN version ELSE candidate
      /\ UNCHANGED <<source, status, installed, registry, digest, items>>

\* aptItems: an update is a candidate above what is installed.
HasAptUpdate ==
  parseDpkgStatus # <<>> /\ candidate # <<>> /\ Compare(candidate, parseDpkgStatus) > 0

\* Its working state is gone when it returns.
aptItems ==
  /\ source = "apt"
  /\ items' = items \cup (IF HasAptUpdate THEN {"apt"} ELSE {})
  /\ source' = "dnf"
  /\ status' = "installed" /\ installed' = <<>> /\ lists' = <<>> /\ candidate' = <<>>
  /\ UNCHANGED <<registry, digest>>

\* dnfItems: whatever the helper left in the spool, of whatever age.
dnfItems(names) ==
  /\ source = "dnf"
  /\ items' = items \cup names
  /\ source' = "unraid"
  /\ UNCHANGED <<status, installed, lists, candidate, registry, digest>>

\* parsePLG: no plugin without a name and a version.
parsePLG(file) == IF file.name = None THEN None ELSE file.version

\* fetchRemoteVersion: the same file at its source, unless that fails.
fetchRemoteVersion(answered, file) == IF answered THEN parsePLG(file) ELSE None

\* unraidItems: an update is a version unlike the local one.
unraidItems(local, remote) ==
  /\ source = "unraid"
  /\ items' = items \cup IF None \notin {parsePLG(local), remote} /\ remote # local.version
                          THEN {"plugin"} ELSE {}
  /\ source' = "docker"
  /\ UNCHANGED <<status, installed, lists, candidate, registry, digest>>

\* headManifest: a digest, a challenge, or neither.
headManifest(answer, d) ==
  /\ registry' = answer
  /\ digest' = IF answer = "digest" THEN d ELSE None

\* Digest: the first request; after a challenge, and with a token, the second,
\* which is the last whatever it brings.
Digest(answer, d) ==
  /\ source = "docker"
  /\ \/ registry = "unasked" /\ headManifest(answer, d)
     \/ registry = "token" /\ answer # "challenge" /\ headManifest(answer, d)
  /\ UNCHANGED <<source, status, installed, lists, candidate, items>>

\* fetchToken asks the realm the challenge names, if it names one.
fetchToken(granted) ==
  /\ registry = "challenge"
  /\ registry' = IF granted THEN "token" ELSE "refused"
  /\ UNCHANGED <<source, status, installed, lists, candidate, digest, items>>

\* dockerItems: an update is a digest unlike the local one; an image that could
\* not be looked up has none.
dockerItems(local) ==
  /\ registry \in {"digest", "refused"}
  /\ items' = items \cup IF digest \notin {None, local} THEN {"image"} ELSE {}
  /\ source' = "reported"
  /\ registry' = "unasked" /\ digest' = None
  /\ UNCHANGED <<status, installed, lists, candidate>>

\* Collect: the next cycle begins with nothing.
CollectUpdates ==
  /\ source = "reported"
  /\ source' = "apt" /\ items' = {}
  /\ status' \in {"installed", "half-installed", "config-files"}
  /\ installed' \in Versions
  /\ UNCHANGED <<lists, candidate, registry, digest>>

UpdatesNext ==
  \/ \E l \in PackageLists, whole \in BOOLEAN : candidateVersions([stanzas |-> l, whole |-> whole])
  \/ aptItems
  \/ \E names \in SUBSET {"rpm"} : dnfItems(names)
  \/ \E local, file \in [name : {"p", None}, version : Digests], answered \in BOOLEAN :
       unraidItems(local, fetchRemoteVersion(answered, file))
  \/ \E a \in {"digest", "challenge", "refused"}, d \in Digests : Digest(a, d)
  \/ \E granted \in BOOLEAN : fetchToken(granted)
  \/ \E d \in Digests : dockerItems(d)
  \/ CollectUpdates

-----------------------------------------------------------------------------
UpdatesTypeOK ==
  /\ source \in {"apt", "dnf", "unraid", "docker", "reported"}
  /\ candidate \in Versions \cup {<<>>}
  /\ registry \in {"unasked", "challenge", "token", "digest", "refused"}
  /\ (digest # None) <=> (registry = "digest")
  /\ items \subseteq {"apt", "rpm", "plugin", "image"}

\* Compare is an order on the versions at hand, and so, in whichever order the
\* lists are read, the candidate is a version some readable list has and no list
\* that has the package once offers more.  With such lists alone, an installed
\* package has an update exactly when one of them offers more than is installed,
\* and a removed one has none.
CandidateIsHighest ==
  LET readable == {l.stanzas : l \in {m \in ToSet(lists) : m.whole}}
      offered == UNION {ToSet(s) : s \in readable}
      once == {s[1] : s \in {t \in readable : Len(t) = 1}}
      known == offered \cup ({installed} \ {<<>>})
  IN  /\ \A a, b \in known : Compare(a, b) = -Compare(b, a)
      /\ \A a, b, c \in known : Compare(a, b) >= 0 /\ Compare(b, c) >= 0 => Compare(a, c) >= 0
      /\ candidate \in offered \/ (candidate = <<>> /\ offered = {})
      /\ \A v \in once : Compare(candidate, v) >= 0
      /\ source = "apt" /\ status = "installed" /\ once = offered =>
           (HasAptUpdate <=> \E v \in once : Compare(v, installed) > 0)
      /\ status = "config-files" => ~HasAptUpdate
=============================================================================
