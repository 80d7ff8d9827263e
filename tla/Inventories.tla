----------------------------- MODULE Inventories -----------------------------
(***************************************************************************)
(* The collectors that report what a host has (internal/collector: shares, *)
(* users, shareusage, diskarray, ups, network), and the spool they read    *)
(* and bitacora-doctor checks (internal/spool, internal/vpnhelper,         *)
(* internal/doctor).  `reader` is the one at work; `file` is the text it   *)
(* will read, written line by line by an administrator or by the command a *)
(* helper runs; `other` is the second thing it reads; `items` is what it   *)
(* reports.  A line is a record of its fields, and "" an attribute that is *)
(* not set.                                                                *)
(***************************************************************************)
EXTENDS Integers, Sequences, FiniteSets, SequencesExt

CONSTANTS
  Sections,     \* names of smb.conf sections, meta sections among them
  Accounts,     \* names of accounts, peers and UPSes
  MaxSamba,     \* bound: lines of smb.conf
  MaxLines,     \* bound: lines of another file
  Trees,        \* Trees[path]: the entries filepath.WalkDir visits, in order
  CheckEvery,   \* dirSize looks at its context once in so many entries (100)
  StaleAfter,   \* network.staleAfter
  Rekey,        \* a peer is active within so much of its handshake (3 minutes)
  Interval,     \* doctor.Config.HelperIntervals of every helper
  MaxClock      \* bound: ticks of the clock

VARIABLES
  reader, file, other, clock,
  spool,        \* spool[h]: the entry of helper h, NoEntry when there is none
  conn,         \* the connection to the NUT server
  items

inventoryVars == <<reader, file, other, clock, spool, conn, items>>

Helpers == {"vpn", "smart"}
Meta == {"global", "homes"}
NoEntry == [ts |-> -1, data |-> <<>>]

SambaLines ==
  [key : {"section"}, value : Sections] \cup [key : {"path"}, value : DOMAIN Trees]
  \cup [key : {"public", "read only", "writable"}, value : {"yes"}]
  \cup [key : {"valid users", "write list"}, value : Accounts]

LinesOf(r) ==
  CASE r \in {"shares", "users", "shareusage"} -> SambaLines
    [] r = "exports" -> [path : DOMAIN Trees, clients : SUBSET {"host", "*", "host(rw)"}]
    [] r = "ups"     -> [name : Accounts, answer : {"vars", "err"}, status : {"OL", "OB"}]
    [] r = "vpn"     -> [peer : Accounts, fields : {5, 9}, handshake : 0 .. clock]
    [] r = "disks"   -> [disk : {"sda", "nvme0"}, serial : {"", "s1", "s2"}, json : BOOLEAN]
    [] OTHER         -> {}

Passwd == [name : Accounts, uid : {999, 1000, 65534}]
LoginDefs == {<<>>, <<"UID_MIN", 999>>, <<"UID_MIN">>}
Mounts ==
  [device : {<<"sd", "sda", "1">>, <<"sd", "sda", "">>, <<"nvme", "nvme0", "p1">>,
             <<"md", "md", "0">>, <<"proc", "proc", "">>},
   blocks : {<<3, 1>>, <<1, 3>>, <<>>}]

Readers == {"shares", "users", "shareusage", "exports", "ups", "vpn", "disks", "doctor"}

InventoriesInit ==
  /\ reader = "none" /\ file = <<>> /\ other = <<>> /\ clock = 0
  /\ spool = [h \in Helpers |-> NoEntry]
  /\ conn = "closed" /\ items = {}

\* One of the collectors is looked at.
ChooseReader(r) ==
  /\ reader = "none" /\ reader' = r
  /\ UNCHANGED <<file, other, clock, spool, conn, items>>

\* Somebody writes another line.
WriteLine ==
  /\ Len(file) < IF reader \in {"shares", "users", "shareusage"} THEN MaxSamba ELSE MaxLines
  /\ items = {} /\ conn = "closed" /\ other = <<>>
  /\ \E line \in LinesOf(reader) : file' = Append(file, line)
  /\ UNCHANGED <<reader, other, clock, spool, conn, items>>

-----------------------------------------------------------------------------
NoAttrs == [path |-> "", mode |-> "", writable |-> ""]

visibilityMode(value) == IF value = "yes" THEN "public" ELSE "private"
isWritable(key, value) == IF key = "read only" THEN value # "yes" ELSE value = "yes"

\* flush: the section read so far, unless it is a meta section.
FlushSection(s) ==
  IF s.section \in Meta \cup {""} THEN s.shares
  ELSE s.shares \cup {[id |-> s.section, attrs |-> s.attrs]}

\* The directives of a share; of those about writing the first decides.
Directive(s, line) ==
  CASE line.key = "path" -> [s EXCEPT !.attrs.path = line.value]
    [] line.key = "public" -> [s EXCEPT !.attrs.mode = visibilityMode(line.value)]
    [] line.key \in {"read only", "writable"} ->
         [s EXCEPT !.attrs.writable =
            IF @ = "" THEN (IF isWritable(line.key, line.value) THEN "true" ELSE "false") ELSE @]
    [] OTHER -> s

\* A section begins with the attributes of the one before it.
SambaLineKeeping(s, line) ==
  IF line.key = "section"
  THEN [shares |-> FlushSection(s), section |-> line.value, attrs |-> s.attrs]
  ELSE Directive(s, line)

SambaLine(s, line) ==
  IF line.key = "section"
  THEN [shares |-> FlushSection(s), section |-> line.value, attrs |-> NoAttrs]
  ELSE Directive(s, line)

parseSambaConf(lines) ==
  FlushSection(FoldLeft(SambaLine, [shares |-> {}, section |-> "", attrs |-> NoAttrs], lines))

parseExports(lines) ==
  {[id |-> line.path,
    attrs |-> [path |-> line.path,
               mode |-> IF "*" \in line.clients THEN "public" ELSE "private",
               writable |-> IF "host(rw)" \in line.clients THEN "true" ELSE "false"]] :
     line \in {l \in ToSet(lines) : l.clients # {}}}

CollectShares ==
  /\ reader \in {"shares", "exports"}
  /\ items' = IF reader = "shares" THEN parseSambaConf(file) ELSE parseExports(file)
  /\ UNCHANGED <<reader, file, other, clock, spool, conn>>

Paths(lines) == {<<s.id, s.attrs.path>> : s \in {t \in parseSambaConf(lines) : t.attrs.path # ""}}

\* dirSize: -1 is an error.  What cannot be read is skipped, a directory counts
\* nothing, and a context that is done is seen at every CheckEvery-th entry.
dirSize(root, done) ==
  LET entries == Trees[root]
      Sum(total, e) == IF e.readable /\ ~e.dir THEN total + e.size ELSE total
  IN  IF entries = <<>> \/ (done /\ Len(entries) >= CheckEvery) THEN -1
      ELSE FoldLeft(Sum, 0, entries)

CollectUsage ==
  /\ reader = "shareusage" /\ other = <<>>
  /\ \E done \in BOOLEAN :
       /\ other' = <<done>>
       /\ items' = {[id |-> p[1], path |-> p[2], used |-> dirSize(p[2], done)] :
                      p \in {q \in Paths(file) : dirSize(q[2], done) >= 0}}
  /\ UNCHANGED <<reader, file, clock, spool, conn>>

-----------------------------------------------------------------------------
\* uidMin: the first directive that has a number, or the usual 1000.
uidMin(defs) == IF Len(defs) = 2 THEN defs[2] ELSE 1000

parsePasswd(lines, min) == {l \in ToSet(lines) : l.uid >= min /\ l.uid # 65534}

\* parseSambaPermissions: the section of every line, and what the lines grant.
SectionAt(lines, i) ==
  LET before == {j \in 1 .. i : lines[j].key = "section"}
  IN  IF before = {} THEN "" ELSE lines[CHOOSE j \in before : \A k \in before : k <= j].value

parseSambaPermissions(lines, key, user) ==
  {SectionAt(lines, i) :
     i \in {j \in 1 .. Len(lines) : /\ lines[j].key = key /\ lines[j].value = user
                                   /\ SectionAt(lines, j) \notin {"", "global"}}}

CollectUsers ==
  /\ reader = "users" /\ other = <<>>
  /\ \E passwd \in {<<>>} \cup {<<l>> : l \in Passwd}, defs \in LoginDefs :
       /\ other' = <<passwd, defs>>
       /\ items' = {[id |-> a.name, shares_rw |-> parseSambaPermissions(file, "write list", a.name),
                     shares_ro |-> parseSambaPermissions(file, "valid users", a.name)] :
                       a \in parsePasswd(passwd, uidMin(defs))}
  /\ UNCHANGED <<reader, file, clock, spool, conn>>

-----------------------------------------------------------------------------
\* readNUT: one connection with one deadline for every answer.
DialNUT ==
  /\ reader = "ups" /\ conn = "closed"
  /\ conn' = "open"
  /\ other' = file
  /\ UNCHANGED <<reader, file, clock, spool, items>>

\* No server, or none that answers LIST UPS: an empty inventory.
NUTUnreachable ==
  /\ reader = "ups" /\ conn = "closed"
  /\ conn' = "unreachable"
  /\ UNCHANGED <<reader, file, other, clock, spool, items>>

buildItem(ups) == [id |-> ups.name, status |-> ups.status, on_battery |-> ups.status = "OB"]

\* listUPSVars asks for the next UPS and reads up to END LIST VAR.  An ERR line
\* is no such line: it waits until the deadline of the connection, after which
\* every further request fails at once.
listUPSVars ==
  /\ conn \in {"open", "expired"} /\ other # <<>>
  /\ other' = Tail(other)
  /\ IF conn = "open" /\ Head(other).answer = "vars"
     THEN items' = items \cup {buildItem(Head(other))} /\ UNCHANGED conn
     ELSE conn' = "expired" /\ UNCHANGED items
  /\ UNCHANGED <<reader, file, clock, spool>>

ReportUPS ==
  /\ conn \in {"open", "expired"} /\ other = <<>>
  /\ conn' = "done"
  /\ UNCHANGED <<reader, file, other, clock, spool, items>>

-----------------------------------------------------------------------------
TickInventory ==
  /\ reader \in {"vpn", "doctor"} /\ items = {} /\ clock < MaxClock
  /\ clock' = clock + 1
  /\ UNCHANGED <<reader, file, other, spool, conn, items>>

\* A helper runs its commands; one that fails leaves its part empty.
RunHelper(h) ==
  /\ items = {} /\ reader \in {"doctor", IF h = "vpn" THEN "vpn" ELSE "disks"}
  /\ \E dump \in {file, <<>>},
       tailscale \in IF reader = "vpn" THEN {"", "bad", "online"} ELSE {""} :
       spool' = [spool EXCEPT ![h] = [ts |-> clock, data |-> <<dump, tailscale>>]]
  /\ UNCHANGED <<reader, file, other, clock, conn, items>>

Age(entry) == clock - entry.ts
Stale(entry, interval) == interval > 0 /\ Age(entry) > 3 * interval

\* Only the lines of peers have nine fields.
parseWireguardDump(dump) ==
  {[id |-> p.peer, active |-> p.handshake > 0 /\ clock - p.handshake < Rekey,
    seen |-> p.handshake] : p \in {q \in ToSet(dump) : q.fields = 9}}

parseTailscaleStatus(raw) ==
  IF raw = "online" THEN {[id |-> "tailscale", active |-> TRUE, seen |-> 0]} ELSE {}

readVPNTunnels ==
  LET e == spool["vpn"]
  IN  IF e = NoEntry \/ Age(e) > StaleAfter THEN {}
      ELSE parseWireguardDump(e.data[1]) \cup parseTailscaleStatus(e.data[2])

CollectVPN ==
  /\ reader = "vpn"
  /\ items' = readVPNTunnels
  /\ UNCHANGED <<reader, file, other, clock, spool, conn>>

\* The spool's smart entry is used however old it is.
readSMARTIdentities ==
  LET e == spool["smart"]
      known == IF e = NoEntry THEN {} ELSE {d \in ToSet(e.data[1]) : d.json}
  IN  [disk \in {d.disk : d \in known} |-> (CHOOSE d \in known : d.disk = disk).serial]

\* baseDeviceName: a partition's disk, for the two schemes that number them.
baseDeviceName(device) ==
  IF device[1] \in {"sd", "nvme"} THEN device[2] ELSE device[2] \o device[3]

readRealMounts(table) == {m \in table : m.device[1] # "proc"}

\* statfsUsage: -1 when the file system does not answer or makes no sense.
statfsUsage(blocks) ==
  IF blocks = <<>> THEN -1 ELSE IF blocks[1] < blocks[2] THEN -1 ELSE blocks[1] - blocks[2]

CollectDisks ==
  /\ reader = "disks" /\ other = <<>>
  /\ \E m \in Mounts :
       LET smart == readSMARTIdentities
           disk == baseDeviceName(m.device)
       IN  /\ other' = <<m>>
           /\ items' = {[id |-> n.device, used |-> statfsUsage(n.blocks),
                         serial |-> IF disk \in DOMAIN smart THEN smart[disk] ELSE ""] :
                          n \in readRealMounts({m})}
  /\ UNCHANGED <<reader, file, clock, spool, conn>>

checkSpoolPermissions(info) == info = [dir |-> TRUE, mode |-> "0750", owner |-> "bitacora"]

checkSpoolFreshness == \A h \in Helpers : spool[h] # NoEntry /\ ~Stale(spool[h], Interval)

RunDoctor ==
  /\ reader = "doctor" /\ items = {}
  /\ \E info \in [dir : BOOLEAN, mode : {"0750", "0777"}, owner : {"bitacora", "root"}] :
       items' = {[id |-> "spool dir", ok |-> checkSpoolPermissions(info)],
                 [id |-> "spool freshness", ok |-> checkSpoolFreshness]}
  /\ UNCHANGED <<reader, file, other, clock, spool, conn>>

InventoriesNext ==
  \/ (\E r \in Readers : ChooseReader(r))
  \/ WriteLine \/ CollectShares \/ CollectUsage \/ CollectUsers
  \/ DialNUT \/ NUTUnreachable \/ listUPSVars \/ ReportUPS
  \/ TickInventory \/ (\E h \in Helpers : RunHelper(h))
  \/ CollectVPN \/ CollectDisks \/ RunDoctor

InventoriesSpec == InventoriesInit /\ [][InventoriesNext]_inventoryVars

-----------------------------------------------------------------------------
InventoriesTypeOK ==
  /\ reader \in Readers \cup {"none"} /\ clock \in 0 .. MaxClock
  /\ conn \in {"closed", "open", "expired", "done", "unreachable"}
  /\ file \in Seq(LinesOf(reader)) /\ \A h \in Helpers : spool[h].ts \in -1 .. clock

\* The last value lines from .. to give for a key, "" if there is none.
LastValue(key, from, to) ==
  LET at == {i \in from .. to : file[i].key = key}
  IN  IF at = {} THEN "" ELSE file[CHOOSE i \in at : \A j \in at : j <= i].value

\* The lines of smb.conf that belong to the section of line i.
SectionEnd(i) ==
  LET later == {j \in i + 1 .. Len(file) : file[j].key = "section"}
  IN  IF later = {} THEN Len(file) ELSE (CHOOSE j \in later : \A k \in later : j <= k) - 1

\* The items of the UPSes that answer when they are asked.
Answered == {buildItem(u) : u \in {v \in ToSet(file) : v.answer = "vars"}}

\* What is reported is what the host has: a share with the directives of its
\* own section and no other's; a disk with the serial of the disk it is on; a
\* UPS only if it answered, and every one if all did; a tunnel only from an
\* entry that is fresh, and active only after a recent handshake; and a spool is
\* said to be fresh exactly when every helper ran within three intervals.
InventoryMatchesHost ==
  /\ reader = "shares" /\ items # {} =>
       items = {[id |-> file[i].value,
                 attrs |-> [path |-> LastValue("path", i, SectionEnd(i)),
                            mode |-> IF LastValue("public", i, SectionEnd(i)) = "" THEN ""
                                     ELSE "public",
                            writable |-> LET w == {j \in i .. SectionEnd(i) :
                                                     file[j].key \in {"read only", "writable"}}
                                         IN  IF w = {} THEN ""
                                             ELSE IF file[CHOOSE j \in w : \A k \in w : j <= k].key
                                                       = "writable" THEN "true" ELSE "false"]] :
                  i \in {j \in 1 .. Len(file) : file[j].key = "section" /\ file[j].value \notin Meta}}
  /\ reader = "disks" => \A d \in items : d.serial # "" =>
       \E s \in ToSet(file) : s.serial = d.serial /\ s.disk = d.id[2]
  /\ reader = "ups" =>
       /\ items \subseteq Answered
       /\ conn = "done" /\ (\A u \in ToSet(file) : u.answer = "vars") => items = Answered
  /\ reader = "vpn" => \A t \in items :
       /\ clock - spool["vpn"].ts <= StaleAfter
       /\ t.id # "tailscale" /\ t.active => t.seen \in clock - Rekey + 1 .. clock
  /\ reader = "doctor" => \A c \in items : c.id = "spool freshness" =>
       (c.ok <=> \A h \in Helpers : spool[h].ts >= 0 /\ spool[h].ts >= clock - 3 * Interval)

\* What the comment in readNUT says: a UPS that fails to respond does not hide
\* the others, so that a server that was reached has every answering UPS listed.
OtherUPSesAreReported == reader = "ups" /\ conn = "done" => items = Answered
=============================================================================
