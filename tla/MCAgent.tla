------------------------------ MODULE MCAgent -------------------------------
(***************************************************************************)
(* The components of the agent's host, for model checking.  As in MCHub a  *)
(* behaviour looks at one of them (`focus`) and the others rest.           *)
(***************************************************************************)
EXTENDS Integers, Sequences, FiniteSets, TLC, AgentFiles, Journald, JobRun, BlackBox

CONSTANTS
  Collectors, Requires, Capabilities, Probes, DegradedImpact,
  MaxConsecutiveTimeouts, MaxBackoffMultiplier, MaxErrorCount, MaxAbandoned,
  Devices, MaxCounts, Wrap, MaxBlockDevices, MaxSwap, MaxResets,
  Versions, Weight, PackageLists, Digests, MaxLists,
  Sections, Accounts, MaxSamba, MaxLines, Trees, CheckEvery, StaleAfter, Rekey,
  Interval, MaxClock

VARIABLES
  focus,
  manifest, loop, call, abandoned, errorCount, timeoutCount, multiplier,
  reported, closing,
  cur, prev, energy, errors, first, grown, steady, resets,
  source, status, installed, lists, candidate, registry, digest, items,
  reader, file, other, clock, spool, conn, found

Loops == INSTANCE CollectorRuntime
Samples == INSTANCE Samplers
Updates == INSTANCE PackageUpdates
Lists == INSTANCE Inventories WITH items <- found

runtimeVars == <<manifest, loop, call, abandoned, errorCount, timeoutCount, multiplier,
                 reported, closing>>
sampleVars == <<cur, prev, energy, errors, first, grown, steady, resets>>
updateVars == <<source, status, installed, lists, candidate, registry, digest, items>>
inventoryVars == <<reader, file, other, clock, spool, conn, found>>

vars == <<focus, runtimeVars, journalVars, boxVars, fileVars, jobVars, sampleVars, updateVars,
          inventoryVars>>

Init ==
  /\ focus \in {"loops", "journal", "box", "files", "job", "samples", "updates", "lists"}
  /\ Loops!RuntimeInit
  /\ JournalInit
  /\ BoxInit
  /\ FilesInit
  /\ JobInit
  /\ Samples!SamplersInit
  /\ Updates!UpdatesInit
  /\ Lists!InventoriesInit

\* The components other than the one named rest.
LoopsOnly ==
  /\ focus = "loops"
  /\ UNCHANGED <<focus, journalVars, boxVars, fileVars, jobVars, sampleVars, updateVars,
                 inventoryVars>>

JobsOnly ==
  /\ focus = "job"
  /\ UNCHANGED <<focus, runtimeVars, journalVars, boxVars, fileVars, sampleVars, updateVars,
                 inventoryVars>>

Next ==
  \/ LoopsOnly /\ Loops!RuntimeNext
  \/ /\ focus = "journal" /\ JournalNext
     /\ UNCHANGED <<focus, runtimeVars, boxVars, fileVars, jobVars, sampleVars, updateVars,
                    inventoryVars>>
  \/ /\ focus = "box" /\ BoxNext
     /\ UNCHANGED <<focus, runtimeVars, journalVars, fileVars, jobVars, sampleVars, updateVars,
                    inventoryVars>>
  \/ /\ focus = "files" /\ FilesNext
     /\ UNCHANGED <<focus, runtimeVars, journalVars, boxVars, jobVars, sampleVars, updateVars,
                    inventoryVars>>
  \/ JobsOnly /\ JobNext
  \/ /\ focus = "samples" /\ Samples!SamplersNext
     /\ UNCHANGED <<focus, runtimeVars, journalVars, boxVars, fileVars, jobVars, updateVars,
                    inventoryVars>>
  \/ /\ focus = "updates" /\ Updates!UpdatesNext
     /\ UNCHANGED <<focus, runtimeVars, journalVars, boxVars, fileVars, jobVars, sampleVars,
                    inventoryVars>>
  \/ /\ focus = "lists" /\ Lists!InventoriesNext
     /\ UNCHANGED <<focus, runtimeVars, journalVars, boxVars, fileVars, jobVars, sampleVars,
                    updateVars>>

\* A loop that waits for a Collect takes its answer or its timeout; select
\* chooses at random among what is ready, so that a loop offered a tick and the
\* closing again and again takes the closing.  The timers and the kernel see to
\* the steps of bitacora-run; the command it runs promises nothing.
Fairness ==
  /\ \A c \in Collectors :
       /\ WF_vars(LoopsOnly /\ Loops!LoopProgress(c))
       /\ SF_vars(LoopsOnly /\ Loops!LoopStops(c))
  /\ WF_vars(JobsOnly /\ JobProgress)

Spec == Init /\ [][Next]_vars /\ Fairness

-----------------------------------------------------------------------------
\* Every variable of the component looked at holds a value of its kind.
AgentTypeOK ==
  /\ focus = "loops" => Loops!RuntimeTypeOK
  /\ focus = "journal" => JournalTypeOK
  /\ focus = "box" => BoxTypeOK
  /\ focus = "files" => FilesTypeOK
  /\ focus = "job" => JobTypeOK
  /\ focus = "samples" => Samples!SamplersTypeOK
  /\ focus = "updates" => Updates!UpdatesTypeOK
  /\ focus = "lists" => Lists!InventoriesTypeOK

\* The properties of the components, whose modules state them in full.  Those
\* of AgentFiles, Journald, JobRun and BlackBox are checked as they stand.

\* Closing the runtime ends every loop, even while a Collect hangs.
CloseReturns == Loops!CloseReturns

\* A sample publishes no more than the counters advanced since the last one.
RatesAreSane == focus = "samples" => Samples!RatesAreSane

\* No list that has a package once offers more than the apt candidate.
CandidateIsHighest == focus = "updates" => Updates!CandidateIsHighest

\* The inventories a collector reports are those of the files it read.
InventoryMatchesHost == focus = "lists" => Lists!InventoryMatchesHost

\* A UPS that does not answer hides no other.
OtherUPSesAreReported == focus = "lists" => Lists!OtherUPSesAreReported

-----------------------------------------------------------------------------
\* The values of the constants.

UPSNeedsItsDaemon == [cpu |-> {}, ups |-> {"power.ups"}]

\* Two files show a UPS daemon, either will do.
HostProbes ==
  ("power.ups" :> {"nut.conf exists", "apcupsd.conf exists"})
  @@ ("hw.pstore" :> {"pstore has entries"})

\* Outputs without a word the extractors know, and with one, two and more.
Outputs == {<<>>, <<0>>, <<1>>, <<2>>, <<1, 2>>, <<2, 1>>, <<2, 0, 2>>}

TwoDevices == <<"a", "b">>
SmallCounts == <<2, 1>>

\* Versions that differ in each of the ways the comparison tells apart.
SomeVersions ==
  { <<"1">>, <<"0", "1">>, <<"1", "~">>, <<"1", "a">>, <<"1", "+">>, <<"1", "0">>,
    <<"1", ".", "1">>, <<"1", "-", "0">>, <<"1", "-", "1">>, <<"1", ":", "0">>,
    <<"0", ":", "1">>, <<"a", "1">>, <<"~", "1">> }

ASCII ==
  ("~" :> 126) @@ ("+" :> 43) @@ ("." :> 46) @@ ("-" :> 45) @@ (":" :> 58)
  @@ ("0" :> 48) @@ ("1" :> 49) @@ ("2" :> 50) @@ ("a" :> 97)

\* A list has the package once, or once in a higher and then in a lower version.
OneOrTwoStanzas == {<<v>> : v \in SomeVersions} \cup {<< <<"2">>, <<"1">> >>}

\* A share with a file that cannot be read, and a path that is not there.
Entry(dir, readable, size) == [dir |-> dir, readable |-> readable, size |-> size]

TwoTrees ==
  ("/a" :> <<Entry(TRUE, TRUE, 0), Entry(FALSE, TRUE, 2), Entry(FALSE, FALSE, 1)>>)
  @@ ("/gone" :> <<>>)
=============================================================================
