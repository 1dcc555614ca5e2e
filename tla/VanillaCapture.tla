----------------------------- MODULE VanillaCapture -----------------------------
(***************************************************************************)
(* cmd/vanilla-capture: a client logs in to a vanilla server, collects its *)
(* Configuration packets, builds the data set and replaces two files; and  *)
(* the start of CyuCore, which serves what the files hold.                 *)
(*                                                                         *)
(* The vanilla server is external.  It sends the packets of one Scenario,  *)
(* in any order, and each in any of the forms an encoder may give it.  Its *)
(* connection may break inside a packet; the capture may be killed between *)
(* any two steps, and power may fail, which loses what was not synced.     *)
(***************************************************************************)
EXTENDS CaptureData

CONSTANTS Scenarios,       \* name -> what a vanilla server holds, and how it sends it
          Older,           \* the two files that an earlier version left
          MaxRuns,         \* bound: how often the capture is run
          MaxRegistryData  \* bound: the RegistryData packets of a session

ASSUME BoundsAssumption == {MaxRuns, MaxRegistryData} \subseteq Nat \ {0}

\* What run reads from registries.json before it connects
Reports == [s \in DOMAIN Scenarios |-> DecodeReport(Scenarios[s].report)]

ManifestOf(s) == WriteManifest([jar |-> Scenarios[s].jar, report |-> Scenarios[s].reportHash])

\* A data set that may be written: the set that is checked is the one the runtime loader
\* makes of the bytes
Capturable(dataset) ==
  /\ dataset # Fail
  /\ LET set == MarshalDataset(dataset) IN ValidSet(set) /\ ~Has(set.groups, WorldPreset)

\* What CyuCore makes of the two files, and whether it can send all of it
Loads(packets) ==
  /\ packets # Fail
  /\ \A i \in DOMAIN packets.registryData : WritePacket(RegistryDataID, packets.registryData[i]) # Fail
  /\ WritePacket(UpdateTagsID, packets.updateTags) # Fail

---------------------------------------------------------------------------
(* What is assumed of the scenarios, of the codec on their values, and of  *)
(* the older files                                                         *)

\* What a capture may read in the packets of a server, and the data sets it may make of that
RegistriesOf(s) == {DecodeRegistryData(p, TRUE) : p \in UNION ToSet(Scenarios[s].registryForms)} \ {Fail}
TagsOf(s)       == {DecodeUpdateTags(p) : p \in Scenarios[s].tagForms} \ {Fail}
SequencesOf(s)  == {r \in [DOMAIN SynchronizedRegistryKeys -> RegistriesOf(s)] : InSequence(r)}
DatasetsOf(s)   == {BuildDataset(r, t[1], Reports[s][1]) : r \in SequencesOf(s), t \in TagsOf(s)}

\* Payloads are streams, and a server has a packet for each synchronized registry
ASSUME PayloadsAssumption ==
  \A s \in DOMAIN Scenarios :
    /\ Scenarios[s].faults \in Nat
    /\ Scenarios[s].registryForms \in Seq(SUBSET Seq(Nat))
    /\ Len(Scenarios[s].registryForms) = Len(SynchronizedRegistryKeys)
    /\ Scenarios[s].tagForms \subseteq Seq(Nat)

\* The forms of a packet that can be read say the same, and the form that our encoder gives it
\* is one of them
SamePacket(i, forms, p) ==
  LET reg == DecodeRegistryData(p, TRUE)
      sent == EncodeRegistryData(reg)
  IN reg # Fail =>
       /\ reg.key = SynchronizedRegistryKeys[i]
       /\ \A q \in forms : DecodeRegistryData(q, TRUE) \in {Fail, reg}
       /\ sent # Fail /\ sent \in forms /\ WritePacket(RegistryDataID, sent) # Fail

ASSUME RegistryFormsAssumption ==
  \A s \in DOMAIN Scenarios : \A i \in DOMAIN Scenarios[s].registryForms :
    \A p \in Scenarios[s].registryForms[i] : SamePacket(i, Scenarios[s].registryForms[i], p)

\* The groups and their tags, in whatever order
Unordered(groups) == {<< groups[g].key, ToSet(groups[g].tags) >> : g \in DOMAIN groups}

\* The groups in another order, each with its tags by key
Reordered(groups, order) == [g \in DOMAIN groups |->
                               [key |-> groups[order[g]].key, tags |-> ByKey(groups[order[g]].tags)]]

SameTags(forms, p) ==
  LET tags == DecodeUpdateTags(p)
  IN tags # Fail =>
       /\ \A q \in forms : DecodeUpdateTags(q) = Fail \/ Unordered(DecodeUpdateTags(q)[1]) = Unordered(tags[1])
       /\ \A order \in Bijection(DOMAIN tags[1], DOMAIN tags[1]) :
            LET sent == WriteTagGroups(Reordered(tags[1], order))
            IN sent \in forms /\ WritePacket(UpdateTagsID, sent) # Fail

ASSUME TagFormsAssumption ==
  \A s \in DOMAIN Scenarios : \A p \in Scenarios[s].tagForms : SameTags(Scenarios[s].tagForms, p)

\* A value that JSON has a form for is the value that this form is read as
ASSUME CodecAssumption ==
  \A s \in DOMAIN Scenarios : \A reg \in RegistriesOf(s) : \A i \in DOMAIN reg.entries :
    LET value == reg.entries[i].data
        json  == JSONOfValue(value)
    IN json # Fail => value # Fail /\ json # NullJSON /\ ValueOfJSON(json) = value

\* A sound server sends what can be read, reports it, and has one of the known programs; of
\* what the others send, no data set can be made
Sound(s) ==
  /\ Reports[s] # Fail /\ ManifestOf(s) # Fail
  /\ \A p \in UNION ToSet(Scenarios[s].registryForms) : DecodeRegistryData(p, TRUE) # Fail
  /\ \A p \in Scenarios[s].tagForms : DecodeUpdateTags(p) # Fail
  /\ \A dataset \in DatasetsOf(s) : Capturable(dataset)

Unsound(s) == \/ Reports[s] = Fail \/ ManifestOf(s) = Fail
              \/ \A dataset \in DatasetsOf(s) : ~Capturable(dataset)

ASSUME SoundAssumption ==
  \A s \in DOMAIN Scenarios : IF Scenarios[s].sound THEN Sound(s) ELSE Unsound(s)

\* A file that was written and synced
WholeFile(x, of) == [content |-> << x >>, synced |-> TRUE, of |-> of]

\* The older files are whole, of another server, and CyuCore starts with them
ASSUME OlderAssumption ==
  /\ Older = [f \in {"dataset", "manifest"} |-> WholeFile(Older[f].content[1], Older[f].of)]
  /\ \A f \in DOMAIN Older : Older[f].of \notin DOMAIN Scenarios
  /\ Loads(LoadVanillaConfiguration(Older["manifest"].content[1], Older["dataset"].content[1]))

---------------------------------------------------------------------------
VARIABLES
  vanilla,    \* the scenario: which vanilla server there is
  pc,         \* idle, login, configuration, or the next step of writeFileAtomic
  link,       \* the packet on its way to the capture, and whether the connection is up
  session,    \* what captureConfigurationState has collected
  output,     \* the encoded data set and manifest
  file,       \* which of the two is being written
  temp,       \* the temporary file of writeFileAtomic
  disk,       \* registry-set.json and manifest.json
  saved,      \* the versions of either that a power failure may leave
  lost,       \* history: the files whose last replacement a power failure has undone
  runs,
  faults,     \* what went wrong outside the capture in this run
  exit,       \* how the last run ended
  server      \* what a started CyuCore sends, and from which scenario it stems

sessionVars == << link, session >>
diskVars    == << disk, saved, lost >>
writeVars   == << output, file, temp, diskVars >>
captureVars == << vanilla, pc, sessionVars, writeVars, runs, faults, exit, server >>

Nothing == <<>>
Torn    == <<>>          \* the content of a file that is not what was written to it

ScenarioOf == Scenarios[vanilla]

NoSession == [packs |-> FALSE, registries |-> <<>>, tags |-> Nothing]
Closed    == [up |-> FALSE, frame |-> <<>>]

FilesManifestFirst == << "manifest", "dataset" >>

\* The two files, in the order in which run writes them
Files == << "dataset", "manifest" >>

NextFile(f) == LET i == CHOOSE i \in DOMAIN Files : Files[i] = f
               IN IF i < Len(Files) THEN << Files[i + 1] >> ELSE <<>>

CaptureInit ==
  /\ vanilla \in DOMAIN Scenarios
  /\ pc = "idle" /\ link = Closed /\ session = NoSession
  /\ output = Nothing /\ file = Files[1] /\ temp = Nothing
  /\ disk \in {[f \in ToSet(Files) |-> Nothing], Older}
  /\ saved = [f \in ToSet(Files) |-> {disk[f]}] /\ lost = {}
  /\ runs = 0 /\ faults = 0 /\ exit = "none" /\ server = Nothing

InSession == pc \in {"login", "configuration"}

\* The run is over. The deferred calls close the connection and remove the temporary file.
EndRun(how) ==
  /\ pc' = "idle" /\ exit' = how
  /\ link' = Closed /\ session' = NoSession
  /\ output' = Nothing /\ file' = Files[1] /\ temp' = Nothing
  /\ UNCHANGED << vanilla, runs, server >>

\* An error: log.Fatal. What is on disk stays.
Refuse == EndRun("refused") /\ UNCHANGED << diskVars, faults >>

\* An error that the world outside the capture made
Fault == faults' = faults + 1

\* Read the report, connect, and send the handshake and the login
Begin ==
  /\ pc = "idle" /\ runs < MaxRuns /\ server = Nothing
  /\ runs' = runs + 1
  /\ \/ /\ Reports[vanilla] # Fail
        /\ pc' = "login" /\ exit' = "none" /\ link' = [up |-> TRUE, frame |-> <<>>]
        /\ faults' = 0
     \/ /\ pc' = "idle" /\ exit' = "refused" /\ UNCHANGED link
        /\ faults' = IF Reports[vanilla] = Fail THEN 0 ELSE 1
  /\ UNCHANGED << vanilla, session, writeVars, server >>

---------------------------------------------------------------------------
(* External: the vanilla server and the network *)

LoginDisconnect == 0
LoginSuccess == 2
LoginCompress == 3
LoginPluginRequest == 4

ConfigPluginMessage == 1
ConfigDisconnect == 2
ConfigFinish == 3
ConfigKeepAlive == 4
ConfigPing == 5
ConfigKnownPacks == 14

LoginPackets == {<< id, <<>> >> : id \in {LoginDisconnect, LoginSuccess, LoginCompress, LoginPluginRequest}}

ConfigPackets ==
  {<< id, <<>> >> : id \in {ConfigPluginMessage, ConfigDisconnect, ConfigFinish, ConfigKnownPacks}}
  \union {<< ConfigKeepAlive, [i \in 1..n |-> i] >> : n \in {7, 8}}
  \union {<< ConfigPing, [i \in 1..n |-> i] >> : n \in {4, 5}}
  \union {<< UpdateTagsID, payload >> : payload \in ScenarioOf.tagForms}
  \union {<< RegistryDataID, payload >> : payload \in UNION ToSet(ScenarioOf.registryForms)}

\* Whether the packet is one that a vanilla server sends next
InOrder(p) ==
  LET n == Len(session.registries)
  IN IF pc = "login" THEN p[1] \in {LoginSuccess, LoginPluginRequest}
     ELSE CASE p[1] = ConfigKnownPacks -> ~session.packs
            [] p[1] = RegistryDataID -> /\ session.packs /\ n < Len(ScenarioOf.registryForms)
                                        /\ p[2] \in ScenarioOf.registryForms[n + 1]
            [] p[1] = UpdateTagsID -> n = Len(ScenarioOf.registryForms) /\ session.tags = Nothing
            [] p[1] = ConfigFinish -> n = Len(ScenarioOf.registryForms) /\ session.tags # Nothing
            [] OTHER -> p \in {<< ConfigKeepAlive, [i \in 1..8 |-> i] >>,
                               << ConfigPing, [i \in 1..4 |-> i] >>, << ConfigPluginMessage, <<>> >>}

\* In its place, or anywhere: a scenario says how often the server does that
VanillaSends ==
  /\ InSession /\ link = [up |-> TRUE, frame |-> <<>>]
  /\ \E p \in IF pc = "login" THEN LoginPackets ELSE ConfigPackets :
       /\ p[1] = RegistryDataID => Len(session.registries) < MaxRegistryData
       /\ \/ InOrder(p) /\ UNCHANGED faults
          \/ ~InOrder(p) /\ faults < ScenarioOf.faults /\ Fault
       /\ link' = [link EXCEPT !.frame = WritePacket(p[1], p[2])]
  /\ UNCHANGED << vanilla, pc, session, writeVars, runs, exit, server >>

\* What has arrived of the packet (nothing, half, all but its end, all of it) is all that
\* will arrive.
ConnectionLost ==
  /\ InSession /\ link.up
  /\ \E n \in {0, Len(link.frame) \div 2, Len(link.frame) - 1, Len(link.frame)} :
       link' = [up |-> FALSE, frame |-> SubSeq(link.frame, 1, n)]
  /\ Fault
  /\ UNCHANGED << vanilla, pc, session, writeVars, runs, exit, server >>

---------------------------------------------------------------------------
(* The session *)

\* The handlers below get what readPacket returns, a packet or Fail.
Received(packet, id) == packet # Fail /\ packet[1] = id

\* The packet is consumed, and the session goes on
Continue(next) ==
  /\ session' = next
  /\ link' = [link EXCEPT !.frame = <<>>]
  /\ UNCHANGED << vanilla, pc, writeVars, runs, faults, exit, server >>

DeadlineOfLogin == pc = "login" /\ EndRun("refused") /\ Fault /\ UNCHANGED diskVars

\* conn.SetDeadline: when it has passed, the reads and writes of the session fail
Deadline == InSession /\ EndRun("refused") /\ Fault /\ UNCHANGED diskVars

ReadFails(packet) ==
  /\ InSession
  /\ ~link.up \/ link.frame # <<>>
  /\ packet = Fail
  /\ Refuse

\* An answer cannot be written any more
ReplyFails(packet) ==
  /\ ~link.up
  /\ \/ pc = "login" /\ Received(packet, LoginSuccess)
     \/ pc = "configuration" /\ \E id \in {ConfigKnownPacks, ConfigKeepAlive, ConfigPing} : Received(packet, id)
  /\ Refuse

LoginRefused(packet) ==
  /\ pc = "login"
  /\ Received(packet, LoginDisconnect) \/ Received(packet, LoginCompress)
  /\ Refuse

\* The acknowledgement and the client information are sent
LoginSucceeds(packet) ==
  /\ pc = "login" /\ Received(packet, LoginSuccess)
  /\ pc' = "configuration"
  /\ link' = [link EXCEPT !.frame = <<>>]
  /\ UNCHANGED << vanilla, session, writeVars, runs, faults, exit, server >>

\* A packet the switch has no case for
Ignored(packet) ==
  /\ \/ pc = "login" /\ Received(packet, LoginPluginRequest)
     \/ pc = "configuration" /\ Received(packet, ConfigPluginMessage)
  /\ Continue(session)

Disconnected(packet) ==
  /\ pc = "configuration" /\ Received(packet, ConfigDisconnect)
  /\ Refuse

\* No known pack is selected, so that every entry comes with its data
KnownPacks(packet) ==
  /\ pc = "configuration" /\ Received(packet, ConfigKnownPacks)
  /\ IF session.packs THEN Refuse ELSE Continue([session EXCEPT !.packs = TRUE])

EchoedSwapped(packet) ==
  /\ pc = "configuration"
  /\ \/ Received(packet, ConfigKeepAlive) /\ (IF Len(packet[2]) = 4 THEN Continue(session) ELSE Refuse)
     \/ Received(packet, ConfigPing) /\ (IF Len(packet[2]) = 8 THEN Continue(session) ELSE Refuse)

\* A keep-alive and a ping are echoed if they have their length
Echoed(packet) ==
  /\ pc = "configuration"
  /\ \/ Received(packet, ConfigKeepAlive) /\ (IF Len(packet[2]) = 8 THEN Continue(session) ELSE Refuse)
     \/ Received(packet, ConfigPing) /\ (IF Len(packet[2]) = 4 THEN Continue(session) ELSE Refuse)

RegistryData(packet) ==
  /\ pc = "configuration" /\ Received(packet, RegistryDataID)
  /\ \E reg \in {DecodeRegistryData(packet[2], TRUE)} :
       IF ~session.packs \/ reg = Fail THEN Refuse
       ELSE Continue([session EXCEPT !.registries = Append(@, reg)])

UpdateTags(packet) ==
  /\ pc = "configuration" /\ Received(packet, UpdateTagsID)
  /\ \E tags \in {DecodeUpdateTags(packet[2])} :
       IF session.tags # Nothing \/ tags = Fail THEN Refuse
       ELSE Continue([session EXCEPT !.tags = tags])

---------------------------------------------------------------------------
(* The session is over: run builds and checks everything, and then writes  *)

Manifest == ManifestOf(vanilla)

WriteOutput(dataset) ==
  /\ output' = [dataset |-> dataset, manifest |-> Manifest]
  /\ pc' = "create" /\ link' = Closed
  /\ UNCHANGED << vanilla, session, file, temp, diskVars, runs, faults, exit, server >>

BuildOutputUnchecked ==
  \E dataset \in {BuildDataset(session.registries, session.tags[1], Reports[vanilla][1])} :
    IF dataset # Fail /\ Manifest # Fail THEN WriteOutput(dataset) ELSE Refuse

BuildOutput ==
  \E dataset \in {BuildDataset(session.registries, session.tags[1], Reports[vanilla][1])} :
    IF Capturable(dataset) /\ Manifest # Fail THEN WriteOutput(dataset) ELSE Refuse

Finish(packet) ==
  /\ pc = "configuration" /\ Received(packet, ConfigFinish)
  /\ IF session.packs /\ session.tags # Nothing /\ InSequence(session.registries)
     THEN BuildOutput ELSE Refuse

\* One step of writeFileAtomic
Step(from, to, next) ==
  /\ pc = from /\ pc' = to /\ temp' = next
  /\ UNCHANGED << vanilla, sessionVars, output, file, diskVars, runs, faults, exit, server >>

CreateTemp == Step("create", "write", [content |-> Torn, synced |-> FALSE, of |-> vanilla])

\* Write, Chmod: the system may still hold the bytes
WriteTemp == Step("write", "sync", [temp EXCEPT !.content = << output[file] >>, !.synced = FALSE])

SyncTempNever == Step("sync", "rename", temp)

\* Sync, Close
SyncTemp == Step("sync", "rename", [temp EXCEPT !.synced = TRUE])

\* The file is replaced: the next one is written, or run is done. The directory is not synced,
\* so that a power failure may leave any version the file has had since the last one.
Rename ==
  /\ pc = "rename"
  /\ disk' = [disk EXCEPT ![file] = temp]
  /\ saved' = [saved EXCEPT ![file] = @ \union {temp}]
  /\ lost' = lost \ {file}
  /\ \/ /\ NextFile(file) # <<>>
        /\ pc' = "create" /\ file' = NextFile(file)[1] /\ temp' = Nothing
        /\ UNCHANGED << vanilla, sessionVars, output, runs, exit, server >>
     \/ NextFile(file) = <<>> /\ EndRun("done")
  /\ UNCHANGED faults

Writing == pc \in {"create", "write", "sync", "rename"}

\* Any step of writeFileAtomic may return an error
WriteFails == Writing /\ EndRun("refused") /\ Fault /\ UNCHANGED diskVars

\* The process is killed, and leaves at most a temporary file that nothing reads
Killed == pc # "idle" /\ EndRun("killed") /\ Fault /\ UNCHANGED diskVars

\* What a power failure leaves of a version: torn, if it is not synced
Surviving(version) ==
  IF version # Nothing /\ ~version.synced THEN [version EXCEPT !.content = Torn] ELSE version

\* Power fails, during a run or after one: each file is left in one of its saved versions, of
\* the two files in any combination. Bound: with no run, only if a replacement can be lost.
PowerFails ==
  /\ pc # "idle" \/ \E f \in DOMAIN disk : saved[f] # {disk[f]}
  /\ EndRun(IF pc = "idle" THEN exit ELSE "killed") /\ Fault
  /\ \E left \in [DOMAIN disk -> UNION {saved[f] : f \in DOMAIN disk}] :
       /\ \A f \in DOMAIN disk : left[f] \in saved[f]
       /\ disk' = [f \in DOMAIN disk |-> Surviving(left[f])]
       /\ saved' = [f \in DOMAIN disk |-> {Surviving(left[f])}]
       /\ lost' = lost \union {f \in DOMAIN disk : left[f] # disk[f]}

---------------------------------------------------------------------------
(* CyuCore, built with the two files, and started *)

Loaded ==
  IF \E f \in DOMAIN disk : disk[f].content = Torn THEN Fail
  ELSE LoadVanillaConfiguration(disk["manifest"].content[1], disk["dataset"].content[1])

Start ==
  /\ pc = "idle" /\ server = Nothing
  /\ \A f \in DOMAIN disk : disk[f] # Nothing
  /\ server' = [packets |-> Loaded, of |-> disk["dataset"].of]
  /\ UNCHANGED << vanilla, pc, sessionVars, writeVars, runs, faults, exit >>

---------------------------------------------------------------------------
Handle ==
  \E packet \in {ReadPacket(link.frame)} :
    \/ ReadFails(packet) \/ ReplyFails(packet)
    \/ LoginRefused(packet) \/ LoginSucceeds(packet) \/ Ignored(packet) \/ Disconnected(packet)
    \/ KnownPacks(packet) \/ Echoed(packet) \/ RegistryData(packet) \/ UpdateTags(packet)
    \/ Finish(packet)

Write == CreateTemp \/ WriteTemp \/ SyncTemp \/ Rename

CaptureNext ==
  \/ Begin \/ VanillaSends \/ ConnectionLost \/ Deadline
  \/ Handle \/ Write \/ WriteFails \/ Killed \/ PowerFails \/ Start

\* The deadline passes, and a run that waits for nothing goes on
CaptureFairness == WF_captureVars(Deadline) /\ WF_captureVars(Write)

CaptureSpec == CaptureInit /\ [][CaptureNext]_captureVars /\ CaptureFairness
---------------------------------------------------------------------------
(* What a data set that is checked in must be *)

\* Whatever the capture leaves on disk, also if it is killed or power fails between any two
\* of its steps, CyuCore starts with it and can send every packet it makes of it
\* (MarshalDataset, writeFileAtomic; loadVanillaConfiguration26_2 must not fail).
CheckedInDataLoads == server # Nothing => Loads(server.packets)

\* CyuCore sends byte by byte what the vanilla server that was captured might have sent: no
\* value, key, order or numeric id is changed between its packets, the JSON and ours.
FaithfulToVanilla ==
  server # Nothing /\ server.of = vanilla /\ server.packets # Fail =>
    /\ Len(server.packets.registryData) = Len(ScenarioOf.registryForms)
    /\ \A i \in DOMAIN ScenarioOf.registryForms :
         server.packets.registryData[i] \in ScenarioOf.registryForms[i]
    /\ server.packets.updateTags \in ScenarioOf.tagForms

\* The manifest is the last of the two files that a run replaces: errors and kills, at any step,
\* never leave a manifest of this server beside an older data set or none (an older manifest
\* may stand beside a new data set), and after a run that is done both files are of its
\* server. Only a power failure breaks this, by undoing the replacement of the data set, or
\* of a file after the run, as writeFileAtomic does not sync the directory.
ManifestNotAhead ==
  /\ disk["manifest"] # Nothing /\ disk["manifest"].of = vanilla =>
       \/ disk["dataset"] # Nothing /\ disk["dataset"].of = vanilla
       \/ "dataset" \in lost
  /\ exit = "done" =>
       \A f \in DOMAIN disk \ lost : disk[f] # Nothing /\ disk[f].of = vanilla

\* What an undisturbed vanilla server sends is captured: no limit, form or value that the
\* network allows and JSON has a form for is refused on the way to the file.
WellFormedIsCaptured == ScenarioOf.sound /\ faults = 0 => exit # "refused"

\* Bytes that are no registry or no tags, a report that gives no static ids, a number JSON has
\* no form for: a run that meets one of these ends before it writes, whichever of the checks
\* on the way (reader, BuildDataset, JSON, runtime loader, protocol) is the one to see it.
IllFormedIsRefused == ~ScenarioOf.sound => exit # "done" /\ output = Nothing

\* Two captures of one server write the same data set, in whatever order and form its packets
\* come: the workflow compares the result with the file that is checked in.
Reproducible ==
  [][\A f \in DOMAIN disk :
       /\ disk[f] # Nothing /\ disk'[f] # Nothing
       /\ disk[f].of = disk'[f].of /\ disk'[f].content # Torn
       => disk'[f].content = disk[f].content]_captureVars

\* A run ends, whatever the server does or does not send, because the connection has a
\* deadline.
CaptureEnds == pc # "idle" ~> pc = "idle"
===================================================================================
