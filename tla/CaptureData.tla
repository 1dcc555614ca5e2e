------------------------------ MODULE CaptureData -------------------------------
(***************************************************************************)
(* What the capture client makes of the packets of a vanilla server        *)
(* (internal/vanilla/capture) and of the report of Mojang's data generator *)
(* (internal/vanilla/datagen): the data set and its manifest.              *)
(***************************************************************************)
EXTENDS Registries

CONSTANTS MaxCollectionEntries,
          WorldPreset,
          Hashes          \* the strings that are a SHA-256

ASSUME CollectionAssumption == MaxCollectionEntries \in Nat

ReadCount(b) == Then(ReadVarInt(b), LAMBDA n, rest :
                  IF n \in 0..MaxCollectionEntries THEN << n, rest >> ELSE Fail)

\* A value and nothing behind it
Whole(read) == Then(read, LAMBDA v, rest : IF rest = <<>> THEN v ELSE Fail)

\* An entry of a registry, with its data if requireData
ReadEntry(b, requireData) ==
  LET Data(s) == Then(ReadByte(s), LAMBDA present, rest :
                   IF present = 1 THEN ReadValue(rest)
                   ELSE IF present = 0 /\ ~requireData THEN << NoValue, rest >> ELSE Fail)
  IN Then(ReadIdentifier(b), LAMBDA key, b1 :
       Then(Data(b1), LAMBDA data, rest : << [key |-> key, data |-> data], rest >>))

ReadEntries(n, b, requireData) == Repeat(n, LAMBDA s : ReadEntry(s, requireData), b)

\* One registry
DecodeRegistryData(payload, requireData) ==
  Whole(Then(ReadIdentifier(payload), LAMBDA key, b : Then(ReadCount(b), LAMBDA n, b1 :
    Then(ReadEntries(n, b1, requireData), LAMBDA entries, rest :
      IF IsInjective(Keys(entries)) THEN << NewRegistry(key, entries), rest >> ELSE Fail))))

ReadID(b) == Then(ReadVarInt(b), LAMBDA id, rest : IF id \in Nat THEN << id, rest >> ELSE Fail)
ReadIDs(n, b) == Repeat(n, ReadID, b)

\* [key, ids]; an id twice goes unnoticed
ReadTag(b) ==
  Then(ReadIdentifier(b), LAMBDA key, b1 : Then(ReadCount(b1), LAMBDA n, b2 :
    Then(ReadIDs(n, b2), LAMBDA ids, rest : << [key |-> key, ids |-> ids], rest >>)))
ReadTags(n, b) == Repeat(n, ReadTag, b)

\* [key, tags], not empty, and no tag twice
ReadTagGroup(b) ==
  Then(ReadIdentifier(b), LAMBDA key, b1 : Then(ReadCount(b1), LAMBDA n, b2 :
    Then(ReadTags(n, b2), LAMBDA tags, rest :
      IF tags = <<>> \/ ~IsInjective(Keys(tags)) THEN Fail
      ELSE << [key |-> key, tags |-> tags], rest >>)))
ReadTagGroups(n, b) == Repeat(n, ReadTagGroup, b)

\* << the groups >>, with the numeric ids of the entries, and no group twice
DecodeUpdateTags(payload) ==
  Whole(Then(ReadCount(payload), LAMBDA n, b : Then(ReadTagGroups(n, b), LAMBDA groups, rest :
    IF IsInjective(Keys(groups)) THEN << << groups >>, rest >> ELSE Fail)))

InSequence(registries) == Keys(registries) = SynchronizedRegistryKeys

---------------------------------------------------------------------------
(* reports/registries.json: each registry, and each of its entries, has a  *)
(* protocol id (<< id >>) or none (<<>>).                                  *)

\* The entries in the order of their ids, those without one behind them by name
DecodeReport(report) ==
  LET LegalIDs(ids) == \A k \in DOMAIN ids : ids[k] # <<>> =>
                         ids[k][1] >= 0 /\ \A l \in DOMAIN ids : ids[l] = ids[k] => l = k
      Ordered(ids) == SortSeq(FoldSet(LAMBDA k, all : Append(all, k), <<>>, DOMAIN ids), LAMBDA k, l :
                        IF ids[k] = ids[l] THEN k < l
                        ELSE IF <<>> \in {ids[k], ids[l]} THEN ids[l] = <<>> ELSE ids[k][1] < ids[l][1])
      Entries(ids) == LET order == Ordered(ids)
                      IN [i \in DOMAIN order |-> [key |-> order[i], id |-> ids[order[i]]]]
  IN IF /\ DOMAIN report \subseteq Identifiers
        /\ LegalIDs([key \in DOMAIN report |-> report[key].id])
        /\ \A key \in DOMAIN report :
             /\ DOMAIN report[key].entries \subseteq Identifiers
             /\ LegalIDs(report[key].entries)
             /\ ToSet(report[key].default) \subseteq DOMAIN report[key].entries
     THEN << [key \in DOMAIN report |-> Entries(report[key].entries)] >> ELSE Fail

\* Items of which no two have one key, in the order of their keys
ByKeyAsReceived(items) == items

ByKey(items) == LET keys == Ascending(ToSet(Keys(items)))
                IN [i \in DOMAIN keys |-> Get(items, keys[i])]

\* A registry of the session, with the JSON of its data
SynchronizedDefinition(reg) ==
  Made([i \in DOMAIN reg.entries |-> JSONOfValue(reg.entries[i].data)], LAMBDA data :
    [key |-> reg.key,
     entries |-> [i \in DOMAIN data |-> [key |-> reg.entries[i].key, data |-> data[i]]]])

\* A registry that only the tags need, in the order of its ids, of which none is missing
StaticDefinition(key, report) ==
  IF key \in DOMAIN report /\ \A i \in DOMAIN report[key] : report[key][i].id = << i - 1 >>
  THEN [key |-> key,
        entries |-> [i \in DOMAIN report[key] |-> [key |-> report[key][i].key, data |-> Omitted]]]
  ELSE Fail

\* A group with its tags in the order of their keys, and names in the place of ids
TagGroupDefinition(group, entries) ==
  LET Tag(tag) == [key |-> tag.key, entries |-> [k \in DOMAIN tag.ids |-> entries[tag.ids[k] + 1].key]]
      Tags(tags) == [j \in DOMAIN tags |-> Tag(tags[j])]
  IN [key |-> group.key, tags |-> Tags(ByKey(group.tags))]

\* The groups, which have the order of their keys, if there is an entry for every id
TagDefinitions(registries, groups) ==
  LET Entries(group) == Get(registries, group.key).entries
      IDsExist(group) == \A tag \in ToSet(group.tags) : \A id \in ToSet(tag.ids) :
                           id + 1 \in DOMAIN Entries(group)
  IN IF \A g \in DOMAIN groups : IDsExist(groups[g])
     THEN << [g \in DOMAIN groups |-> TagGroupDefinition(groups[g], Entries(groups[g]))] >> ELSE Fail

\* The registries that only tags need, in the order of their keys
StaticKeys(synchronized, groups) == Ascending(ToSet(Keys(groups)) \ ToSet(Keys(synchronized)))

\* The registries in the order of their packets, then those that only tags need
RegistryDefinitions(synchronized, groups, report) ==
  LET static == StaticKeys(synchronized, groups)
  IN [i \in DOMAIN synchronized |-> SynchronizedDefinition(synchronized[i])]
       \o [i \in DOMAIN static |-> StaticDefinition(static[i], report)]

BuildDataset(synchronized, groups, report) ==
  LET Dataset(registries, tags) == IF tags = Fail THEN Fail
                                   ELSE [registries |-> registries, tags |-> tags[1]]
  IN IF ~IsInjective(Keys(synchronized)) \/ ~IsInjective(Keys(groups)) THEN Fail
     ELSE Made(RegistryDefinitions(synchronized, groups, report), LAMBDA registries :
            Dataset(registries, TagDefinitions(registries, ByKey(groups))))

\* The set that the runtime loader finds in the data set, whose bytes are written only
\* if there is one
MarshalDataset(dataset) == DecodeDataset(dataset)

---------------------------------------------------------------------------
(* The manifest: the hash of the server and of the report *)

ValidManifest(manifest) == {manifest.jar, manifest.report} \subseteq Hashes

WriteManifest(manifest) == IF ValidManifest(manifest) THEN manifest ELSE Fail

\* The packets every client is sent in Configuration
ConfigurationPackets(set) ==
  LET registries == RegistryDataRegistries(set)
  IN Made([i \in DOMAIN registries |-> EncodeRegistryData(registries[i])], LAMBDA registryData :
       [registryData |-> registryData, updateTags |-> EncodeUpdateTags(set)])

ValidSet(set) == set # Fail /\ ValidConfigurationSet(set)

\* What vanilla_data.go embeds, the manifest and the data set, is checked
LoadVanillaConfiguration(manifest, dataset) ==
  LET Configuration(set) == IF ValidSet(set) THEN ConfigurationPackets(set) ELSE Fail
  IN IF ValidManifest(manifest) THEN Configuration(DecodeDataset(dataset)) ELSE Fail
=================================================================================
