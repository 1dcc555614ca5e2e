------------------------------- MODULE Registries -------------------------------
(***************************************************************************)
(* The registry model (internal/registry), the data set it is loaded from, *)
(* and the Configuration packets of protocol 776 made of it                *)
(* (internal/protocol/java/v776).                                          *)
(*                                                                         *)
(* A registry is [key, entries], an entry [key, data]; its numeric id is   *)
(* its place, from 0.  A tag group is [key, tags], a tag [key, entries].   *)
(***************************************************************************)
EXTENDS Wire, Functions, FiniteSets

\* internal/nbt, module Nbt: a value, read from a stream of the network and written to one, and
\* its JSON.  Nothing here or in the modules above depends on what a value is.
CONSTANTS ReadValue(_), WriteValue(_),
          ValueOfJSON(_), JSONOfValue(_),
          NoValue, NullJSON

CONSTANTS Identifiers,              \* what ParseIdentifier accepts
          SynchronizedRegistryKeys, \* in the order of their packets
          DamageType, IsFire

ASSUME KeysAssumption == /\ Identifiers \subseteq {n \in Nat : n > 255}
                         /\ {DamageType, IsFire} \subseteq Identifiers
                         /\ SynchronizedRegistryKeys \in Seq(Identifiers) \ {<<>>}

RegistryDataID == 7
UpdateTagsID == 13

ReadIdentifier(b) ==
  Then(ReadString(b), LAMBDA s, rest :
    IF Len(s) = 1 /\ s[1] \in Identifiers THEN << s[1], rest >> ELSE Fail)

Keys(items) == [i \in DOMAIN items |-> items[i].key]

\* Whether a sequence of registries, groups or tags has one with this key, and which
Has(items, key) == \E i \in DOMAIN items : items[i].key = key
Get(items, key) == items[CHOOSE i \in DOMAIN items : items[i].key = key]

NewRegistry(key, entries) ==
  IF {key} \union ToSet(Keys(entries)) \subseteq Identifiers /\ IsInjective(Keys(entries))
  THEN [key |-> key, entries |-> entries] ELSE Fail

EntryIDFromOne(reg, key) == CHOOSE i \in DOMAIN reg.entries : reg.entries[i].key = key

EntryID(reg, key) == (CHOOSE i \in DOMAIN reg.entries : reg.entries[i].key = key) - 1

\* A group names a registry of the set, and its tags name entries of that registry
LegalTagGroup(registries, group) ==
  /\ Has(registries, group.key)
  /\ ToSet(Keys(group.tags)) \subseteq Identifiers
  /\ IsInjective(Keys(group.tags))
  /\ \A i \in DOMAIN group.tags :
       LET entries == group.tags[i].entries
       IN /\ IsInjective(entries)
          /\ ToSet(entries) \subseteq ToSet(Keys(Get(registries, group.key).entries))

NewSet(registries, groups) ==
  IF /\ IsInjective(Keys(registries))
     /\ IsInjective(Keys(groups))
     /\ \A g \in DOMAIN groups : LegalTagGroup(registries, groups[g])
  THEN [registries |-> registries, groups |-> groups] ELSE Fail

\* The numbers of a finite set, from the least to the greatest
Ascending(S) == [i \in 1..Cardinality(S) |->
                   CHOOSE n \in S : Cardinality({m \in S : m < n}) = i - 1]

---------------------------------------------------------------------------
(* The data set, whose entries carry the JSON of their data, or none *)

Omitted == <<>>

\* << the value >>, nil if there is no data
DecodeOptionalNBT(json) ==
  IF json = Omitted \/ json = NullJSON THEN << NoValue >>
  ELSE Made(<< ValueOfJSON(json) >>, LAMBDA value : value)

DecodeRegistry(definition) ==
  Made([i \in DOMAIN definition.entries |-> DecodeOptionalNBT(definition.entries[i].data)], LAMBDA data :
    NewRegistry(definition.key,
                [i \in DOMAIN data |-> [key |-> definition.entries[i].key, data |-> data[i][1]]]))

DecodeDataset(dataset) ==
  Made([i \in DOMAIN dataset.registries |-> DecodeRegistry(dataset.registries[i])], LAMBDA registries :
    NewSet(registries, dataset.tags))

---------------------------------------------------------------------------
(* Protocol 776 *)

RegistryDataRegistries(set) ==
  IF ToSet(SynchronizedRegistryKeys) \subseteq ToSet(Keys(set.registries))
  THEN [i \in DOMAIN SynchronizedRegistryKeys |-> Get(set.registries, SynchronizedRegistryKeys[i])]
  ELSE Fail

ValidConfigurationSet(set) ==
  /\ RegistryDataRegistries(set) # Fail
  /\ Has(set.groups, DamageType)
  /\ Has(Get(set.groups, DamageType).tags, IsFire)

\* The data is optional: a boolean, and not TAG_End, says whether it is there
EncodeRegistryData(reg) ==
  LET Data(entry) == IF entry.data = NoValue THEN << 0 >>
                     ELSE Join(<< << 1 >>, WriteValue(entry.data) >>)
      Entry(entry) == Join(<< AppendString(<<>>, << entry.key >>), Data(entry) >>)
  IN Join(<< AppendVarInt(AppendString(<<>>, << reg.key >>), Len(reg.entries)) >>
          \o [i \in DOMAIN reg.entries |-> Entry(reg.entries[i])])

\* The groups in the order of their registries, and the ids that order gives their entries
TagGroups(set) ==
  LET places == Ascending({i \in DOMAIN set.registries : Has(set.groups, set.registries[i].key)})
      Tag(reg, tag) == [key |-> tag.key,
                        ids |-> [k \in DOMAIN tag.entries |-> EntryID(reg, tag.entries[k])]]
      Tags(reg, tags) == [j \in DOMAIN tags |-> Tag(reg, tags[j])]
      Group(reg) == [key |-> reg.key, tags |-> Tags(reg, Get(set.groups, reg.key).tags)]
  IN [i \in DOMAIN places |-> Group(set.registries[places[i]])]

WriteTagGroups(groups) ==
  LET Tag(tag) == FoldLeft(AppendVarInt,
                           AppendVarInt(AppendString(<<>>, << tag.key >>), Len(tag.ids)), tag.ids)
      Group(group) == AppendVarInt(AppendString(<<>>, << group.key >>), Len(group.tags))
                        \o FlattenSeq([j \in DOMAIN group.tags |-> Tag(group.tags[j])])
  IN AppendVarInt(<<>>, Len(groups)) \o FlattenSeq([i \in DOMAIN groups |-> Group(groups[i])])

EncodeUpdateTags(set) == WriteTagGroups(TagGroups(set))
=================================================================================
