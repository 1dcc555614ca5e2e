---------------------------- MODULE MCVanillaCapture ----------------------------
(***************************************************************************)
(* The vanilla servers TLC tries on the capture. Their bytes are written   *)
(* out here and not made by the writers of the model, so that a mistake    *)
(* that the readers and the writers share shows as well. All servers hold  *)
(* two synchronized registries, a biome registry and one of damage types,  *)
(* and a static one of blocks; each is peculiar in one thing: the NBT of a *)
(* damage type, the frame of the registry, the tags, or the report.        *)
(***************************************************************************)
EXTENDS VanillaCapture, Nbt

Biome == 301
Block == 302
MCDamageType == 303
Preset == 304
Dirt == 311
Stone == 312
Fire == 313
Lava == 314
Plains == 315
MCIsFire == 321
IsLava == 322
Mineable == 323
Malformed == 399          \* a string that is not an identifier
Many(i) == 400 + i        \* the entries of a large registry

MCIdentifiers == {Biome, Block, MCDamageType, Preset, Dirt, Stone, Fire, Lava, Plains, MCIsFire,
                  IsLava, Mineable} \union {Many(i) : i \in 0..130}
MCSynchronizedRegistryKeys == << Biome, MCDamageType >>
MCHashes == {"jar", "report", "older jar", "older report"}

Key(k) == << 1, k >>

---------------------------------------------------------------------------
(* The forms of one tag on the network: a vanilla server may send any, and a key in any order *)

Values == [
  byteMin       |-> {<< 1, 128 >>},
  byteMax       |-> {<< 1, 127 >>},
  shortMin      |-> {<< 2, 128, 0 >>},
  shortLow      |-> {<< 2, 0, 255 >>},
  intNegative   |-> {<< 3, 255, 254 >>},
  longLowHalf   |-> {<< 4, 0, 0, 255, 255 >>},
  longHighHalf  |-> {<< 4, 255, 255, 0, 1 >>},
  longMin       |-> {<< 4, 128, 0, 0, 0 >>},
  longMax       |-> {<< 4, 127, 255, 255, 255 >>},
  floatMinus0   |-> {<< 5, 128, 0 >>},
  floatMax      |-> {<< 5, 123, 255 >>},
  doubleMax     |-> {<< 6, 255, 127, 255, 255 >>},
  bytes         |-> {<< 7, 0, 2, 128, 127 >>},
  noBytes       |-> {<< 7, 0, 0 >>},
  noString      |-> {<< 8, 0, 0 >>},
  stringNul     |-> {<< 8, 0, 2, 192, 128 >>},
  string7F      |-> {<< 8, 0, 1, 127 >>},
  string80      |-> {<< 8, 0, 2, 194, 128 >>},
  string7FF     |-> {<< 8, 0, 2, 223, 191 >>},
  string800     |-> {<< 8, 0, 3, 224, 160, 128 >>},
  stringFFFF    |-> {<< 8, 0, 3, 239, 191, 191 >>},
  string10000   |-> {<< 8, 0, 6, 237, 160, 128, 237, 176, 128 >>},
  string10FFFF  |-> {<< 8, 0, 7, 97, 237, 175, 191, 237, 191, 191 >>},
  stringLongest |-> {<< 8, 0, 8, 97, 98, 99, 100, 101, 102, 103, 104 >>},
  stringOverlong |-> {<< 8, 0, 2, 193, 161 >>, << 8, 0, 1, 97 >>},
  listEnd       |-> {<< 9, 0, 0, 0 >>},
  listNoBytes   |-> {<< 9, 1, 0, 0 >>},
  listInts      |-> {<< 9, 3, 0, 2, 0, 1, 255, 255 >>},
  listLists     |-> {<< 9, 9, 0, 2, 0, 0, 0, 1, 0, 1, 5 >>},
  listCompounds |-> {<< 9, 10, 0, 2, 0, 1, 0, 1, 97, 7, 0 >>},
  listIntArrays |-> {<< 9, 11, 0, 2, 0, 0, 0, 1, 255, 255 >>},
  compoundTwo   |-> {<< 10, 1, 0, 1, 97, 1, 8, 0, 1, 98, 0, 1, 99, 0 >>,
                     << 10, 8, 0, 1, 98, 0, 1, 99, 1, 0, 1, 97, 1, 0 >>},
  compoundKeys  |-> {<< 10, 1, 0, 3, 239, 191, 191, 1, 1, 0, 6, 237, 160, 128, 237, 176, 128, 2, 0 >>,
                     << 10, 1, 0, 6, 237, 160, 128, 237, 176, 128, 2, 1, 0, 3, 239, 191, 191, 1, 0 >>},
  compoundNoInts |-> {<< 10, 11, 0, 1, 97, 0, 0, 0 >>},
  compoundDeepest |-> {<< 10, 10, 0, 1, 97, 10, 0, 1, 97, 1, 0, 1, 97, 5, 0, 0, 0 >>},
  ints          |-> {<< 11, 0, 2, 128, 0, 0, 1 >>},
  noInts        |-> {<< 11, 0, 0 >>},
  longs         |-> {<< 12, 0, 2, 0, 0, 255, 255, 255, 255, 128, 0 >>},
  noLongs       |-> {<< 12, 0, 0 >>}]

\* Not NBT, or a number that JSON has no form for
BadValues == [
  root          |-> << 0 >>,
  rootType      |-> << 13, 0 >>,
  shortCut      |-> << 2, 0 >>,
  floatNaN      |-> << 5, 126, 0 >>,
  doubleInf     |-> << 6, 255, 128, 0, 0 >>,
  stringHigh    |-> << 8, 0, 3, 237, 160, 128 >>,
  stringLow     |-> << 8, 0, 3, 237, 176, 128 >>,
  stringZero    |-> << 8, 0, 1, 0 >>,
  stringTail    |-> << 8, 0, 1, 194 >>,
  string4Bytes  |-> << 8, 0, 4, 240, 144, 128, 128 >>,
  listType      |-> << 9, 13, 0, 0 >>,
  listOfEnd     |-> << 9, 0, 0, 1 >>,
  listLength    |-> << 9, 1, 255, 255 >>,
  entryType     |-> << 10, 13, 0, 1, 97, 0 >>,
  keyTwice      |-> << 10, 1, 0, 1, 97, 1, 1, 0, 2, 193, 161, 1, 0 >>,
  noEnd         |-> << 10, 1, 0, 1, 97, 1 >>,
  tooDeep       |-> << 9, 9, 0, 1, 9, 0, 1, 9, 0, 1, 1, 0, 1, 5 >>]

EmptyCompound == << 10, 0 >>
BiomeData == Key(Biome) \o << 1 >> \o Key(Plains) \o << 1 >> \o EmptyCompound
DamageData(data) == Key(MCDamageType) \o << 2 >> \o Key(Fire) \o << 1 >> \o data
                      \o Key(Lava) \o << 1 >> \o EmptyCompound

\* Payloads of RegistryData that are not one registry with all its data
BadRegistries == [
  trailing      |-> Append(DamageData(EmptyCompound), 0),
  marker        |-> Key(MCDamageType) \o << 1 >> \o Key(Fire) \o << 2 >> \o EmptyCompound,
  noData        |-> Key(MCDamageType) \o << 1 >> \o Key(Fire) \o << 0 >>,
  entryTwice    |-> Key(MCDamageType) \o << 2 >> \o Key(Fire) \o << 1 >> \o EmptyCompound
                      \o Key(Fire) \o << 1 >> \o EmptyCompound,
  entryName     |-> Key(MCDamageType) \o << 1 >> \o Key(Malformed) \o << 1 >> \o EmptyCompound,
  noName        |-> << 0, 0 >>,
  nameTooLong   |-> << 4, MCDamageType, 97, 97, 97, 0 >>,
  negative      |-> Key(MCDamageType) \o << 255, 255, 255, 255, 15 >>,
  tooMany       |-> Key(MCDamageType) \o << 129, 8 >>,
  sixBytes      |-> Key(MCDamageType) \o << 128, 128, 128, 128, 128, 0 >>]

---------------------------------------------------------------------------
(* Tags *)

Tag(key, ids) == Key(key) \o << Len(ids) >> \o FlattenSeq(ids)
ID(n) == IF n < 128 THEN << n >> ELSE << 128 + (n % 128), n \div 128 >>
Group(key, tags) == Key(key) \o << Len(tags) >> \o FlattenSeq(tags)

\* The groups, and the tags of a group, come in any order
Groups(groups) == {<< Len(groups) >> \o FlattenSeq(order) : order \in SetToSeqs(ToSet(groups))}

FireTag == Tag(MCIsFire, << ID(0), ID(1) >>)
LavaTag == Tag(IsLava, << ID(1) >>)
FireGroup == Group(MCDamageType, << FireTag >>)
BlockGroup(ids) == Group(Block, << Tag(Mineable, ids) >>)

Tags == [
  plain     |-> Groups(<< FireGroup, BlockGroup(<< ID(1), ID(0) >>) >>),
  groups    |-> Groups(<< FireGroup, BlockGroup(<< ID(1) >>), Group(Biome, << Tag(Mineable, <<>>) >>) >>),
  tags      |-> Groups(<< Group(MCDamageType, << FireTag, LavaTag >>) >>)
                  \union Groups(<< Group(MCDamageType, << LavaTag, FireTag >>) >>),
  noBlocks  |-> Groups(<< FireGroup >>),
  overlong  |-> Groups(<< FireGroup, BlockGroup(<< << 129, 0 >> >>) >>)
                  \union Groups(<< FireGroup, BlockGroup(<< << 1 >> >>) >>)]

BadTags == [
  outside   |-> Groups(<< FireGroup, BlockGroup(<< ID(2) >>) >>),
  negative  |-> Groups(<< FireGroup, BlockGroup(<< << 128, 128, 128, 128, 8 >> >>) >>),
  idTwice   |-> Groups(<< FireGroup, BlockGroup(<< ID(1), ID(1) >>) >>),
  groupTwice |-> {<< 2 >> \o FireGroup \o FireGroup},
  tagTwice  |-> Groups(<< Group(MCDamageType, << FireTag, FireTag >>) >>),
  noTags    |-> Groups(<< FireGroup, Group(Block, <<>>) >>),
  noFire    |-> Groups(<< Group(MCDamageType, << LavaTag >>) >>),
  noDamage  |-> Groups(<< BlockGroup(<< ID(0) >>) >>),
  preset    |-> Groups(<< FireGroup, Group(Preset, << Tag(Mineable, << ID(0) >>) >>) >>),
  unknown   |-> Groups(<< FireGroup, Group(Dirt, << Tag(Mineable, << ID(0) >>) >>) >>),
  trailing  |-> {<< 1 >> \o FireGroup \o << 0 >>}]

---------------------------------------------------------------------------
(* Reports, in which names and ids go different ways *)

Reported(id, entries) == [id |-> id, default |-> <<>>, entries |-> entries]
Blocks == Stone :> << 0 >> @@ Dirt :> << 1 >>
Report(blocks) == Block :> Reported(<< 1 >>, blocks)
                    @@ Preset :> Reported(<< 0 >>, Plains :> << 0 >>)
                    @@ Biome :> Reported(<<>>, Plains :> <<>>)
ManyBlocks == [k \in {Many(i) : i \in 0..130} |-> << 130 - (k - Many(0)) >>]

BadReports == [
  gap       |-> Report(Stone :> << 0 >> @@ Dirt :> << 2 >>),
  noID      |-> Report(Stone :> << 0 >> @@ Dirt :> <<>>),
  idTwice   |-> Report(Stone :> << 0 >> @@ Dirt :> << 0 >>),
  negative  |-> Report(Stone :> << 0 >> @@ Dirt :> << -1 >>),
  name      |-> Report(Stone :> << 0 >> @@ Malformed :> << 1 >>),
  default   |-> Block :> [id |-> << 0 >>, default |-> << Lava >>, entries |-> Blocks],
  registryTwice |-> Report(Blocks) @@ Lava :> Reported(<< 1 >>, <<>>),
  noBlocks  |-> Preset :> Reported(<< 0 >>, Plains :> << 0 >>)]

---------------------------------------------------------------------------
Plain == [registryForms |-> << {BiomeData}, {DamageData(EmptyCompound)} >>,
          tagForms |-> Tags.plain, report |-> Report(Blocks),
          jar |-> "jar", reportHash |-> "report",
          faults |-> 0,       \* bound: how often the server sends what is out of place
          sound |-> TRUE]     \* whether a vanilla server may hold and send this
Faulty(scenario) == [scenario EXCEPT !.sound = FALSE]

WithValue(forms) == [Plain EXCEPT !.registryForms[2] = {DamageData(data) : data \in forms}]

MCScenarios ==
  [s \in {<< "plain" >>} |-> [Plain EXCEPT !.faults = 2]]
  @@ [s \in {"value"} \X DOMAIN Values |-> WithValue(Values[s[2]])]
  @@ [s \in {"bad value"} \X DOMAIN BadValues |-> Faulty(WithValue({BadValues[s[2]]}))]
  @@ [s \in {"bad registry"} \X DOMAIN BadRegistries |->
        Faulty([Plain EXCEPT !.registryForms[2] = {BadRegistries[s[2]]}])]
  @@ [s \in {"tags"} \X DOMAIN Tags |-> [Plain EXCEPT !.tagForms = Tags[s[2]]]]
  @@ [s \in {"bad tags"} \X DOMAIN BadTags |-> Faulty([Plain EXCEPT !.tagForms = BadTags[s[2]]])]
  @@ [s \in {"bad report"} \X DOMAIN BadReports |-> Faulty([Plain EXCEPT !.report = BadReports[s[2]]])]
  @@ [s \in {<< "large" >>} |->
        [Plain EXCEPT !.report = Report(ManyBlocks),
                      !.tagForms = Groups(<< FireGroup, BlockGroup(<< ID(127), ID(128), ID(130) >>) >>)]]
  @@ [s \in {<< "bad jar" >>} |-> Faulty([Plain EXCEPT !.jar = "unknown"])]

\* What an earlier version left: the plain data set without its block tags
OlderFile(content) == [content |-> << content >>, synced |-> TRUE, of |-> << "older" >>]
MCOlder ==
  [dataset |-> OlderFile(
     [registries |-> << [key |-> Biome, entries |-> <<>>],
                        [key |-> MCDamageType,
                         entries |-> << [key |-> Fire, data |-> << "node", "compound", << "fields", <<>> >> >>] >>] >>,
      tags |-> << [key |-> MCDamageType, tags |-> << [key |-> MCIsFire, entries |-> << Fire >>] >>] >>]),
   manifest |-> OlderFile([jar |-> "older jar", report |-> "older report"])]

===================================================================================
