---------------------------- MODULE LookupTables ----------------------------
(***************************************************************************)
(* What a generator looks up and then keeps for good: the names of runtime *)
(* ids, in a table that is read without a lock and replaced by a copy; the *)
(* memos of pure functions under a read-write mutex; the registries that   *)
(* decode embedded definitions under a mutex; and the configuration that a *)
(* definition decodes once for all of its copies.                          *)
(***************************************************************************)
EXTENDS Integers

CONSTANTS
  Askers,          \* goroutines
  NoAsker,         \* the holder of a free mutex
  BlockName,       \* featureBlockName of every registered runtime id
  AskedIDs,        \* runtime ids that are asked for
  Headroom,        \* 1024: how far a new table reaches past the id it is made for
  RegisteredState, \* the runtime id of each registered <<name, properties>>
  FixedBlock,      \* the five blocks lookupSurfaceBlock knows by name
  NoProperties, AirRID,
  MemoKeys,        \* the keys asked of each memo
  Noise, Level,    \* what a noise and a preliminary surface level work out to
  Embedded,        \* for each registry the definition embedded under each name
  RawTemplate,     \* for each template the bytes that base64 makes of it
  Template,        \* what gzip and nbt make of such bytes
  Accessors,       \* [expected: the types asked for, as: the Go type decoded into]
  Decoded,         \* for each configuration what json makes of it as each Go type
  Unheard,         \* a name that is embedded nowhere
  NotFound,        \* the answer about a thing there is not
  Failed,          \* the answer of a decoding that returned an error
  Unset            \* the "" of a cell of the table that nobody stored to

\* Each expected type has one Go type, whichever accessor names it.
OneGoType ==
  \A p, q \in Accessors : p.expected \cap q.expected # {} => p.as = q.as

ASSUME LookupAssumption ==
  /\ NoAsker \notin Askers
  /\ AskedIDs \subseteq Nat /\ Headroom \in Nat \ {0}
  /\ \A rid \in DOMAIN BlockName : BlockName[rid] # Unset
  /\ \A r \in DOMAIN Embedded : Unheard \notin DOMAIN Embedded[r]
  /\ Unheard \notin DOMAIN RawTemplate
  /\ OneGoType

VARIABLES
  names,         \* runtimeIDNameCache.names: the published table
  tableLock,     \* who holds runtimeIDNameCache.mu
  memo,          \* the memos' maps
  loaded,        \* the registries' maps
  rawLoaded,     \* WorldgenRegistry.structureTemplates
  templateOf,    \* StructureTemplateRegistry.cache
  templateLock,  \* who holds StructureTemplateRegistry.mu
  entry,         \* typedJSONCache.entry of each loaded definition that has one
  doing,         \* where each goroutine is between two steps
  answers        \* history: every <<question, answer>> so far

tableVars == <<names, tableLock>>
registryVars == <<loaded, rawLoaded, templateOf, templateLock, entry>>
lookupVars == <<tableVars, memo, registryVars, doing, answers>>

Idle == [at |-> "idle"]

LookupInit ==
  /\ names = << >> /\ tableLock = NoAsker
  /\ memo = [m \in DOMAIN MemoKeys |-> << >>]
  /\ loaded = [r \in DOMAIN Embedded |-> << >>]
  /\ rawLoaded = << >> /\ templateOf = << >> /\ templateLock = NoAsker
  /\ entry = << >>
  /\ doing = [g \in Askers |-> Idle]
  /\ answers = {}

Answer(g, question, answer) ==
  /\ answers' = answers \cup {<<question, answer>>}
  /\ doing' = [doing EXCEPT ![g] = Idle]

-----------------------------------------------------------------------------
(***************************************************************************)
(* Names of runtime ids.                                                   *)
(***************************************************************************)
NameQuestion(rid) == [kind |-> "name", rid |-> rid]

\* Lookup: one load of the pointer; the table behind it never changes.
NameKnown(rid) == rid \in DOMAIN names /\ names[rid] # Unset

\* blockNameForRuntimeID and its two twins: a block the registry does not know
\* is air and is not remembered.
AskName(g, rid) ==
  /\ doing[g] = Idle
  /\ \/ NameKnown(rid) /\ Answer(g, NameQuestion(rid), names[rid])
     \/ ~NameKnown(rid) /\ rid \notin DOMAIN BlockName /\ Answer(g, NameQuestion(rid), "air")
     \/ /\ ~NameKnown(rid) /\ rid \in DOMAIN BlockName
        /\ doing' = [doing EXCEPT ![g] = [at |-> "storing", rid |-> rid]]
        /\ UNCHANGED answers
  /\ UNCHANGED <<tableVars, memo, registryVars>>

\* Store takes the lock and only then loads the table it will copy.
TableFreeAlways == TRUE
TableFree == tableLock = NoAsker
LockTable(g) ==
  /\ doing[g].at = "storing" /\ TableFree
  /\ tableLock' = g
  /\ doing' = [doing EXCEPT ![g] = [at |-> "copying", rid |-> doing[g].rid, old |-> names]]
  /\ UNCHANGED <<names, memo, registryVars, answers>>

\* The copy has the room of the old table, or reaches past the id.
Grown(old, rid) ==
  [i \in (IF rid \in DOMAIN old THEN DOMAIN old ELSE 0 .. rid + Headroom - 1) |->
     IF i \in DOMAIN old THEN old[i] ELSE Unset]

PublishTable(g) ==
  /\ doing[g].at = "copying"
  /\ LET rid == doing[g].rid
         old == doing[g].old
     IN /\ names' = [Grown(old, rid) EXCEPT ![rid] = BlockName[rid]]
        /\ Answer(g, NameQuestion(rid), BlockName[rid])
  /\ tableLock' = NoAsker
  /\ UNCHANGED <<memo, registryVars>>

-----------------------------------------------------------------------------
(***************************************************************************)
(* Memos of pure functions: a miss is worked out with no lock held.        *)
(***************************************************************************)
Registered(name, properties) == <<name, properties>> \in DOMAIN RegisteredState

\* A surface block whose properties are not registered is tried without them.
SurfaceBlock(name, properties) ==
  CASE name \in DOMAIN FixedBlock -> FixedBlock[name]
    [] name \notin DOMAIN FixedBlock /\ Registered(name, properties) ->
         RegisteredState[<<name, properties>>]
    [] name \notin DOMAIN FixedBlock /\ ~Registered(name, properties)
         /\ Registered(name, NoProperties) -> RegisteredState[<<name, NoProperties>>]
    [] OTHER -> AirRID

TemplateBlock(name, properties) ==
  IF Registered(name, properties) THEN RegisteredState[<<name, properties>>] ELSE NotFound

ThresholdNoise(data) == Noise[data]

\* A dimension without the density root has no level to keep.
PreliminaryLevel(column) == IF column \in DOMAIN Level THEN Level[column] ELSE NotFound

WorkedOut(m, key) ==
  CASE m = "surfaceBlock" -> SurfaceBlock(key[1], key[2])
    [] m = "templateBlock" -> TemplateBlock(key[1], key[2])
    [] m = "noise" -> ThresholdNoise(key)
    [] m = "level" -> PreliminaryLevel(key)

MemoQuestion(m, key) == [kind |-> "memo", memo |-> m, key |-> key]

AskMemo(g, m, key) ==
  /\ doing[g] = Idle
  /\ \/ key \in DOMAIN memo[m] /\ Answer(g, MemoQuestion(m, key), memo[m][key])
     \/ /\ key \notin DOMAIN memo[m]
        /\ doing' = [doing EXCEPT ![g] = [at |-> "computing", memo |-> m, key |-> key]]
        /\ UNCHANGED answers
  /\ UNCHANGED <<tableVars, memo, registryVars>>

AskSurfaceBlock(g, m, key) == m = "surfaceBlock" /\ AskMemo(g, m, key)
AskTemplateBlock(g, m, key) == m = "templateBlock" /\ AskMemo(g, m, key)
AskNoise(g, m, key) == m = "noise" /\ AskMemo(g, m, key)
AskLevel(g, m, key) == m = "level" /\ AskMemo(g, m, key)

With(f, x, value) == [y \in DOMAIN f \cup {x} |-> IF y = x THEN value ELSE f[y]]

StoreMemo(g) ==
  /\ doing[g].at = "computing"
  /\ LET m == doing[g].memo
         key == doing[g].key
         value == WorkedOut(m, key)
     IN /\ memo' = IF value = NotFound THEN memo
                   ELSE [memo EXCEPT ![m] = With(memo[m], key, value)]
        /\ Answer(g, MemoQuestion(m, key), value)
  /\ UNCHANGED <<tableVars, registryVars>>

-----------------------------------------------------------------------------
(***************************************************************************)
(* Registries: one mutex is held from the look to the store, so a name is  *)
(* decoded once. What does not decode is kept with its error; a name that  *)
(* is not embedded is asked for again every time.                          *)
(***************************************************************************)
DefinitionQuestion(r, name) == [kind |-> "definition", registry |-> r, name |-> name]

Define(g, r, name) ==
  /\ doing[g] = Idle
  /\ IF name \in DOMAIN Embedded[r]
     THEN /\ loaded' = [loaded EXCEPT ![r] =
                          IF name \in DOMAIN loaded[r] THEN @ ELSE With(@, name, Embedded[r][name])]
          /\ Answer(g, DefinitionQuestion(r, name), loaded'[r][name])
     ELSE Answer(g, DefinitionQuestion(r, name), NotFound) /\ UNCHANGED loaded
  /\ UNCHANGED <<tableVars, memo, rawLoaded, templateOf, templateLock, entry>>

DefineFeature(g, r, name) == r \in {"placed", "configured"} /\ Define(g, r, name)
DefineCarver(g, r, name) == r = "carver" /\ Define(g, r, name)
DefineWorldgen(g, r, name) == r = "worldgen" /\ Define(g, r, name)
\* namedRandomFactory draws a factory for any name.
NameFactory(g, r, name) == r = "gradient" /\ name # Unheard /\ Define(g, r, name)

TemplateQuestion(name) == [kind |-> "template", name |-> name]

\* The registry of templates keeps its own lock while it asks the other one.
AskTemplate(g, name) ==
  /\ doing[g] = Idle /\ templateLock = NoAsker
  /\ \/ name \in DOMAIN templateOf /\ Answer(g, TemplateQuestion(name), templateOf[name])
          /\ UNCHANGED templateLock
     \/ /\ name \notin DOMAIN templateOf
        /\ templateLock' = g
        /\ doing' = [doing EXCEPT ![g] = [at |-> "fetching", name |-> name]]
        /\ UNCHANGED answers
  /\ UNCHANGED <<tableVars, memo, loaded, rawLoaded, templateOf, entry>>

FetchTemplate(g) ==
  /\ doing[g].at = "fetching"
  /\ LET name == doing[g].name
     IN /\ rawLoaded' = IF name \in DOMAIN rawLoaded \/ name \notin DOMAIN RawTemplate THEN rawLoaded
                        ELSE With(rawLoaded, name, RawTemplate[name])
        /\ doing' = [doing EXCEPT ![g] =
             [at |-> "reading", name |-> name,
              data |-> IF name \in DOMAIN rawLoaded' THEN rawLoaded'[name] ELSE Failed]]
  /\ UNCHANGED <<tableVars, memo, loaded, templateOf, templateLock, entry, answers>>

\* An error is kept too, even that of a name nobody embedded.
KeepTemplate(g) ==
  /\ doing[g].at = "reading"
  /\ LET name == doing[g].name
         template == IF doing[g].data = Failed THEN Failed ELSE Template[doing[g].data]
     IN templateOf' = With(templateOf, name, template) /\ Answer(g, TemplateQuestion(name), template)
  /\ templateLock' = NoAsker
  /\ UNCHANGED <<tableVars, memo, loaded, rawLoaded, entry>>

-----------------------------------------------------------------------------
(***************************************************************************)
(* Typed configurations. Copies of a definition share its cell.            *)
(***************************************************************************)
HasCell(r) == r \in {"configured", "carver"}

ConfigQuestion(cell, accessor) == [kind |-> "config", cell |-> cell, accessor |-> accessor]

\* cachedJSONValue: the cell is kept for one type and one Go type.
FromCell(cell, key, accessor) ==
  IF cell.key # key \/ (cell.value # Failed /\ cell.as # accessor.as) THEN Failed ELSE cell.value

AskConfig(g, r, name, accessor) ==
  /\ doing[g] = Idle /\ HasCell(r)
  /\ name \in DOMAIN loaded[r] /\ loaded[r][name] # Failed
  /\ LET key == loaded[r][name].type
     IN \/ key \notin accessor.expected /\ Answer(g, ConfigQuestion(<<r, name>>, accessor), NotFound)
        \/ /\ key \in accessor.expected /\ <<r, name>> \in DOMAIN entry
           /\ Answer(g, ConfigQuestion(<<r, name>>, accessor), FromCell(entry[<<r, name>>], key, accessor))
        \/ /\ key \in accessor.expected /\ <<r, name>> \notin DOMAIN entry
           /\ doing' = [doing EXCEPT ![g] = [at |-> "decoding", of |-> <<r, name>>, accessor |-> accessor]]
           /\ UNCHANGED answers
  /\ UNCHANGED <<tableVars, memo, registryVars>>

\* Under the cell's lock it looks again: another may have decoded meanwhile.
DecodeConfig(g) ==
  /\ doing[g].at = "decoding"
  /\ LET cell == doing[g].of
         accessor == doing[g].accessor
         definition == loaded[cell[1]][cell[2]]
     IN /\ entry' = IF cell \in DOMAIN entry THEN entry
                    ELSE With(entry, cell, [key |-> definition.type, as |-> accessor.as,
                                            value |-> Decoded[definition.config][accessor.as]])
        /\ Answer(g, ConfigQuestion(cell, accessor),
                  FromCell(entry'[cell], definition.type, accessor))
  /\ UNCHANGED <<tableVars, memo, loaded, rawLoaded, templateOf, templateLock>>

-----------------------------------------------------------------------------
AskNames ==
  \E g \in Askers :
    \/ \E rid \in AskedIDs : AskName(g, rid)
    \/ LockTable(g)
    \/ PublishTable(g)

AskMemos ==
  \E g \in Askers :
    \/ \E m \in DOMAIN MemoKeys : \E key \in MemoKeys[m] :
         \/ AskSurfaceBlock(g, m, key)
         \/ AskTemplateBlock(g, m, key)
         \/ AskNoise(g, m, key)
         \/ AskLevel(g, m, key)
    \/ StoreMemo(g)

AskDefinitions ==
  \E g \in Askers :
    \/ \E r \in DOMAIN Embedded : \E name \in DOMAIN Embedded[r] \cup {Unheard} :
         \/ DefineFeature(g, r, name)
         \/ DefineCarver(g, r, name)
         \/ DefineWorldgen(g, r, name)
         \/ NameFactory(g, r, name)
    \/ \E r \in DOMAIN Embedded : \E name \in DOMAIN loaded[r], accessor \in Accessors :
         AskConfig(g, r, name, accessor)
    \/ DecodeConfig(g)

AskTemplates ==
  \E g \in Askers :
    \/ \E name \in DOMAIN RawTemplate \cup {Unheard} : AskTemplate(g, name)
    \/ FetchTemplate(g)
    \/ KeepTemplate(g)

LookupNext == AskNames \/ AskMemos \/ AskDefinitions \/ AskTemplates

LookupSpec == LookupInit /\ [][LookupNext]_lookupVars

-----------------------------------------------------------------------------
\* What each question would be answered if nothing were ever kept.
RightTemplate(name) ==
  IF name \in DOMAIN RawTemplate /\ RawTemplate[name] # Failed THEN Template[RawTemplate[name]]
  ELSE Failed
RightConfig(cell, accessor) ==
  LET definition == Embedded[cell[1]][cell[2]]
  IN IF definition.type \in accessor.expected THEN Decoded[definition.config][accessor.as]
     ELSE NotFound
Right(q) ==
  CASE q.kind = "name" -> IF q.rid \in DOMAIN BlockName THEN BlockName[q.rid] ELSE "air"
    [] q.kind = "memo" -> WorkedOut(q.memo, q.key)
    [] q.kind = "definition" ->
         IF q.name \in DOMAIN Embedded[q.registry] THEN Embedded[q.registry][q.name] ELSE NotFound
    [] q.kind = "template" -> RightTemplate(q.name)
    [] q.kind = "config" -> RightConfig(q.cell, q.accessor)

Found(q) ==
  CASE q.kind = "name" -> q.rid \in DOMAIN BlockName => NameKnown(q.rid)
    [] q.kind = "memo" -> WorkedOut(q.memo, q.key) # NotFound => q.key \in DOMAIN memo[q.memo]
    [] q.kind = "definition" ->
         q.name \in DOMAIN Embedded[q.registry] => q.name \in DOMAIN loaded[q.registry]
    [] q.kind = "template" -> q.name \in DOMAIN templateOf
    [] q.kind = "config" ->
         Embedded[q.cell[1]][q.cell[2]].type \in q.accessor.expected => q.cell \in DOMAIN entry

\* Whatever was asked was answered as if it had been worked out on the spot, and
\* whoever asks next finds the answer kept: of two goroutines that store the names
\* of different ids, each in a copy of the table, neither drops the other's; and of
\* two that miss one configuration the second is answered from the first one's cell.
LookupsTrue ==
  \A given \in answers : given[2] = Right(given[1]) /\ Found(given[1])
=============================================================================
