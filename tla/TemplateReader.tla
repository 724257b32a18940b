--------------------------- MODULE TemplateReader ---------------------------
(***************************************************************************)
(* Templates of structures are NBT: compounds, lists and arrays nested in  *)
(* each other. A library decodes them (gen/structure_runtime.go), and when *)
(* it finds one nested too deeply, a reader by hand takes over             *)
(* (gen/structure_template_fallback.go), which goes through the stream     *)
(* once and must skip what it does not want to the last byte. What a       *)
(* template says may not depend on who reads it.                           *)
(*                                                                         *)
(* A stream is a sequence of numbers and strings of a width each; one read *)
(* with another width than it was written with fails. Templates are well   *)
(* typed, so no length is negative. What is kept in a map of any has the   *)
(* Go type its decoder gave it, and the two decoders differ in that.       *)
(***************************************************************************)
EXTENDS Integers, Sequences, SequencesExt, FiniteSetsExt, TLC

CONSTANTS
  Documents,      \* compounds of well-typed templates
  LibraryDepth,   \* nesting the library decodes
  MaxDepth        \* structureTemplateMaxDepth

ASSUME ReaderAssumption == LibraryDepth \in Nat /\ MaxDepth \in Nat

VARIABLES
  document,       \* what a template's file holds
  stream,         \* as it is written
  template,       \* the entry of the cache
  asks            \* how often it has been asked for

readerVars == <<document, stream, template, asks>>

Unset == <<>>
Widths ==
  [byte |-> "byte", short |-> "int16", int |-> "int32", long |-> "int64", float |-> "float32", double |-> "float64",
   string |-> "string"]
Arrays == [byte_array |-> "byte", int_array |-> "int32", long_array |-> "int64"]
IntegerTags == {"byte", "short", "int", "long"}

\* Values of type any. The library keeps the width of a number and has no sign for a
\* byte; the reader by hand knows one type of integers and one of fractions.
Boxed(go, value) == [go |-> go, value |-> value]
LibraryType ==
  [byte |-> "uint8", short |-> "int16", int |-> "int32", long |-> "int64", float |-> "float32", double |-> "float64",
   string |-> "string"]
ReaderType ==
  [byte |-> "int64", short |-> "int64", int |-> "int64", long |-> "int64", float |-> "float64", double |-> "float64",
   string |-> "string"]
NoMap == Boxed("map", <<>>)
Upto(n) == [i \in 1 .. n |-> i]

\* How a value is written: a scalar, an array, a list of one kind, or a compound.
Token(width, value) == <<[is |-> width, value |-> value]>>
RECURSIVE Written(_)
Written(v) ==
  CASE v.tag \in DOMAIN Widths -> Token(Widths[v.tag], v.value)
    [] v.tag \in DOMAIN Arrays ->
         Token("int32", Len(v.items)) \o FlattenSeq([i \in DOMAIN v.items |-> Token(Arrays[v.tag], v.items[i])])
    [] v.tag = "list" ->
         Token("byte", v.of) \o Token("int32", Len(v.items))
         \o FlattenSeq([i \in DOMAIN v.items |-> Written(v.items[i])])
    [] v.tag = "compound" ->
         FlattenSeq([i \in DOMAIN v.fields |->
           Token("byte", v.fields[i][2].tag) \o Token("string", v.fields[i][1]) \o Written(v.fields[i][2])])
         \o Token("byte", "end")

-----------------------------------------------------------------------------
\* The reader. What fails leaves it nowhere, where nothing more can be read.
Failed == [value |-> "none", at |-> 0]
Nothing == [value |-> <<>>, at |-> 0]
Take(at, width) ==
  IF at \in DOMAIN stream /\ stream[at].is = width THEN [value |-> stream[at].value, at |-> at + 1] ELSE Failed
ListHeader(at) ==
  LET of == Take(at, "byte")
      length == Take(of.at, "int32") IN
  [of |-> of.value, length |-> IF length.at = 0 THEN 0 ELSE length.value, at |-> length.at]
IntPayload(tag, at) == IF tag \in IntegerTags THEN Take(at, Widths[tag]) ELSE Failed

\* As many as the header says, one after the other.
Each(Element(_), header) ==
  FoldLeft(LAMBDA done, i :
             LET next == Element(done.at) IN
             IF done.at = 0 \/ next.at = 0 THEN Nothing ELSE [value |-> Append(done.value, next.value), at |-> next.at],
           [value |-> <<>>, at |-> header.at], Upto(header.length))
ArrayOf(width, at) ==
  LET length == Take(at, "int32") IN
  Each(LAMBDA a : Take(a, width), [length |-> IF length.at = 0 THEN 0 ELSE length.value, at |-> length.at])

\* skipTagPayload
RECURSIVE Skip(_, _, _), SkipFields(_, _)
Skip(tag, at, depth) ==
  CASE depth >= MaxDepth -> Failed
    [] depth < MaxDepth /\ tag = "end" -> [value |-> Unset, at |-> at]
    [] depth < MaxDepth /\ tag \in DOMAIN Widths -> Take(at, Widths[tag])
    [] depth < MaxDepth /\ tag \in DOMAIN Arrays -> ArrayOf(Arrays[tag], at)
    [] depth < MaxDepth /\ tag = "list" ->
         LET header == ListHeader(at) IN Each(LAMBDA a : Skip(header.of, a, depth + 1), header)
    [] depth < MaxDepth /\ tag = "compound" -> SkipFields(at, depth)
    [] OTHER -> Failed
SkipFields(at, depth) ==
  LET tag == Take(at, "byte") IN
  IF tag.at = 0 \/ tag.value = "end" THEN tag
  ELSE SkipFields(Skip(tag.value, Take(tag.at, "string").at, depth + 1).at, depth)

\* readTagPayload
As(go, read) == [read EXCEPT !.value = Boxed(go, @)]
RECURSIVE Payload(_, _, _), PayloadFields(_, _, _)
Payload(tag, at, depth) ==
  CASE depth >= MaxDepth -> Failed
    [] depth < MaxDepth /\ tag = "end" -> As("nil", [value |-> Unset, at |-> at])
    [] depth < MaxDepth /\ tag \in DOMAIN Widths -> As(ReaderType[tag], Take(at, Widths[tag]))
    [] depth < MaxDepth /\ tag \in DOMAIN Arrays -> As("array", ArrayOf(Arrays[tag], at))
    [] depth < MaxDepth /\ tag = "list" ->
         LET header == ListHeader(at) IN As("list", Each(LAMBDA a : Payload(header.of, a, depth + 1), header))
    [] depth < MaxDepth /\ tag = "compound" -> As("map", PayloadFields(at, depth, <<>>))
    [] OTHER -> Failed
PayloadFields(at, depth, out) ==
  LET tag == Take(at, "byte")
      name == Take(tag.at, "string")
      next == Payload(tag.value, name.at, depth + 1) IN
  IF tag.at = 0 \/ tag.value = "end" THEN [value |-> out, at |-> tag.at]
  ELSE IF next.at = 0 THEN Failed
  ELSE PayloadFields(next.at, depth, (name.value :> next.value) @@ out)

\* readFixedIntVector3: the first three of a list or an array, if there are so many.
Vector(tag, at, depth) ==
  LET header == ListHeader(at)
      all == IF tag = "list" THEN Each(LAMBDA a : IntPayload(header.of, a), header) ELSE ArrayOf("int32", at) IN
  CASE depth >= MaxDepth -> Nothing
    [] depth < MaxDepth /\ tag \in {"list", "int_array"} ->
         [all EXCEPT !.value = IF Len(all.value) >= 3 THEN SubSeq(all.value, 1, 3) ELSE Unset]
    [] OTHER -> [Skip(tag, at, depth) EXCEPT !.value = Unset]

-----------------------------------------------------------------------------
\* The three compounds it knows, by the name of their reader: the template itself, a
\* state of its palette, and a block, which is kept only with a position.
NoState == [name |-> "", properties |-> NoMap]
NoBlockYet == [pos |-> Unset, state |-> 0, nbt |-> NoMap]
NoTemplate == [size |-> <<0, 0, 0>>, palette |-> <<>>, blocks |-> <<>>]

\* A palette that was read is not replaced by the first of the palettes. (AlwaysReplaced
\* lets what comes last in the stream win.)
AlwaysReplaced(out) == FALSE
PaletteLoaded(out) == out.palette # <<>>

\* A list of compounds, other values skipped; of the blocks, those with a position.
RECURSIVE Fields(_, _, _, _)
Compound(reader, tag, at, depth, out) ==
  IF depth >= MaxDepth THEN Failed
  ELSE IF tag = "compound" THEN Fields(reader, at, depth, out)
  ELSE [Skip(tag, at, depth) EXCEPT !.value = out]
CompoundList(reader, tag, at, depth, out) ==
  LET header == ListHeader(at) IN
  IF depth >= MaxDepth THEN Nothing
  ELSE IF tag = "list" THEN Each(LAMBDA a : Compound(reader, header.of, a, depth + 1, out), header)
  ELSE [Skip(tag, at, depth) EXCEPT !.value = <<>>]
FirstOfPalettes(tag, at, depth) ==
  LET header == ListHeader(at)
      first == IF header.length = 0 THEN [value |-> <<>>, at |-> header.at]
               ELSE CompoundList("state", header.of, header.at, depth + 1, NoState)
      rest == Each(LAMBDA a : Skip(header.of, a, depth + 1),
                   [length |-> Max({0, header.length - 1}), at |-> first.at]) IN
  IF depth >= MaxDepth THEN Nothing
  ELSE IF tag = "list" THEN [value |-> first.value, at |-> rest.at]
  ELSE [Skip(tag, at, depth) EXCEPT !.value = <<>>]

\* What one field makes of what was read so far.
KeptOr(kept, read, default) == IF kept THEN read ELSE [read EXCEPT !.value = default]
KeptNested(nested) == nested.at # 0 /\ nested.value.go = "map" /\ nested.value # NoMap
Update(out, field, read) == [value |-> [out EXCEPT ![field] = read.value], at |-> read.at]
TemplateField(name, tag, at, depth, out) ==
  LET size == Vector(tag, at, depth)
      blocks == CompoundList("block", tag, at, depth, NoBlockYet) IN
  CASE name = "size" -> Update(out, "size", KeptOr(size.value # Unset, size, NoTemplate.size))
    [] name = "palette" -> Update(out, "palette", CompoundList("state", tag, at, depth, NoState))
    [] name = "palettes" /\ ~PaletteLoaded(out) -> Update(out, "palette", FirstOfPalettes(tag, at, depth))
    [] name = "blocks" ->
         Update(out, "blocks", [blocks EXCEPT !.value = SelectSeq(@, LAMBDA b : b.pos # Unset)])
    [] OTHER -> [Skip(tag, at, depth) EXCEPT !.value = out]
StateField(name, tag, at, depth, out) ==
  LET nested == Payload(tag, at, depth) IN
  CASE name = "Name" /\ tag = "string" -> Update(out, "name", Take(at, "string"))
    [] name = "Properties" -> Update(out, "properties", KeptOr(KeptNested(nested), nested, out.properties))
    [] OTHER -> [Skip(tag, at, depth) EXCEPT !.value = out]
BlockField(name, tag, at, depth, out) ==
  LET nested == Payload(tag, at, depth)
      pos == Vector(tag, at, depth) IN
  CASE name = "pos" -> Update(out, "pos", KeptOr(pos.value # Unset, pos, out.pos))
    [] name = "state" -> Update(out, "state", IntPayload(tag, at))
    [] name = "nbt" -> Update(out, "nbt", KeptOr(KeptNested(nested), nested, out.nbt))
    [] OTHER -> [Skip(tag, at, depth) EXCEPT !.value = out]
Field(reader, name, tag, at, depth, out) ==
  CASE reader = "template" -> TemplateField(name, tag, at, depth + 1, out)
    [] reader = "state" -> StateField(name, tag, at, depth + 1, out)
    [] reader = "block" -> BlockField(name, tag, at, depth + 1, out)
Fields(reader, at, depth, out) ==
  LET tag == Take(at, "byte")
      name == Take(tag.at, "string")
      next == Field(reader, name.value, tag.value, name.at, depth, out) IN
  IF tag.at = 0 \/ tag.value = "end" THEN [value |-> out, at |-> tag.at]
  ELSE IF next.at = 0 THEN Failed
  ELSE Fields(reader, next.at, depth, next.value)

\* decodeStructureTemplateFallback
Fallback ==
  LET root == Take(1, "byte") IN
  IF root.value # "compound" \/ root.at = 0 THEN Failed ELSE Fields("template", Take(root.at, "string").at, 0, NoTemplate)

-----------------------------------------------------------------------------
\* The library: fields by name, and a refusal of what is nested too deeply.
RECURSIVE Nesting(_), Plain(_)
Inner(v) ==
  CASE v.tag = "compound" -> {v.fields[i][2] : i \in DOMAIN v.fields}
    [] v.tag = "list" -> Range(v.items)
    [] OTHER -> {}
Nesting(v) == Max({0} \cup {Nesting(w) + 1 : w \in Inner(v)})
Plain(v) ==
  CASE v.tag = "byte" -> Boxed("uint8", v.value % 256)
    [] v.tag \in DOMAIN Widths \ {"byte"} -> Boxed(LibraryType[v.tag], v.value)
    [] v.tag = "compound" ->
         Boxed("map", [n \in {v.fields[i][1] : i \in DOMAIN v.fields} |->
                      Plain(v.fields[CHOOSE i \in DOMAIN v.fields : v.fields[i][1] = n][2])])
    [] v.tag = "list" -> Boxed("list", [i \in DOMAIN v.items |-> Plain(v.items[i])])
    [] OTHER -> Boxed("array", v.items)
ValueOf(plain, name, default) == IF name \in DOMAIN plain.value THEN plain.value[name] ELSE default
NoList == Boxed("list", <<>>)
Integers32(list) == [i \in DOMAIN list.value |-> list.value[i].value]

\* decodeStructureTemplate, after the library.
Converted ==
  LET raw == Plain(document)
      size == Integers32(ValueOf(raw, "size", NoList))
      palettes == ValueOf(raw, "palettes", NoList).value
      own == ValueOf(raw, "palette", NoList).value
      palette == IF own # <<>> THEN own ELSE IF palettes # <<>> THEN palettes[1].value ELSE <<>>
      blocks == SelectSeq(ValueOf(raw, "blocks", NoList).value, LAMBDA b : Len(ValueOf(b, "pos", NoList).value) >= 3) IN
  [size |-> IF Len(size) >= 3 THEN SubSeq(size, 1, 3) ELSE NoTemplate.size,
   palette |-> [i \in DOMAIN palette |->
     [name |-> ValueOf(palette[i], "Name", Boxed("string", "")).value, properties |-> ValueOf(palette[i], "Properties", NoMap)]],
   blocks |-> [i \in DOMAIN blocks |->
     [pos |-> SubSeq(Integers32(ValueOf(blocks[i], "pos", NoList)), 1, 3),
      state |-> ValueOf(blocks[i], "state", Boxed("int32", 0)).value,
      nbt |-> ValueOf(blocks[i], "nbt", NoMap)]]]
Absent == [tag |-> "absent"]
Decoded ==
  IF document = Absent THEN Failed
  ELSE IF Nesting(document) <= LibraryDepth THEN [value |-> Converted, at |-> Len(stream) + 1]
  ELSE Fallback

ReaderInit ==
  /\ document \in Documents \cup {Absent}
  /\ stream = IF document = Absent THEN <<>>
              ELSE Token("byte", "compound") \o Token("string", "") \o Written(document)
  /\ template = Unset /\ asks = 0

\* StructureTemplateRegistry.Template: decoded once, an error is kept too.
AskTemplate ==
  /\ asks < 2
  /\ template' = IF template = Unset THEN Decoded ELSE template
  /\ asks' = asks + 1
  /\ UNCHANGED <<document, stream>>

ReaderNext == AskTemplate

-----------------------------------------------------------------------------
\* How those who use a template read what is in a map: as an integer, if its type is
\* one that anyInt knows, or as a string.
anyInt(v) == IF v.go \in {"int32", "int64", "float64"} THEN v.value ELSE 0
anyString(v) == IF v.go = "string" THEN v.value ELSE ""

\* The same to them. What the library makes of a byte, a short or a float is of no type
\* that anyInt knows, and templates have none where it is asked.
RECURSIVE Alike(_, _)
Alike(a, b) ==
  CASE a.go = "map" ->
         b.go = "map" /\ DOMAIN a.value = DOMAIN b.value /\ \A n \in DOMAIN a.value : Alike(a.value[n], b.value[n])
    [] a.go = "list" ->
         b.go = "list" /\ Len(a.value) = Len(b.value) /\ \A i \in DOMAIN a.value : Alike(a.value[i], b.value[i])
    [] a.go = "array" -> a = b
    [] a.go \in {"uint8", "int16", "float32"} -> b.go \in (Range(LibraryType) \cup Range(ReaderType)) \ {"string"}
    [] OTHER -> anyInt(a) = anyInt(b) /\ anyString(a) = anyString(b)

\* Whoever reads a template, it says the same: the reader by hand finds what the library
\* would, after it has gone through the stream to its end; it fails only where values
\* are nested as deeply as it allows, and on a file that is not there both do.
ReadersAgree ==
  template # Unset =>
    \/ template = Failed /\ document = Absent
    \/ template.at = 0 /\ Nesting(document) >= MaxDepth
    \/ /\ template.at = Len(stream) + 1
       /\ template.value.size = Converted.size
       /\ Len(template.value.palette) = Len(Converted.palette) /\ Len(template.value.blocks) = Len(Converted.blocks)
       /\ \A i \in DOMAIN Converted.palette :
            LET s == template.value.palette[i] t == Converted.palette[i] IN
            s.name = t.name /\ Alike(t.properties, s.properties)
       /\ \A i \in DOMAIN Converted.blocks :
            LET s == template.value.blocks[i] t == Converted.blocks[i] IN
            s.pos = t.pos /\ s.state = t.state /\ Alike(t.nbt, s.nbt)
=============================================================================
