------------------------------- MODULE Parsers -------------------------------
(* The adapters of infra/parser for documents: JSON and XML.               *)
EXTENDS Integers, Sequences

(***************************************************************************)
(* nex::parser::Json (infra/parser/json.h, json.cpp): a document that can  *)
(* be loaded again, and typed answers to questions about a key path.       *)
(* Parsing is the library's; a load comes with its outcome.                *)
(***************************************************************************)

CONSTANTS
  Keys,         \* the keys of objects
  WordSize,     \* 2^32
  Integers64,   \* the integers that documents contain
  MaxDepth      \* bound on the segments of a key path

NoKey == "."    \* an empty segment of a path
Paths == UNION {[1 .. n -> Keys \cup {NoKey}] : n \in 0 .. MaxDepth}

Leaf(kind, n) == [kind |-> kind, value |-> n, of |-> <<>>]
Tree(kind, of) == [kind |-> kind, value |-> 0, of |-> of]
Leaves == {Leaf("integer", n) : n \in Integers64} \cup {Leaf(k, 1) : k \in {"string", "real", "boolean", "null"}}
Flat(S) == {Tree("object", f) : f \in UNION {[D -> S] : D \in SUBSET Keys}}
Arrays == {Tree("array", <<x, y>>) : x, y \in Leaves} \cup {Tree("array", <<>>)}
Objects == Flat({Leaf("integer", 0), Tree("object", [k \in Keys |-> Leaf("string", 1)])})
Roots == Objects \cup {Tree("object", [k \in Keys |-> x]) : x \in Leaves \cup Arrays} \cup {Leaf("string", 1)}

Nothing == Leaf("nothing", 0)       \* nullptr
Dangling == Leaf("dangling", 0)     \* part of a document that was replaced

VARIABLES
  json, loaded,     \* Impl::json, Impl::loaded
  nodeHandle,       \* the node that Impl::nodeHandle stands for, or Nothing
  latest            \* the document that was parsed last
JsonVars == <<json, loaded, nodeHandle, latest>>

NavigatePath(root, path) ==
  LET segments == SelectSeq(path, LAMBDA s : s # NoKey)
      after[i \in 0 .. Len(segments)] ==
        IF i = 0 THEN root
        ELSE LET current == after[i - 1]
             IN IF current.kind = "object" /\ segments[i] \in DOMAIN current.of
                THEN current.of[segments[i]] ELSE Nothing
  IN IF path = <<>> THEN Nothing ELSE after[Len(segments)]

Node(path) == IF loaded THEN NavigatePath(json, path) ELSE Nothing

(* get<int32>() and get<uint32>() keep the low bits. *)
ToUInt(n) == n % WordSize
ToInt(n) == IF ToUInt(n) < WordSize \div 2 THEN ToUInt(n) ELSE ToUInt(n) - WordSize
IsUnsigned(node) == node.kind = "integer" /\ node.value >= 0

GetOf(kinds, path, default) == IF Node(path).kind \in kinds THEN Node(path).value ELSE default
GetString(path, default) == GetOf({"string"}, path, default)
GetBool(path, default) == GetOf({"boolean"}, path, default)
GetDouble(path, default) == GetOf({"integer", "real"}, path, default)
GetInt(path, default) ==
  IF Node(path).kind = "integer" THEN ToInt(Node(path).value) ELSE default
GetUInt(path, default) ==
  LET node == Node(path)
  IN IF IsUnsigned(node) THEN ToUInt(node.value)
     ELSE IF node.kind = "integer" /\ ToInt(node.value) >= 0 THEN ToInt(node.value)
     ELSE default

Got(n) == [ok |-> TRUE, value |-> n]
NotGot == [ok |-> FALSE, value |-> 0]
TryGetOf(kinds, path) == IF Node(path).kind \in kinds THEN Got(Node(path).value) ELSE NotGot
TryGetInt(path) == IF Node(path).kind = "integer" THEN Got(ToInt(Node(path).value)) ELSE NotGot
(* Mutated form: the sign is not looked at. *)
TryGetUIntUnchecked(path) ==
  IF Node(path).kind = "integer" THEN Got(ToUInt(Node(path).value)) ELSE NotGot

TryGetUInt(path) ==
  LET node == Node(path)
  IN IF IsUnsigned(node) THEN Got(ToUInt(node.value))
     ELSE IF node.kind = "integer" /\ ToInt(node.value) >= 0 THEN Got(ToInt(node.value))
     ELSE NotGot

HasKey(path) == Node(path) # Nothing
IsObject(path) == Node(path).kind = "object"
ArraySize(path) == IF Node(path).kind = "array" THEN Len(Node(path).of) ELSE 0
TryGetAt(kind, path, index) ==
  LET node == Node(path)
  IN IF node.kind # "array" \/ index >= ArraySize(path) THEN NotGot
     ELSE LET element == node.of[index + 1]
          IN IF element.kind # kind THEN NotGot
             ELSE Got(IF kind = "integer" THEN ToInt(element.value) ELSE element.value)

-----------------------------------------------------------------------------
(* Json() *)
JsonInit == json = Leaf("null", 1) /\ loaded = FALSE /\ nodeHandle = Nothing /\ latest = Nothing

Load(document) ==
  /\ json' = document /\ loaded' = TRUE /\ latest' = document
  /\ nodeHandle' = CASE nodeHandle = Nothing -> Nothing
                     [] nodeHandle = json -> document
                     [] OTHER -> Dangling
(* An empty path or text, a file that is not there, an error of the parser *)
(* in any of its classes: nothing was assigned yet.                        *)
LoadFails == UNCHANGED JsonVars

(* Every question navigates anew, and leaves its node behind. *)
Ask(path) ==
  /\ nodeHandle' = IF loaded THEN NavigatePath(json, path) ELSE nodeHandle
  /\ UNCHANGED <<json, loaded, latest>>

JsonNext ==
  \/ LoadFails
  \/ \E document \in Roots : Load(document)
  \/ \E path \in Paths : Ask(path)

-----------------------------------------------------------------------------
(* Answers are about the document that was parsed last, whatever failed to *)
(* load since.  get and tryGet agree: a value of the type or the default.  *)
(* An integer fits, and it is the one of the document if that one fits; it *)
(* counts as unsigned only if its low bits are not negative.  Empty        *)
(* segments do not matter, and no path but the empty one leads nowhere     *)
(* before its first key.  A handle from navigatePath() is a node of the    *)
(* document until the next load.                                           *)
AnswersAgree ==
  /\ loaded <=> latest # Nothing
  /\ loaded => json = latest
  /\ nodeHandle \notin {Nothing, Dangling} => \E path \in Paths : Node(path) = nodeHandle
  /\ \A path \in Paths :
       LET node == Node(path)
           keysOnly == SelectSeq(path, LAMBDA s : s # NoKey)
           unsigned == TryGetUInt(path)
           signed == TryGetInt(path)
       IN /\ \A default \in {-1, 0} :
               /\ GetInt(path, default) = IF signed.ok THEN signed.value ELSE default
               /\ GetUInt(path, default) = IF unsigned.ok THEN unsigned.value ELSE default
               /\ \A kind \in {"string", "boolean", "real"} :
                    LET kinds == IF kind = "real" THEN {"real", "integer"} ELSE {kind}
                        try == TryGetOf(kinds, path)
                    IN GetOf(kinds, path, default) = IF try.ok THEN try.value ELSE default
          /\ unsigned.ok => signed.ok /\ unsigned.value \in 0 .. WordSize - 1
          /\ unsigned.ok /\ unsigned.value < WordSize \div 2 => unsigned.value = signed.value
          /\ node.kind = "integer" /\ node.value \in 0 .. WordSize - 1 => unsigned = Got(node.value)
          /\ node.kind = "integer" /\ ~ unsigned.ok => node.value < 0 /\ signed.value < 0
          /\ keysOnly # <<>> => node = Node(keysOnly)
          /\ keysOnly = <<>> /\ path # <<>> => (HasKey(path) <=> loaded)
          /\ IsObject(path) => \A k \in Keys : HasKey(path \o <<k>>) <=> k \in DOMAIN node.of
          /\ \A i \in 0 .. 2 : TryGetAt("integer", path, i).ok => ~ IsObject(path) /\ i < ArraySize(path)

-----------------------------------------------------------------------------
(***************************************************************************)
(* nex::parser::XmlDocument and XmlNode (infra/parser/xml.h, xml.cpp): a   *)
(* document that can be loaded again, and handles to its nodes.  The nodes *)
(* belong to the library's document, which every load empties.             *)
(***************************************************************************)

CONSTANTS
  Names,        \* of elements; a text has none of them
  Trees,        \* the root elements of documents
  MaxLoads      \* bound on the loads of a document

Handle(generation, node) == [generation |-> generation, node |-> node]
Invalid == Handle(0, <<>>)      \* impl_ is null, or the library's node is

VARIABLES
  root, parsed,     \* the document element, and Impl::loaded
  generation,       \* counts the loads of the library's document
  held              \* an XmlNode in the hands of the user
XmlVars == <<root, parsed, generation, held>>

IsValidNode(h) == h # Invalid
Live(h) == h.generation = generation

Root == IF parsed THEN Handle(generation, root) ELSE Invalid
FirstChild(h) ==
  IF ~ IsValidNode(h) \/ h.node.children = <<>> THEN Invalid
  ELSE Handle(h.generation, h.node.children[1])

Children(h, name) ==
  IF ~ IsValidNode(h) THEN <<>>
  ELSE LET named == SelectSeq(h.node.children, LAMBDA c : c.name = name)
       IN [i \in DOMAIN named |-> Handle(h.generation, named[i])]

(* Mutated form: the first child, whatever its name. *)
ChildFirst(h, name) == FirstChild(h)

(* The library's child(name): the first of them. *)
Child(h, name) ==
  IF ~ IsValidNode(h) THEN Invalid
  ELSE LET at == {i \in DOMAIN h.node.children : h.node.children[i].name = name}
       IN IF at = {} THEN Invalid
          ELSE Handle(h.generation, h.node.children[CHOOSE i \in at : \A j \in at : i <= j])

HasChildren(h) == IsValidNode(h) /\ h.node.children # <<>>
HasChild(h, name) == IsValidNode(h) /\ \E i \in DOMAIN h.node.children : h.node.children[i].name = name
Attribute(h, name) == IsValidNode(h) /\ name \in h.node.attributes

-----------------------------------------------------------------------------
XmlInit == root = <<>> /\ parsed = FALSE /\ generation = 1 /\ held = Invalid

(* loadFromFile(), loadFromString(). *)
LoadXml(tree) ==
  /\ generation < MaxLoads
  /\ root' = tree /\ parsed' = TRUE /\ generation' = generation + 1
  /\ UNCHANGED held
LoadXmlFails ==
  /\ generation < MaxLoads
  /\ root' = <<>> /\ parsed' = FALSE /\ generation' = generation + 1
  /\ UNCHANGED held
(* An empty path or text does not reach the library. *)
LoadNothing == UNCHANGED XmlVars

Hold(h) == held' = h /\ UNCHANGED <<root, parsed, generation>>
(* Nodes are used while their document remains. *)
Walk ==
  /\ IsValidNode(held) => Live(held)
  /\ \/ Hold(FirstChild(held))
     \/ \E name \in Names : Hold(Child(held, name))
     \/ \E name \in Names : \E i \in DOMAIN Children(held, name) : Hold(Children(held, name)[i])

XmlNext ==
  \/ \E tree \in Trees : LoadXml(tree)
  \/ LoadXmlFails \/ LoadNothing \/ Hold(Root) \/ Walk

-----------------------------------------------------------------------------
(* A document that failed to load has no root, an invalid node leads to    *)
(* invalid ones only, and what the members say of a node fits: child() is  *)
(* the first of children(), which are in the order of the document, and it *)
(* is there exactly if hasChild() says so.                                 *)
NodesAgree ==
  /\ IsValidNode(Root) <=> parsed
  /\ ~ IsValidNode(held) => ~ HasChildren(held) /\ ~ IsValidNode(FirstChild(held))
  /\ IsValidNode(FirstChild(held)) <=> HasChildren(held)
  /\ \A name \in Names :
       LET children == Children(held, name)
       IN /\ HasChild(held, name) <=> children # <<>>
          /\ Child(held, name) = IF children = <<>> THEN Invalid ELSE children[1]
          /\ HasChild(held, name) => HasChildren(held)
          /\ ~ IsValidNode(held) => ~ Attribute(held, name)
          /\ \A i \in DOMAIN children : children[i].generation = held.generation
==============================================================================
