------------------------------ MODULE YamlLoad ------------------------------
(***************************************************************************)
(* yaml.safe_load as memwiz calls it.  The composer pulls events from the  *)
(* parser (composer.py, parser.py) and the parser pulls tokens from the    *)
(* scanner (scanner.py), which looks ahead no further than it must: a      *)
(* token is given out once it cannot become the start of a simple key.     *)
(* What comes out is a graph of nodes, and what the constructor and        *)
(* load_record make of it.                                                 *)
(***************************************************************************)
EXTENDS YamlScalar

VARIABLES
  text,   \* what is read
  sc,     \* the scanner
  ps,     \* the parser, with the event it holds out
  co,     \* the composer
  outcome \* "none", or what load_record is left with

loadVars == <<text, sc, ps, co, outcome>>

NoEvent == [id |-> "none"]
Token(id) == [id |-> id, value |-> <<>>, plain |-> TRUE]
ScalarEvent(anchor, value, plain) ==
  [id |-> "Scalar", anchor |-> anchor, value |-> value, plain |-> plain]
EmptyScalar == ScalarEvent(<<>>, <<>>, TRUE)
NodeEvent(id, anchor) == [id |-> id, anchor |-> anchor]

Failed == sc.error \/ ps.error \/ co.error

-----------------------------------------------------------------------------
(* The scanner.  s is its record while a method works on it; its stack of   *)
(* indents ends with the current one.                                       *)

InFlow(s) == s.flow # 0
Raise(s, bad) == [s EXCEPT !.error = @ \/ bad]

(* stale_possible_simple_keys                                               *)
StaleKeys(s) == {k \in s.keys : \/ LineStart(text, k.index) # LineStart(text, s.index)
                                \/ s.index - k.index > KeyReach}
DropStaleKeys(s) ==
  Raise([s EXCEPT !.keys = @ \ StaleKeys(s)], \E k \in StaleKeys(s) : k.required)

(* Mutant: a token is given out as soon as there is one.                    *)
NeedMoreTokensNow == ~sc.done /\ ~sc.ready /\ (sc.tokens = <<>> \/ sc.error)

(* need_more_tokens; a stale key that was required is raised there.         *)
NeedMoreTokens ==
  LET s == DropStaleKeys(sc)
  IN /\ ~sc.done /\ ~sc.ready
     /\ \/ sc.tokens = <<>> \/ s.error
        \/ s.keys # {} /\ Min({k.token : k \in s.keys}) = s.taken

KeysHere(s) == {k \in s.keys : k.level = s.flow}
RemoveSimpleKey(s) ==
  Raise([s EXCEPT !.keys = @ \ KeysHere(s)], \E k \in KeysHere(s) : k.required)
SaveSimpleKey(s) ==
  IF ~s.allow THEN s
  ELSE [RemoveSimpleKey(s) EXCEPT !.keys = @ \cup
          {[level |-> s.flow, token |-> s.taken + Len(s.tokens), index |-> s.index,
            required |-> ~InFlow(s) /\ Last(s.indents) = ColumnOf(text, s.index)]}]

(* Mutant: one BLOCK-END however many blocks end.                           *)
UnwindOnce(s, column) ==
  LET kept == Min({n \in 1..Len(s.indents) :
                     \A i \in (n + 1)..Len(s.indents) : s.indents[i] > column})
  IN IF InFlow(s) \/ kept = Len(s.indents) THEN s
     ELSE [s EXCEPT !.indents = SubSeq(@, 1, kept),
                    !.tokens = Append(@, Token("BLOCK-END"))]

UnwindIndent(s, column) ==
  LET kept == Min({n \in 1..Len(s.indents) :
                     \A i \in (n + 1)..Len(s.indents) : s.indents[i] > column})
  IN IF InFlow(s) THEN s
     ELSE [s EXCEPT !.indents = SubSeq(@, 1, kept),
                    !.tokens = @ \o Times(Len(s.indents) - kept, Token("BLOCK-END"))]

(* add_indent, and the token that a new indent puts at a place of the queue *)
AddIndent(s, column, at, start) ==
  IF InFlow(s) \/ Last(s.indents) >= column THEN s
  ELSE [s EXCEPT !.indents = Append(@, column),
                 !.tokens = InsertAt(@, at, Token(start))]

Add(s, id, n) == [s EXCEPT !.tokens = Append(@, Token(id)), !.index = @ + n]
AddScalar(s, r, plain) ==
  [s EXCEPT !.index = r.next,
            !.tokens = Append(@, [id |-> "SCALAR", value |-> r.value, plain |-> plain])]
Allow(s, b) == [s EXCEPT !.allow = b]

(* fetch_more_tokens up to the dispatch on the next character               *)
AtToken(s) ==
  LET p == NextToken(text, s.index)
      crossed == LineStart(text, p) # LineStart(text, s.index)
      t == [s EXCEPT !.index = p, !.allow = @ \/ (crossed /\ ~InFlow(s)), !.ready = TRUE]
  IN UnwindIndent(DropStaleKeys(t), ColumnOf(text, p))

ScanToNextToken ==
  /\ ~Failed /\ ~sc.ready
  /\ NeedMoreTokens
  /\ sc' = AtToken(sc)
  /\ UNCHANGED <<text, ps, co, outcome>>

Kind ==
  LET p == sc.index
      c == At(text, p)
      alone == At(text, p + 1) \in Blank
      marker == ColumnOf(text, p) = 0 /\ Separator(text, p)
  IN CASE c = NUL                              -> "stream_end"
       [] marker                               -> "document_indicator"
       [] c \in {"[", "{"}                     -> "flow_start"
       [] c \in {"]", "}"}                     -> "flow_end"
       [] c = ","                              -> "flow_entry"
       [] c = "-" /\ alone /\ ~marker          -> "block_entry"
       [] c = "?" /\ (InFlow(sc) \/ alone)      -> "key"
       [] c = ":" /\ (InFlow(sc) \/ alone)      -> "value"
       [] c \in {"*", "&"}                     -> "anchor"
       [] c \in {"'", DQ}                      -> "flow_scalar"
       [] c = "-" /\ ~alone /\ ~marker         -> "plain"
       [] c \in {"?", ":"} /\ ~InFlow(sc) /\ ~alone -> "plain"
       [] c \notin Blank \cup Leaders \cup {"-", "?", ":"} /\ ~marker -> "plain"
       [] OTHER                                -> "error"

Fetch(kind, s) ==
  /\ ~Failed /\ sc.ready
  /\ Kind = kind
  /\ sc' = [s EXCEPT !.ready = FALSE]
  /\ UNCHANGED <<text, ps, co, outcome>>

FetchStreamEnd ==
  Fetch("stream_end",
    [Add(Allow(RemoveSimpleKey(UnwindIndent(sc, -1)), FALSE), "STREAM-END", 0)
       EXCEPT !.keys = {}, !.done = TRUE])

FetchDocumentIndicator ==
  LET id == IF At(text, sc.index) = "-" THEN "DOCUMENT-START" ELSE "DOCUMENT-END"
  IN Fetch("document_indicator",
       Add(Allow(RemoveSimpleKey(UnwindIndent(sc, -1)), FALSE), id, 3))

FetchFlowStart ==
  LET id == IF At(text, sc.index) = "[" THEN "FLOW-SEQUENCE-START"
            ELSE "FLOW-MAPPING-START"
  IN Fetch("flow_start",
       [Add(Allow(SaveSimpleKey(sc), TRUE), id, 1) EXCEPT !.flow = @ + 1])

FetchFlowEnd ==
  LET id == IF At(text, sc.index) = "]" THEN "FLOW-SEQUENCE-END"
            ELSE "FLOW-MAPPING-END"
  IN Fetch("flow_end",
       [Add(Allow(RemoveSimpleKey(sc), FALSE), id, 1) EXCEPT !.flow = @ - 1])

FetchFlowEntry ==
  Fetch("flow_entry", Add(RemoveSimpleKey(Allow(sc, TRUE)), "FLOW-ENTRY", 1))

(* In the block context an entry, a key or a value may start a collection,  *)
(* and only where a simple key could.                                       *)
Begin(s, start) ==
  AddIndent(Raise(s, ~InFlow(s) /\ ~s.allow), ColumnOf(text, s.index),
            Len(s.tokens) + 1, start)

FetchBlockEntry ==
  Fetch("block_entry",
    Add(RemoveSimpleKey(Allow(Begin(sc, "BLOCK-SEQUENCE-START"), TRUE)),
        "BLOCK-ENTRY", 1))

FetchKey ==
  Fetch("key",
    Add(RemoveSimpleKey(Allow(Begin(sc, "BLOCK-MAPPING-START"), ~InFlow(sc))),
        "KEY", 1))

(* The ':' after a possible simple key puts KEY, and what KEY may start,    *)
(* before the tokens of that key.                                           *)
SimpleKeyValue(s) ==
  LET k == CHOOSE x \in KeysHere(s) : TRUE
      at == k.token - s.taken + 1
      keyed == [s EXCEPT !.keys = @ \ {k}, !.tokens = InsertAt(@, at, Token("KEY"))]
  IN Allow(AddIndent(keyed, ColumnOf(text, k.index), at, "BLOCK-MAPPING-START"), FALSE)

ComplexValue(s) ==
  RemoveSimpleKey(Allow(Begin(s, "BLOCK-MAPPING-START"), ~InFlow(s)))

FetchValue ==
  Fetch("value", Add(IF KeysHere(sc) # {} THEN SimpleKeyValue(sc)
                     ELSE ComplexValue(sc), "VALUE", 1))

(* fetch_alias, fetch_anchor and scan_anchor                                *)
FetchAnchor ==
  LET p == sc.index + 1
      end == Min({q \in p..(Len(text) + 1) : At(text, q) \notin {"a", "1", "-"}})
      id == IF At(text, sc.index) = "*" THEN "ALIAS" ELSE "ANCHOR"
      token == [id |-> id, value |-> SubSeq(text, p, end - 1), plain |-> TRUE]
      s == Allow(SaveSimpleKey(sc), FALSE)
  IN Fetch("anchor",
       Raise([s EXCEPT !.index = end, !.tokens = Append(@, token)],
             end = p \/ At(text, end) \notin Blank \cup {"?", ":", ",", "]", "}", "%", "@"}))

FetchFlowScalar ==
  LET s == Allow(SaveSimpleKey(sc), FALSE)
      r == ScanFlowScalar(text, s.index + 1, At(text, s.index))
  IN Fetch("flow_scalar", Raise(AddScalar(s, r, FALSE), ~r.ok))

FetchPlain ==
  LET s == SaveSimpleKey(sc)
      r == ScanPlain(text, s.index, Last(s.indents) + 1, InFlow(s))
  IN Fetch("plain", Allow(AddScalar(s, r, TRUE), r.broken))

FetchError ==
  /\ ~Failed /\ sc.ready
  /\ Kind = "error"
  /\ sc' = [sc EXCEPT !.error = TRUE]
  /\ UNCHANGED <<text, ps, co, outcome>>

FetchMoreTokens ==
  \/ ScanToNextToken \/ FetchStreamEnd \/ FetchDocumentIndicator \/ FetchFlowStart \/ FetchFlowEnd
  \/ FetchFlowEntry \/ FetchBlockEntry \/ FetchKey \/ FetchValue
  \/ FetchAnchor \/ FetchFlowScalar \/ FetchPlain \/ FetchError

-----------------------------------------------------------------------------
(* The parser.  A handler that looks at the next token after taking one is  *)
(* cut there: the scanner may have to run in between.                       *)

(* The collections' states: the token an item opens with, the tokens that   *)
(* then mean an empty item, the state after the item, and the kind of node. *)
Item(lead, stops, next, node) ==
  [lead |-> lead, stops |-> stops, next |-> next, node |-> node]
BlockItems ==
  [block_sequence_entry |->
     Item("BLOCK-ENTRY", {"BLOCK-ENTRY", "BLOCK-END"},
          "block_sequence_entry", "block_node"),
   indentless_sequence_entry |->
     Item("BLOCK-ENTRY", {"BLOCK-ENTRY", "KEY", "VALUE", "BLOCK-END"},
          "indentless_sequence_entry", "block_node"),
   block_mapping_key |->
     Item("KEY", {"KEY", "VALUE", "BLOCK-END"}, "block_mapping_value", "any_node"),
   block_mapping_value |->
     Item("VALUE", {"KEY", "VALUE", "BLOCK-END"}, "block_mapping_key", "any_node")]
FlowItems ==
  [flow_mapping_item |->
     Item("KEY", {"VALUE", "FLOW-ENTRY", "FLOW-MAPPING-END"},
          "flow_mapping_value", "flow_node"),
   flow_mapping_value |->
     Item("VALUE", {"FLOW-ENTRY", "FLOW-MAPPING-END"}, "flow_mapping_key", "flow_node"),
   flow_pair_key |->
     Item("KEY", {"VALUE", "FLOW-ENTRY", "FLOW-SEQUENCE-END"},
          "flow_pair_value", "flow_node"),
   flow_pair_value |->
     Item("VALUE", {"FLOW-ENTRY", "FLOW-SEQUENCE-END"}, "flow_pair_end", "flow_node")]
Items ==
  [state \in DOMAIN BlockItems \cup DOMAIN FlowItems |->
     IF state \in DOMAIN BlockItems THEN BlockItems[state] ELSE FlowItems[state]]

(* How a collection opens: its first token, its event and its first state   *)
Openings ==
  {[token |-> "FLOW-SEQUENCE-START", event |-> "SequenceStart",
    state |-> "flow_sequence_item", block |-> FALSE],
   [token |-> "FLOW-MAPPING-START", event |-> "MappingStart",
    state |-> "flow_mapping_item", block |-> FALSE],
   [token |-> "BLOCK-SEQUENCE-START", event |-> "SequenceStart",
    state |-> "block_sequence_entry", block |-> TRUE],
   [token |-> "BLOCK-MAPPING-START", event |-> "MappingStart",
    state |-> "block_mapping_key", block |-> TRUE]}

(* and how it closes                                                        *)
Closings ==
  {<<"block_sequence_entry", "BLOCK-END", "SequenceEnd">>,
   <<"block_mapping_key", "BLOCK-END", "MappingEnd">>,
   <<"flow_sequence_entry", "FLOW-SEQUENCE-END", "SequenceEnd">>,
   <<"flow_sequence_item", "FLOW-SEQUENCE-END", "SequenceEnd">>,
   <<"flow_mapping_key", "FLOW-MAPPING-END", "MappingEnd">>,
   <<"flow_mapping_item", "FLOW-MAPPING-END", "MappingEnd">>}

Commas == [flow_sequence_entry |-> "flow_sequence_item",
           flow_mapping_key |-> "flow_mapping_item"]
NodeStates == {"block_node", "any_node", "flow_node", "document_content"}
DocumentMarks == {"DOCUMENT-START", "DOCUMENT-END", "STREAM-END"}

(* The parser is asked for an event and the next token is known.            *)
Parse(states) ==
  /\ ~Failed
  /\ ps.event = NoEvent
  /\ ps.state \in states
  /\ ~sc.ready /\ ~NeedMoreTokens
  /\ UNCHANGED <<text, co, outcome>>

Peek == Head(sc.tokens).id
TakeToken == sc' = [DropStaleKeys(sc) EXCEPT !.tokens = Tail(@), !.taken = @ + 1]
Become(p) == ps' = p
Enter(state) == [ps EXCEPT !.state = state, !.opened = FALSE]
Holding(p, event) == [p EXCEPT !.event = event, !.anchor = <<>>]
PopState(p) == [p EXCEPT !.state = Last(p.states), !.states = Front(@)]
PushState(p, state) == [p EXCEPT !.states = Append(@, state)]

ParseStreamStart ==
  /\ Parse({"stream_start"})
  /\ TakeToken
  /\ Become(Holding(Enter("implicit_document_start"), NodeEvent("StreamStart", <<>>)))

ParseImplicitDocumentStart ==
  /\ Parse({"implicit_document_start"})
  /\ Peek \notin {"DOCUMENT-START", "STREAM-END"}
  /\ Become(Holding(PushState(Enter("block_node"), "document_end"),
                    NodeEvent("DocumentStart", <<>>)))
  /\ UNCHANGED sc

SkipDocumentEnd ==
  /\ Parse({"document_start"})
  /\ Peek = "DOCUMENT-END"
  /\ TakeToken
  /\ UNCHANGED ps

ParseDocumentStart ==
  /\ Parse({"document_start", "implicit_document_start"})
  /\ Peek = "DOCUMENT-START"
  /\ TakeToken
  /\ Become(Holding(PushState(Enter("document_content"), "document_end"),
                    NodeEvent("DocumentStart", <<>>)))

ParseStreamEnd ==
  /\ Parse({"document_start", "implicit_document_start"})
  /\ Peek = "STREAM-END"
  /\ TakeToken
  /\ Become(Holding(Enter("end"), NodeEvent("StreamEnd", <<>>)))

ParseDocumentEnd ==
  /\ Parse({"document_end"})
  /\ IF Peek = "DOCUMENT-END" THEN TakeToken ELSE UNCHANGED sc
  /\ Become(Holding(Enter("document_start"), NodeEvent("DocumentEnd", <<>>)))

(* parse_document_content: nothing stands between two document marks.       *)
ParseEmptyDocument ==
  /\ Parse({"document_content"})
  /\ Peek \in DocumentMarks
  /\ Become(Holding(PopState(ps), EmptyScalar))
  /\ UNCHANGED sc

(* parse_node                                                               *)
AtNode == Parse(NodeStates) /\ ~(ps.state = "document_content" /\ Peek \in DocumentMarks)

ParseAlias ==
  /\ AtNode /\ Peek = "ALIAS" /\ ps.anchor = <<>>
  /\ TakeToken
  /\ Become(Holding(PopState(ps), NodeEvent("Alias", Head(sc.tokens).value)))

ParseAnchor ==
  /\ AtNode /\ Peek = "ANCHOR" /\ ps.anchor = <<>>
  /\ TakeToken
  /\ Become([ps EXCEPT !.anchor = Head(sc.tokens).value,
               !.state = IF @ = "document_content" THEN "block_node" ELSE @])

ParseScalar ==
  /\ AtNode /\ Peek = "SCALAR"
  /\ TakeToken
  /\ Become(Holding(PopState(ps),
       ScalarEvent(ps.anchor, Head(sc.tokens).value, Head(sc.tokens).plain)))

(* The first token of a collection is taken when its first item is asked    *)
(* for; an indentless sequence has none.                                    *)
MayOpen == {o \in Openings : o.token = Peek /\ (o.block => ps.state # "flow_node")}

ParseCollectionStart ==
  /\ AtNode
  /\ \E o \in MayOpen :
       Become(Holding([ps EXCEPT !.state = o.state, !.first = TRUE],
                      NodeEvent(o.event, ps.anchor)))
  /\ UNCHANGED sc

ParseIndentlessStart ==
  /\ AtNode /\ ps.state = "any_node" /\ Peek = "BLOCK-ENTRY"
  /\ Become(Holding(Enter("indentless_sequence_entry"),
                    NodeEvent("SequenceStart", ps.anchor)))
  /\ UNCHANGED sc

NoContent == /\ Peek \notin {"SCALAR"} /\ MayOpen = {}
             /\ ~(ps.state = "any_node" /\ Peek = "BLOCK-ENTRY")

ParseAnchoredEmpty ==
  /\ AtNode /\ NoContent /\ ps.anchor # <<>>
  /\ Become(Holding(PopState(ps), ScalarEvent(ps.anchor, <<>>, TRUE)))
  /\ UNCHANGED sc

(* parse_..._first_entry and parse_..._first_key                            *)
InCollection(states) == ~ps.first /\ Parse(states)
ParseFirst ==
  /\ ps.first /\ Parse({o.state : o \in Openings})
  /\ TakeToken
  /\ Become([ps EXCEPT !.first = FALSE, !.marks = @ + 1])

ParseLead ==
  /\ InCollection(DOMAIN Items) /\ ~ps.opened
  /\ Peek = Items[ps.state].lead
  /\ TakeToken
  /\ Become([ps EXCEPT !.opened = TRUE])

ParseEmptyItem ==
  /\ InCollection(DOMAIN Items) /\ ps.opened
  /\ Peek \in Items[ps.state].stops
  /\ Become(Holding(Enter(Items[ps.state].next), EmptyScalar))
  /\ UNCHANGED sc

ParseItem ==
  /\ InCollection(DOMAIN Items) /\ ps.opened
  /\ Peek \notin Items[ps.state].stops
  /\ Become(PushState(Enter(Items[ps.state].node), Items[ps.state].next))
  /\ UNCHANGED sc

ParseComma ==
  /\ InCollection(DOMAIN Commas) /\ Peek = "FLOW-ENTRY"
  /\ TakeToken
  /\ Become(Enter(Commas[ps.state]))

ParseCollectionEnd ==
  /\ \E c \in Closings :
       /\ InCollection({c[1]}) /\ ~ps.opened /\ Peek = c[2]
       /\ Become(Holding([PopState(ps) EXCEPT !.marks = @ - 1], NodeEvent(c[3], <<>>)))
  /\ TakeToken

ParseIndentlessEnd ==
  /\ InCollection({"indentless_sequence_entry"}) /\ ~ps.opened
  /\ Peek # "BLOCK-ENTRY"
  /\ Become(Holding(PopState(ps), NodeEvent("SequenceEnd", <<>>)))
  /\ UNCHANGED sc

(* A key without a value                                                    *)
ParseMissingValue ==
  /\ InCollection({"block_mapping_value", "flow_mapping_value", "flow_pair_value"})
  /\ ~ps.opened /\ Peek # "VALUE"
  /\ Become(Holding(Enter(Items[ps.state].next), EmptyScalar))
  /\ UNCHANGED sc

ParseFlowEmptyValue ==
  /\ InCollection({"flow_mapping_empty_value"})
  /\ Become(Holding(Enter("flow_mapping_key"), EmptyScalar))
  /\ UNCHANGED sc

(* An entry of a flow sequence that has a key is a mapping of one pair.     *)
ParseFlowPairStart ==
  /\ InCollection({"flow_sequence_item"}) /\ Peek = "KEY"
  /\ Become(Holding(Enter("flow_pair_key"), NodeEvent("MappingStart", <<>>)))
  /\ UNCHANGED sc

ParseFlowPairEnd ==
  /\ InCollection({"flow_pair_end"})
  /\ Become(Holding(Enter("flow_sequence_entry"), NodeEvent("MappingEnd", <<>>)))
  /\ UNCHANGED sc

ParseFlowEntry ==
  /\ InCollection({"flow_sequence_item"}) /\ Peek \notin {"KEY", "FLOW-SEQUENCE-END"}
  /\ Become(PushState(Enter("flow_node"), "flow_sequence_entry"))
  /\ UNCHANGED sc

ParseFlowKey ==
  /\ InCollection({"flow_mapping_item"}) /\ ~ps.opened
  /\ Peek \notin {"KEY", "FLOW-MAPPING-END"}
  /\ Become(PushState(Enter("flow_node"), "flow_mapping_empty_value"))
  /\ UNCHANGED sc

(* Where a handler raises ParserError                                       *)
Unexpected ==
  \/ ps.state = "document_start" /\ Peek \notin DocumentMarks
  \/ ps.state \in NodeStates /\ NoContent /\ ps.anchor = <<>>
       /\ Peek \notin {"ALIAS", "ANCHOR"}
       /\ ~(ps.state = "document_content" /\ Peek \in DocumentMarks)
  \/ ps.state \in {"block_sequence_entry", "block_mapping_key"} /\ ~ps.opened
       /\ Peek \notin {Items[ps.state].lead, "BLOCK-END"}
  \/ ps.state = "flow_sequence_entry" /\ Peek \notin {"FLOW-ENTRY", "FLOW-SEQUENCE-END"}
  \/ ps.state = "flow_mapping_key" /\ Peek \notin {"FLOW-ENTRY", "FLOW-MAPPING-END"}

ParseError ==
  /\ ~ps.first /\ Parse({ps.state}) /\ ps.state # "end"
  /\ Unexpected
  /\ Become([ps EXCEPT !.error = TRUE])
  /\ UNCHANGED sc

ParseEvent ==
  \/ ParseStreamStart \/ ParseImplicitDocumentStart \/ SkipDocumentEnd
  \/ ParseDocumentStart \/ ParseStreamEnd \/ ParseDocumentEnd \/ ParseEmptyDocument
  \/ ParseAlias \/ ParseAnchor \/ ParseScalar
  \/ ParseCollectionStart \/ ParseIndentlessStart \/ ParseAnchoredEmpty
  \/ ParseFirst \/ ParseLead \/ ParseEmptyItem \/ ParseItem \/ ParseComma
  \/ ParseCollectionEnd \/ ParseIndentlessEnd \/ ParseMissingValue
  \/ ParseFlowEmptyValue \/ ParseFlowPairStart \/ ParseFlowPairEnd
  \/ ParseFlowEntry \/ ParseFlowKey \/ ParseError

-----------------------------------------------------------------------------
(* The composer: compose_document and compose_node, whose recursion is the  *)
(* stack of the collections still open.                                     *)

Compose(ids, c) ==
  /\ ~Failed
  /\ ps.event.id \in ids
  /\ co' = c
  /\ ps' = [ps EXCEPT !.event = NoEvent]
  /\ UNCHANGED <<text, sc, outcome>>

AddChild(c, i) ==
  IF c.stack = <<>> THEN c ELSE [c EXCEPT !.nodes[Last(c.stack)].kids = Append(@, i)]
AddNode(c, node, anchor) ==
  LET i == Len(c.nodes) + 1
      grown == AddChild([c EXCEPT !.nodes = Append(@, node)], i)
  IN IF anchor = <<>> THEN grown
     ELSE [grown EXCEPT !.anchors = @ \cup {<<anchor, i>>},
                        !.error = \E a \in c.anchors : a[1] = anchor]

ComposeMark ==
  Compose({"StreamStart", "StreamEnd"}, co)

(* get_single_node takes one document.                                      *)
ComposeDocument ==
  Compose({"DocumentStart"}, [co EXCEPT !.error = co.nodes # <<>>])

ComposeDocumentEnd ==
  Compose({"DocumentEnd"}, [co EXCEPT !.anchors = {}])

ComposeAlias ==
  LET known == {a \in co.anchors : a[1] = ps.event.anchor}
  IN Compose({"Alias"},
       IF known = {} THEN [co EXCEPT !.error = TRUE]
       ELSE AddChild(co, (CHOOSE a \in known : TRUE)[2]))

ComposeScalar ==
  LET ev == ps.event
      node == [kind |-> "scalar", tag |-> Resolve(ev.value, ev.plain),
               value |-> ev.value, kids |-> <<>>]
  IN Compose({"Scalar"}, AddNode(co, node, ev.anchor))

ComposeCollection ==
  LET kind == IF ps.event.id = "SequenceStart" THEN "seq" ELSE "map"
      node == [kind |-> kind, tag |-> kind, value |-> <<>>, kids |-> <<>>]
  IN Compose({"SequenceStart", "MappingStart"},
       [AddNode(co, node, ps.event.anchor) EXCEPT
          !.stack = Append(@, Len(co.nodes) + 1)])

ComposeCollectionEnd ==
  Compose({"SequenceEnd", "MappingEnd"}, [co EXCEPT !.stack = Front(@)])

ComposeEvent ==
  \/ ComposeMark \/ ComposeDocument \/ ComposeDocumentEnd \/ ComposeAlias
  \/ ComposeScalar \/ ComposeCollection \/ ComposeCollectionEnd

-----------------------------------------------------------------------------

(* Scanner, Parser and Composer start empty.                                *)
NewScanner == [index |-> 1, done |-> FALSE, flow |-> 0,
               tokens |-> <<Token("STREAM-START")>>, taken |-> 0,
               indents |-> <<-1>>, allow |-> TRUE, keys |-> {}, ready |-> FALSE,
               error |-> FALSE]
NewParser == [state |-> "stream_start", states |-> <<>>, marks |-> 0,
              anchor |-> <<>>, opened |-> FALSE, first |-> FALSE,
              event |-> NoEvent, error |-> FALSE]
NewComposer == [stack |-> <<>>, nodes |-> <<>>, anchors |-> {}, error |-> FALSE]

(* Reader.__init__: a text that is not printable is refused.                *)
ScannerOf(t) == [NewScanner EXCEPT !.error = \E i \in 1..Len(t) : t[i] = ESC]

(* construct_mapping refuses a key that is a list or a mapping.             *)
Unhashable(nodes) ==
  \E n \in 1..Len(nodes) :
    /\ nodes[n].kind = "map"
    /\ \E k \in 1..Len(nodes[n].kids) : k % 2 = 1 /\ nodes[nodes[n].kids[k]].kind # "scalar"

(* construct_document, then load_record                                     *)
Finish ==
  /\ outcome = "none"
  /\ Failed \/ (ps.state = "end" /\ ps.event = NoEvent)
  /\ outcome' = IF Failed \/ Unhashable(co.nodes) THEN "YAMLError"
                ELSE IF co.nodes = <<>> \/ co.nodes[1].kind # "map" THEN "ValueError"
                ELSE "payload"
  /\ UNCHANGED <<text, sc, ps, co>>

LoadNext == FetchMoreTokens \/ ParseEvent \/ ComposeEvent \/ Finish
=============================================================================
