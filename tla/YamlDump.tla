------------------------------ MODULE YamlDump ------------------------------
(***************************************************************************)
(* yaml.safe_dump as memwiz calls it: the serializer walks the graph of    *)
(* nodes and emits events (serializer.py), the emitter queues them until   *)
(* it has seen far enough ahead and writes the text (emitter.py).          *)
(*                                                                         *)
(* A document is a sequence of nodes in the order the serializer meets     *)
(* them first.  A collection lists its children by index, a mapping its    *)
(* keys and values in turn; a node listed twice is one object referred to  *)
(* twice.  Block style, one document, no directives and no explicit tags:  *)
(* the arguments memwiz passes reach nothing else.                         *)
(***************************************************************************)
EXTENDS YamlScalar

VARIABLES
  doc,        \* the nodes to write
  todo,       \* what the serializer has still to emit: events and nodes
  serialized, \* the nodes it has emitted
  events,     \* the emitter's queue
  em          \* the emitter: state, states, indents, indent, flow level, output

dumpVars == <<doc, todo, serialized, events, em>>

NoIndent == -1
BestIndent == 2
TagLength == 5      \* of "!!str", "!!int", "!!seq" and "!!map"

(* represent_scalar, represent_sequence, represent_mapping                  *)
ScalarNode(tag, value) ==
  [kind |-> "scalar", tag |-> tag, value |-> value, kids |-> <<>>]
CollectionNode(kind, kids) ==
  [kind |-> kind, tag |-> kind, value |-> <<>>, kids |-> kids]

Event(id) == [id |-> id, anchor |-> <<>>, value |-> <<>>,
              plain |-> TRUE, quoted |-> TRUE]
StartOf == [seq |-> "SequenceStart", map |-> "MappingStart"]
EndOf == [seq |-> "SequenceEnd", map |-> "MappingEnd"]
Starts == {StartOf[k] : k \in DOMAIN StartOf}
Ends == {EndOf[k] : k \in DOMAIN EndOf}

-----------------------------------------------------------------------------
(* The serializer                                                           *)

(* anchor_node: a node met a second time gets an anchor.                    *)
Referred(i) ==
  UNION {{<<n, k>> : k \in {j \in 1..Len(doc[n].kids) : doc[n].kids[j] = i}} :
           n \in 1..Len(doc)}
Anchored == {i \in 1..Len(doc) :
               Cardinality(Referred(i)) + (IF i = 1 THEN 1 ELSE 0) > 1}
(* generate_anchor: the names differ.                                       *)
AnchorOf(i) ==
  IF i \in Anchored THEN Times(Cardinality({n \in Anchored : n <= i}), "a")
  ELSE <<>>

(* need_more_events and need_events                                         *)
LookAhead(id) == CASE id = "DocumentStart" -> 1 [] id = "SequenceStart" -> 2
                   [] id = "MappingStart" -> 3 [] OTHER -> 0
ClosedWithin(es) ==
  \E k \in 2..Len(es) :
    \/ es[k].id = "StreamEnd"
    \/ Cardinality({i \in 2..k : es[i].id \in Starts \cup {"DocumentStart"}})
         < Cardinality({i \in 2..k : es[i].id \in Ends \cup {"DocumentEnd"}})
NeedMoreEvents ==
  IF events = <<>> THEN TRUE
  ELSE ~ClosedWithin(events) /\ Len(events) < LookAhead(Head(events).id) + 1

(* emit, and what is left to emit                                           *)
Emit(ev, rest) == events' = Append(events, ev) /\ todo' = rest /\ UNCHANGED <<doc, em>>

IsNode(t) == "node" \in DOMAIN t
NodeTask(i) == [node |-> i]

SerializeMark ==
  /\ NeedMoreEvents /\ todo # <<>> /\ ~IsNode(Head(todo))
  /\ Emit(Head(todo), Tail(todo))
  /\ UNCHANGED serialized

SerializeAlias ==
  /\ NeedMoreEvents /\ todo # <<>> /\ IsNode(Head(todo))
  /\ Head(todo).node \in serialized
  /\ Emit([Event("Alias") EXCEPT !.anchor = AnchorOf(Head(todo).node)], Tail(todo))
  /\ UNCHANGED serialized

SerializeNode ==
  /\ NeedMoreEvents /\ todo # <<>> /\ IsNode(Head(todo))
  /\ LET i == Head(todo).node
         n == doc[i]
     IN /\ i \notin serialized
        /\ serialized' = serialized \cup {i}
        /\ \/ /\ n.kind = "scalar"
              /\ Emit([id |-> "Scalar", anchor |-> AnchorOf(i), value |-> n.value,
                       plain |-> n.tag = Resolve(n.value, TRUE),
                       quoted |-> n.tag = Resolve(n.value, FALSE)], Tail(todo))
           \/ /\ n.kind # "scalar"
              /\ Emit([Event(StartOf[n.kind]) EXCEPT !.anchor = AnchorOf(i)],
                      [k \in 1..Len(n.kids) |-> NodeTask(n.kids[k])]
                        \o <<Event(EndOf[n.kind])>> \o Tail(todo))

-----------------------------------------------------------------------------
(* The emitter.  e is its record while a handler works on it.               *)

Pop(e) == [e EXCEPT !.state = Last(e.states), !.states = Front(@)]
Push(e, state) == [e EXCEPT !.states = Append(@, state)]
PopIndent(e) == [e EXCEPT !.indent = Last(e.indents), !.indents = Front(@)]
Written(e, o) == [e EXCEPT !.out = o]
Indented(e) == Written(e, WriteIndent(e.out, IF e.indent = NoIndent THEN 0 ELSE e.indent))

IncreaseIndent(e, flow, indentless) ==
  [e EXCEPT !.indents = Append(@, e.indent),
            !.indent = CASE @ = NoIndent -> IF flow THEN BestIndent ELSE 0
                         [] @ # NoIndent /\ indentless -> @
                         [] OTHER -> @ + BestIndent]

CheckEmpty(ev, next) ==
  /\ next # <<>>
  /\ \E k \in DOMAIN StartOf : ev.id = StartOf[k] /\ Head(next).id = EndOf[k]

CheckSimpleKey(ev, next) ==
  /\ Len(ev.anchor) + Len(ev.value) + (IF ev.id = "Alias" THEN 0 ELSE TagLength)
       < KeyLength
  /\ \/ ev.id = "Alias"
     \/ ev.id = "Scalar" /\ ~Analyze(ev.value).empty /\ ~Analyze(ev.value).multiline
     \/ CheckEmpty(ev, next)

(* A handler runs on the first event of the queue once enough follow it.    *)
Handle(e) ==
  /\ ~NeedMoreEvents
  /\ em' = e
  /\ events' = Tail(events)
  /\ UNCHANGED <<doc, todo, serialized>>

(* expect_node is called from here: its argument is kept, and the state to  *)
(* come back to is pushed.                                                  *)
Expect(e, next, context) ==
  /\ ~NeedMoreEvents
  /\ em' = [Push(e, next) EXCEPT !.state = "node", !.context = context]
  /\ UNCHANGED <<doc, todo, serialized, events>>

ExpectStreamStart ==
  em.state = "stream_start" /\ Handle([em EXCEPT !.state = "first_document_start"])

(* The first document of a stream needs no marker.                          *)
ExpectDocumentStart ==
  em.state = "first_document_start" /\ Handle([em EXCEPT !.state = "document_root"])

ExpectStreamEnd ==
  /\ em.state = "document_start"
  /\ LET dots == WriteIndicator(em.out, <<".", ".", ".">>, TRUE, FALSE, FALSE)
         ended == IF em.out.open_ended THEN WriteIndent(dots, 0) ELSE em.out
     IN Handle([Written(em, ended) EXCEPT !.state = "nothing"])

ExpectDocumentRoot ==
  /\ em.state = "document_root"
  /\ Expect(em, "document_end", "root")

ExpectDocumentEnd ==
  em.state = "document_end" /\ Handle([Indented(em) EXCEPT !.state = "document_start"])

(* A flow collection is empty here: it ends where its first item could be.  *)
EndFlowCollection ==
  /\ em.state = "first_flow_item"
  /\ LET e == PopIndent(em)
         bracket == IF Head(events).id = "SequenceEnd" THEN "]" ELSE "}"
         o == WriteIndicator(e.out, <<bracket>>, FALSE, FALSE, FALSE)
     IN Handle([Pop(Written(e, o)) EXCEPT !.flow = @ - 1])

EndBlockCollection ==
  /\ em.state \in {"block_sequence_item", "block_mapping_key"}
  /\ events # <<>> /\ Head(events).id \in Ends
  /\ Handle(Pop(PopIndent(em)))

ExpectBlockSequenceItem ==
  /\ em.state \in {"first_block_sequence_item", "block_sequence_item"}
  /\ events # <<>>
  /\ em.state = "block_sequence_item" => Head(events).id \notin Ends
  /\ LET e == Indented(em)
         o == WriteIndicator(e.out, <<"-">>, TRUE, FALSE, TRUE)
     IN Expect(Written(e, o), "block_sequence_item", "sequence")

ExpectBlockMappingKey ==
  /\ em.state \in {"first_block_mapping_key", "block_mapping_key"}
  /\ events # <<>>
  /\ em.state = "block_mapping_key" => Head(events).id \notin Ends
  /\ LET e == Indented(em)
         o == WriteIndicator(e.out, <<"?">>, TRUE, FALSE, TRUE)
     IN IF CheckSimpleKey(Head(events), Tail(events))
        THEN Expect(e, "block_mapping_simple_value", "simple_key")
        ELSE Expect(Written(e, o), "block_mapping_value", "mapping")

ExpectBlockMappingValue ==
  /\ em.state \in {"block_mapping_simple_value", "block_mapping_value"}
  /\ LET simple == em.state = "block_mapping_simple_value"
         e == IF simple THEN em ELSE Indented(em)
         o == WriteIndicator(e.out, <<":">>, ~simple, FALSE, ~simple)
     IN Expect(Written(e, o), "block_mapping_key", "mapping")

(* process_anchor, and expect_node by the kind of the event                 *)
WithAnchor ==
  LET ev == Head(events)
      mark == IF ev.id = "Alias" THEN "*" ELSE "&"
  IN IF ev.anchor = <<>> THEN em
     ELSE Written(em, WriteIndicator(em.out, <<mark>> \o ev.anchor, TRUE, FALSE, FALSE))

Node(ids) == em.state = "node" /\ events # <<>> /\ Head(events).id \in ids

ExpectAlias == Node({"Alias"}) /\ Handle(Pop(WithAnchor))

(* process_tag: whether the tag can be left to the reader to resolve        *)
NeedsTag(ev, style) == ~(IF style = "plain" THEN ev.plain ELSE ev.quoted)

ExpectScalar ==
  /\ Node({"Scalar"})
  /\ LET ev == Head(events)
         e == WithAnchor
         simple == em.context = "simple_key"
         style == ChooseStyle(ev.value, ev.plain, em.flow > 0, simple)
         o == WriteScalar(e.out, ev.value, style, IncreaseIndent(em, TRUE, FALSE).indent,
                          simple, em.context = "root")
     IN Handle([Pop(Written(em, o)) EXCEPT !.tagged = @ \/ NeedsTag(ev, style)])

InFlowStyle == em.flow > 0 \/ CheckEmpty(Head(events), Tail(events))

ExpectFlowCollection ==
  /\ Node(Starts) /\ InFlowStyle
  /\ LET bracket == IF Head(events).id = "SequenceStart" THEN "[" ELSE "{"
         o == WriteIndicator(WithAnchor.out, <<bracket>>, TRUE, TRUE, FALSE)
     IN Handle([IncreaseIndent(Written(em, o), TRUE, FALSE) EXCEPT
                  !.flow = @ + 1, !.state = "first_flow_item"])

(* A sequence that is a value of a mapping is not indented.                 *)
ExpectBlockCollection ==
  /\ Node(Starts) /\ ~InFlowStyle
  /\ LET e == WithAnchor
         mapping == em.context \in {"mapping", "simple_key"}
     IN Handle(IF Head(events).id = "SequenceStart"
               THEN [IncreaseIndent(e, FALSE, mapping /\ ~e.out.indention) EXCEPT
                       !.state = "first_block_sequence_item"]
               ELSE [IncreaseIndent(e, FALSE, FALSE) EXCEPT
                       !.state = "first_block_mapping_key"])

-----------------------------------------------------------------------------

NewEmitter == [state |-> "stream_start", states |-> <<>>, indents |-> <<>>,
               indent |-> NoIndent, flow |-> 0, out |-> EmptyOutput,
               context |-> "root", tagged |-> FALSE]

DumpInit(d) ==
  /\ doc = d
  /\ todo = <<Event("StreamStart"), Event("DocumentStart"), NodeTask(1),
              Event("DocumentEnd"), Event("StreamEnd")>>
  /\ serialized = {}
  /\ events = <<>>
  /\ em = NewEmitter

DumpNext ==
  \/ SerializeMark \/ SerializeAlias \/ SerializeNode
  \/ ExpectStreamStart \/ ExpectDocumentStart \/ ExpectStreamEnd
  \/ ExpectDocumentRoot \/ ExpectDocumentEnd
  \/ EndFlowCollection \/ EndBlockCollection
  \/ ExpectBlockSequenceItem \/ ExpectBlockMappingKey \/ ExpectBlockMappingValue
  \/ ExpectAlias \/ ExpectScalar \/ ExpectFlowCollection \/ ExpectBlockCollection

Dumped == todo = <<>> /\ events = <<>>
=============================================================================
