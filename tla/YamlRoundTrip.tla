--------------------------- MODULE YamlRoundTrip ---------------------------
(***************************************************************************)
(* dump_record, then load_record of what it wrote (serde.py); and the load *)
(* of a text some other hand wrote.  The record itself is the document: a  *)
(* mapping, its strings, lists and numbers.                                *)
(***************************************************************************)
EXTENDS YamlDump, YamlLoad

CONSTANTS
  Docs,   \* the documents that are dumped and loaded
  Texts   \* the texts that are only loaded

(* What the representer makes of a record: a scalar that is not a string is *)
(* a word that the resolver knows by itself and that may stand plain.       *)
ASSUME DocsAssumption ==
  \A d \in Docs :
    /\ d # <<>>
    /\ d \in Seq([kind : {"scalar", "seq", "map"}, tag : STRING, value : Seq(STRING),
                  kids : Seq(Nat)])
    /\ \A n \in 1..Len(d) :
         /\ \A k \in 1..Len(d[n].kids) : d[n].kids[k] \in 1..Len(d)
         /\ d[n].kind = "scalar" => d[n].kids = <<>>
         /\ d[n].kind = "scalar" /\ d[n].tag # "str" =>
              /\ d[n].tag = Resolve(d[n].value, TRUE)
              /\ d[n].value # <<>> /\ Analyze(d[n].value).blockPlain

VARIABLE phase    \* "dump" or "load"

vars == <<dumpVars, loadVars, phase>>

LoadInit(t) ==
  /\ text = t
  /\ sc = ScannerOf(t)
  /\ ps = NewParser
  /\ co = NewComposer
  /\ outcome = "none"

Init ==
  \/ \E d \in Docs : DumpInit(d) /\ LoadInit(<<>>) /\ phase = "dump"
  \/ \E t \in Texts :
       /\ doc = <<>> /\ todo = <<>> /\ serialized = {} /\ events = <<>>
       /\ em = NewEmitter
       /\ LoadInit(t) /\ phase = "load"

(* read_record reads what write_record wrote.                               *)
Reread ==
  /\ phase = "dump" /\ Dumped
  /\ phase' = "load"
  /\ text' = em.out.text
  /\ sc' = ScannerOf(em.out.text)
  /\ UNCHANGED <<dumpVars, ps, co, outcome>>

(* Nothing else ends: a component that waits for an event or a token that   *)
(* never comes is a deadlock.                                               *)
Terminated == outcome # "none" /\ UNCHANGED vars

Next ==
  \/ phase = "dump" /\ DumpNext /\ UNCHANGED <<loadVars, phase>>
  \/ Reread
  \/ phase = "load" /\ LoadNext /\ UNCHANGED <<dumpVars, phase>>
  \/ Terminated

Spec == Init /\ [][Next]_vars

-----------------------------------------------------------------------------
(* Properties                                                               *)

(* What dump_record writes, load_record reads back: the same nodes with the *)
(* same tags and the same sharing, whatever a string holds, wherever a line *)
(* was folded, and whichever of three styles was chosen.  No tag had to be  *)
(* written for it: a string that looks like a number or like nothing is     *)
(* quoted.                                                                  *)
RoundTrip ==
  (doc # <<>> /\ outcome # "none") =>
    /\ co.nodes = doc /\ ~em.tagged
    /\ outcome = IF Unhashable(doc) THEN "YAMLError"
                 ELSE IF doc[1].kind = "map" THEN "payload" ELSE "ValueError"

(* A possible simple key still stands in the queue: the KEY and the         *)
(* BLOCK-MAPPING-START that a later ':' inserts come before its tokens.     *)
KeysWait ==
  \A k \in sc.keys : k.token \in sc.taken..(sc.taken + Len(sc.tokens))

(* The scanner's indents and the parser's stack, which never see each       *)
(* other, agree: each indent is a block collection the parser is in, or one *)
(* whose start waits in the queue, less those whose end waits there.        *)
Queued(ids) == Cardinality({i \in 1..Len(sc.tokens) : sc.tokens[i].id \in ids})
BlockStates == {"block_sequence_entry", "block_mapping_key", "block_mapping_value"}
InBlocks == LET stack == Append(ps.states, ps.state)
            IN Cardinality({i \in 1..Len(stack) : stack[i] \in BlockStates})
                 - (IF ps.first /\ ps.state \in BlockStates THEN 1 ELSE 0)
IndentsMatch ==
  Len(sc.indents) - 1 =
    InBlocks + Queued({"BLOCK-SEQUENCE-START", "BLOCK-MAPPING-START"})
             - Queued({"BLOCK-END"})
=============================================================================
