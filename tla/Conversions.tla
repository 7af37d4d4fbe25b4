----------------------------- MODULE Conversions -----------------------------
(***************************************************************************)
(* The wire and config adapters of resources.go: NewResourceFromProto,     *)
(* NewResourceFromString, NewResourceFromConf and ToProto.                 *)
(*                                                                         *)
(* A protobuf si.Resource is Nil or a function from types to a             *)
(* *si.Quantity, which is Nil (a nil pointer) or [Value |-> q].            *)
(* json.Unmarshal is the table Decode from the strings a caller passes to  *)
(* the decoded value: DecodeError, Nil (the JSON text null) or a proto.    *)
(* The quantity parsers ParseVCore and ParseQuantity live beside this file *)
(* in the repository but outside it; they are tables from the strings of a *)
(* config to [ok |-> TRUE, val |-> q] or [ok |-> FALSE].  A nil            *)
(* dereference is the model value Panic.                                   *)
(***************************************************************************)
EXTENDS Resource, Sequences, TLC

LOCAL Seqs == INSTANCE SequencesExt

CONSTANTS
  CPU,            \* common.CPU, the key parsed as a core count
  Strings,        \* the strings of a config map
  VCoreTable,     \* ParseVCore on each string
  QuantityTable,  \* ParseQuantity on each string
  DecodeError,    \* the error json.Unmarshal returns
  Panic           \* the goroutine dies on a nil pointer dereference

Parsed == {[ok |-> FALSE]} \cup [ok : {TRUE}, val : Quantity]

ASSUME /\ CPU \in Keys
       /\ VCoreTable \in [Strings -> Parsed]
       /\ QuantityTable \in [Strings -> Parsed]
       /\ Cardinality({Nil, DecodeError, Panic}) = 3

ParseVCore(s) == VCoreTable[s]
ParseQuantity(s) == QuantityTable[s]

\* NewResourceFromProto (54-64): nil gives a new empty resource; each entry
\* reads v.Value, which dereferences a nil *si.Quantity.
NewResourceFromProto(proto) ==
  CASE proto = Nil -> EmptyRes
    [] \E k \in DOMAIN proto : proto[k] = Nil -> Panic
    [] OTHER -> [k \in DOMAIN proto |-> proto[k].Value]

\* NewResourceFromString (75-81): an unmarshal error gives (nil, err);
\* otherwise NewResourceFromProto of the decoded value.
NewResourceFromString(decoded) ==
  IF decoded = DecodeError THEN [err |-> TRUE, res |-> Nil]
  ELSE [err |-> FALSE, res |-> NewResourceFromProto(decoded)]

\* ToProto leaving out the types whose quantity is 0.
ToProtoNoZero(r) ==
  [k \in (IF r = Nil THEN {} ELSE {t \in DOMAIN r : r[t] # 0}) |-> [Value |-> r[k]]]

\* ToProto (123-132): a new proto with one quantity per defined type; nil
\* gives an empty proto, never a nil one.
ToProto(r) ==
  [k \in (IF r = Nil THEN {} ELSE DOMAIN r) |-> [Value |-> r[k]]]

-----------------------------------------------------------------------------
\* The config loop that returns what it had built when a parse fails.
RECURSIVE ConfLoopPartial(_, _, _)
ConfLoopPartial(configMap, order, res) ==
  IF order = <<>> THEN [err |-> FALSE, res |-> res]
  ELSE LET key == Head(order)
           p   == IF key = CPU THEN ParseVCore(configMap[key])
                  ELSE ParseQuantity(configMap[key])
       IN  IF ~p.ok THEN [err |-> TRUE, res |-> res]
           ELSE ConfLoopPartial(configMap, Tail(order), (key :> p.val) @@ res)

(***************************************************************************)
(* The loop of NewResourceFromConf (85-101) over one iteration order: the *)
(* CPU key is parsed with ParseVCore, every other with ParseQuantity; the  *)
(* first failure returns (nil, err).                                       *)
(***************************************************************************)
RECURSIVE ConfLoop(_, _, _)
ConfLoop(configMap, order, res) ==
  IF order = <<>> THEN [err |-> FALSE, res |-> res]
  ELSE LET key == Head(order)
           p   == IF key = CPU THEN ParseVCore(configMap[key])
                  ELSE ParseQuantity(configMap[key])
       IN  IF ~p.ok THEN [err |-> TRUE, res |-> Nil]
           ELSE ConfLoop(configMap, Tail(order), (key :> p.val) @@ res)

\* NewResourceFromConf (85-102): the results over every iteration order of
\* the config map, starting from NewResource().
NewResourceFromConf(configMap) ==
  {ConfLoop(configMap, order, EmptyRes) : order \in Seqs!SetToSeqs(DOMAIN configMap)}
=============================================================================
